----------------------------- MODULE SelfPlayProofs -----------------------------
(***************************************************************************)
(* Proofs about SelfPlay, for any runs, operators, crashes and sites.      *)
(***************************************************************************)
EXTENDS SelfPlay, TLAPS, SequenceTheorems, FiniteSetTheorems, WellFoundedInduction

--------------------------------------------------------------------------------
(* Sequences of whatever they hold. *)

Elements(s) == {s[i] : i \in DOMAIN s}
IsSeq(s) == s \in Seq(Elements(s))

\* A member of some Seq(S) is a sequence of its own elements.
LEMMA SeqIs == ASSUME NEW S, NEW s \in Seq(S) PROVE IsSeq(s)
<1>1. DOMAIN s = 1 .. Len(s) /\ Len(s) \in Nat /\ s \in [1 .. Len(s) -> S]
  BY LenProperties
<1>2. s \in [1 .. Len(s) -> Elements(s)]
  BY <1>1 DEF Elements
<1>q. QED
  BY <1>1, <1>2, SeqDef DEF IsSeq

LEMMA SeqLen == ASSUME NEW s, IsSeq(s) PROVE Len(s) \in Nat /\ DOMAIN s = 1 .. Len(s)
  BY LenProperties DEF IsSeq

LEMMA EmptyIs == IsSeq(<<>>) /\ Len(<<>>) = 0 /\ DOMAIN <<>> = {}
<1>1. <<>> \in Seq({}) /\ Len(<<>>) = 0
  BY EmptySeq
<1>2. IsSeq(<<>>)
  BY <1>1, SeqIs
<1>3. DOMAIN <<>> = 1 .. 0
  BY <1>1, LenProperties
<1>q. QED
  BY <1>1, <1>2, <1>3

LEMMA LenZero == ASSUME NEW s, IsSeq(s) PROVE s = <<>> <=> Len(s) = 0
  BY EmptySeq, LenProperties DEF IsSeq

\* What Append returns.
LEMMA AppendIs ==
  ASSUME NEW s, NEW e, IsSeq(s)
  PROVE  /\ IsSeq(Append(s, e)) /\ Len(Append(s, e)) = Len(s) + 1
         /\ \A i \in 1 .. Len(s) : Append(s, e)[i] = s[i]
         /\ Append(s, e)[Len(s) + 1] = e
<1> DEFINE S == Elements(s) \cup {e}
<1>1. s \in Seq(S)
  BY SeqMonotonic DEF IsSeq
<1>2. e \in S
  OBVIOUS
<1> HIDE DEF S
<1>3. /\ Append(s, e) \in Seq(S) /\ Len(Append(s, e)) = Len(s) + 1
      /\ \A i \in 1 .. Len(s) : Append(s, e)[i] = s[i]
      /\ Append(s, e)[Len(s) + 1] = e
  BY <1>1, <1>2, AppendProperties
<1>4. IsSeq(Append(s, e))
  BY <1>3, SeqIs
<1>q. QED
  BY <1>3, <1>4

\* Put replaces an element of a sequence, or adds one at its end.
LEMMA PutIs ==
  ASSUME NEW s, NEW e, NEW k \in Nat, IsSeq(s), k \in 1 .. Len(s) + 1
  PROVE  /\ IsSeq(Put(s, k, e)) /\ Len(Put(s, k, e)) >= Len(s) /\ Len(Put(s, k, e)) >= k
         /\ \A i \in 1 .. Len(Put(s, k, e)) :
              Put(s, k, e)[i] = IF i = k THEN e ELSE s[i]
         /\ \A i \in 1 .. Len(Put(s, k, e)) : i # k => i \in 1 .. Len(s)
<1> DEFINE n == IF k = Len(s) + 1 THEN Len(s) + 1 ELSE Len(s)
           S == Elements(s) \cup {e}
           t == Put(s, k, e)
<1>1. Len(s) \in Nat /\ DOMAIN s = 1 .. Len(s)
  BY SeqLen
<1>2. DOMAIN t = 1 .. n /\ n \in Nat /\ n >= Len(s) /\ n >= k /\ \A i \in 1 .. n : i # k => i \in 1 .. Len(s)
  BY <1>1 DEF Put
<1>3. \A i \in 1 .. n : t[i] = IF i = k THEN e ELSE s[i]
  BY <1>1, <1>2 DEF Put
<1>4. t \in [1 .. n -> S]
  <2>1. t = [i \in 1 .. n |-> t[i]]
    BY <1>1, <1>2 DEF Put
  <2>2. \A i \in 1 .. n : t[i] \in S
    BY <1>1, <1>2, <1>3 DEF Elements
  <2>q. QED
    BY <2>1, <2>2
<1>5. t \in Seq(S)
  BY <1>2, <1>4, SeqDef
<1>6. Len(t) = n
  BY <1>2, <1>5, LenProperties
<1>q. QED
  BY <1>2, <1>3, <1>5, <1>6, SeqIs

--------------------------------------------------------------------------------
(* Runs: iterations are numbered without a gap in the manifests and in the *)
(* memory of a run, and each has its own checkpoint.                       *)

Numbered(r, ms) ==
  IsSeq(ms) /\ \A i \in DOMAIN ms : ms[i].n = i /\ ms[i].source = Source(r, i)

RunShape(s) ==
  s = [pc |-> s.pc, first |-> s.first, iter |-> s.iter, last |-> s.last, games |-> s.games,
       evals |-> s.evals, base |-> s.base, eval |-> s.eval, current |-> s.current,
       pool |-> s.pool, done |-> s.done, m |-> s.m]

\* What holds of the process of run r and of its iteration and run manifests.
RunOk(r, s, im, rm) ==
  /\ RunShape(s) /\ Numbered(r, im) /\ Numbered(r, rm) /\ Len(rm) <= Len(im)
  /\ s.pc \in {"off", "collect", "train", "evaluate", "publish", "promote", "finish"}
  /\ s.pc # "off" =>
       /\ Numbered(r, s.done) /\ s.iter = Len(s.done) + 1 /\ Len(s.done) <= Len(im)
  /\ s.pc \in {"collect", "train", "evaluate", "publish"} => Len(rm) <= Len(s.done)
  /\ s.pc \in {"promote", "finish"} => Len(rm) = s.iter
  /\ s.pc \in {"publish", "promote", "finish"} =>
       s.m.n = s.iter /\ s.m.source = Source(r, s.iter) /\ s.iter <= Len(im)

RunInv(r) == RunOk(r, run[r], iterman[r], runman[r])

RunsInv ==
  /\ DOMAIN run = Runs /\ DOMAIN iterman = Runs /\ DOMAIN runman = Runs
  /\ \A r \in Runs : RunInv(r)

LEMMA EmptyNumbered == ASSUME NEW r PROVE Numbered(r, <<>>)
  BY EmptyIs DEF Numbered

\* One more iteration.
LEMMA AppendNumbered ==
  ASSUME NEW r, NEW ms, NEW m, Numbered(r, ms), m.n = Len(ms) + 1, m.source = Source(r, m.n)
  PROVE  Numbered(r, Append(ms, m)) /\ Len(Append(ms, m)) = Len(ms) + 1
<1>1. IsSeq(ms)
  BY DEF Numbered
<1>2. Len(ms) \in Nat /\ DOMAIN ms = 1 .. Len(ms)
  BY <1>1, SeqLen
<1>3. /\ IsSeq(Append(ms, m)) /\ Len(Append(ms, m)) = Len(ms) + 1
      /\ \A i \in 1 .. Len(ms) : Append(ms, m)[i] = ms[i]
      /\ Append(ms, m)[Len(ms) + 1] = m
  BY <1>1, AppendIs
<1>4. DOMAIN Append(ms, m) = 1 .. Len(ms) + 1
  BY <1>3, SeqLen
<1>q. QED
  BY <1>2, <1>3, <1>4 DEF Numbered

\* A manifest written for the first time, or again.
LEMMA PutNumbered ==
  ASSUME NEW r, NEW ms, NEW k \in Nat, NEW m, Numbered(r, ms), k \in 1 .. Len(ms) + 1,
         m.n = k, m.source = Source(r, k)
  PROVE  /\ Numbered(r, Put(ms, k, m))
         /\ Len(Put(ms, k, m)) >= Len(ms) /\ Len(Put(ms, k, m)) >= k
<1>1. IsSeq(ms) /\ Len(ms) \in Nat /\ DOMAIN ms = 1 .. Len(ms)
  BY SeqLen DEF Numbered
<1> DEFINE t == Put(ms, k, m)
<1>2. /\ IsSeq(t) /\ Len(t) >= Len(ms) /\ Len(t) >= k
      /\ \A i \in 1 .. Len(t) : t[i] = IF i = k THEN m ELSE ms[i]
      /\ \A i \in 1 .. Len(t) : i # k => i \in 1 .. Len(ms)
  BY <1>1, PutIs
<1> HIDE DEF t
<1>3. DOMAIN t = 1 .. Len(t)
  BY <1>2, SeqLen
<1>4. \A i \in DOMAIN t : t[i].n = i /\ t[i].source = Source(r, i)
  BY <1>1, <1>2, <1>3 DEF Numbered
<1>q. QED
  BY <1>2, <1>4 DEF Numbered, t

LEMMA InitRuns == Init => RunsInv
<1> SUFFICES ASSUME Init PROVE RunsInv
  OBVIOUS
<1>1. /\ DOMAIN run = Runs /\ DOMAIN iterman = Runs /\ DOMAIN runman = Runs
      /\ \A r \in Runs : run[r] = Off /\ iterman[r] = <<>> /\ runman[r] = <<>>
  BY DEF Init
<1>2. ASSUME NEW r \in Runs PROVE RunOk(r, Off, <<>>, <<>>)
  BY EmptyNumbered, EmptyIs DEF RunOk, RunShape, Off
<1>q. QED
  BY <1>1, <1>2 DEF RunsInv, RunInv

\* What a step of run r leaves alone, and the manifests it only adds to.
OnlyRun(r) ==
  /\ DOMAIN run' = DOMAIN run /\ DOMAIN iterman' = DOMAIN iterman
  /\ DOMAIN runman' = DOMAIN runman
  /\ \A q \in Runs : q # r =>
       run'[q] = run[q] /\ iterman'[q] = iterman[q] /\ runman'[q] = runman[q]

\* A step of run r that does not put back its manifests.
RunGoesOn(r) ==
  /\ OnlyRun(r) /\ RunOk(r, run'[r], iterman'[r], runman'[r])
  /\ Len(runman[r]) <= Len(runman'[r])

RunsGrow == \A r \in Runs : Len(runman[r]) <= Len(runman'[r])

LEMMA RunGoesOnKeeps ==
  ASSUME RunsInv, NEW r \in Runs, RunGoesOn(r)
  PROVE  RunsInv' /\ RunsGrow
<1>1. DOMAIN run' = Runs /\ DOMAIN iterman' = Runs /\ DOMAIN runman' = Runs
  BY DEF RunsInv, RunGoesOn, OnlyRun
<1>2. ASSUME NEW q \in Runs
      PROVE  RunOk(q, run'[q], iterman'[q], runman'[q]) /\ Len(runman[q]) <= Len(runman'[q])
  <2>1. CASE q = r
    BY <2>1 DEF RunGoesOn
  <2>2. CASE q # r
    <3>1. RunOk(q, run'[q], iterman'[q], runman'[q]) /\ runman'[q] = runman[q]
      BY <2>2 DEF RunsInv, RunInv, RunGoesOn, OnlyRun
    <3>2. Len(runman[q]) \in Nat
      BY SeqLen DEF RunsInv, RunInv, RunOk, Numbered
    <3>q. QED
      BY <3>1, <3>2
  <2>q. QED
    BY <2>1, <2>2
<1>q. QED
  BY <1>1, <1>2 DEF RunsInv, RunInv, RunsGrow

LEMMA RunLens ==
  ASSUME RunsInv, NEW r \in Runs
  PROVE  /\ RunOk(r, run[r], iterman[r], runman[r])
         /\ Len(runman[r]) \in Nat /\ Len(iterman[r]) \in Nat
         /\ run[r].pc # "off" => Len(run[r].done) \in Nat /\ run[r].iter \in Nat
<1>1. RunOk(r, run[r], iterman[r], runman[r])
  BY DEF RunsInv, RunInv
<1>2. Len(runman[r]) \in Nat /\ Len(iterman[r]) \in Nat
  BY <1>1, SeqLen DEF RunOk, Numbered
<1>3. run[r].pc # "off" => Len(run[r].done) \in Nat /\ run[r].iter \in Nat
  BY <1>1, SeqLen DEF RunOk, Numbered
<1>q. QED
  BY <1>1, <1>2, <1>3

\* The memory of a run changes, its manifests do not.
LEMMA StartRuns ==
  ASSUME RunsInv, NEW r \in Runs, Start(r) PROVE RunGoesOn(r)
<1> DEFINE ms == Prior(r)
<1>1. RunOk(r, run[r], iterman[r], runman[r]) /\ Len(runman[r]) \in Nat /\ Len(iterman[r]) \in Nat
  BY RunLens
<1>2. Numbered(r, ms) /\ Len(runman[r]) <= Len(ms) /\ Len(ms) <= Len(iterman[r])
  <2>1. CASE runman[r] = <<>>
    BY <1>1, <2>1, EmptyIs DEF Prior, RunOk
  <2>2. CASE runman[r] # <<>>
    BY <1>1, <2>2 DEF Prior, RunOk
  <2>q. QED
    BY <2>1, <2>2
<1>3. Len(ms) \in Nat /\ DOMAIN ms = 1 .. Len(ms) /\ (ms = <<>> <=> Len(ms) = 0)
  BY <1>2, SeqLen, LenZero DEF Numbered
<1>4. FirstIteration(ms) = Len(ms) + 1
  BY <1>2, <1>3 DEF FirstIteration, Last, Numbered
<1>5. PICK last, size, pool, current :
        run' = [run EXCEPT ![r] =
                [pc |-> "collect", first |-> FirstIteration(ms), iter |-> FirstIteration(ms),
                 last |-> last, games |-> size.games, evals |-> size.evals,
                 base |-> NextSeed(ms), eval |-> NextEvaluation(ms), current |-> current,
                 pool |-> pool, done |-> ms, m |-> None]]
  BY DEF Start
<1>6. iterman' = iterman /\ runman' = runman
  BY DEF Start
<1> HIDE DEF ms
<1>7. RunOk(r, run'[r], iterman[r], runman[r])
  BY <1>1, <1>2, <1>3, <1>4, <1>5 DEF RunOk, RunShape, RunsInv
<1>q. QED
  BY <1>1, <1>5, <1>6, <1>7 DEF RunGoesOn, OnlyRun

\* A run whose process ends, or that only moves on inside an iteration.
LEMMA DiesRuns ==
  ASSUME RunsInv, NEW r \in Runs, Dies(r), UNCHANGED <<iterman, runman>> PROVE RunGoesOn(r)
<1>1. RunOk(r, run[r], iterman[r], runman[r]) /\ Len(runman[r]) \in Nat
  BY RunLens
<1>2. run'[r] = Off
  BY DEF Dies, RunsInv
<1>3. RunOk(r, Off, iterman[r], runman[r])
  BY <1>1 DEF RunOk, RunShape, Off
<1>q. QED
  BY <1>1, <1>2, <1>3 DEF RunGoesOn, OnlyRun, Dies

LEMMA EntersRuns ==
  ASSUME RunsInv, NEW r \in Runs, NEW pc, Enters(r, pc), UNCHANGED <<iterman, runman>>,
         <<run[r].pc, pc>> \in {<<"collect", "train">>, <<"train", "evaluate">>}
  PROVE  RunGoesOn(r)
<1>1. RunOk(r, run[r], iterman[r], runman[r]) /\ Len(runman[r]) \in Nat
  BY RunLens
<1>2. run'[r] = [run[r] EXCEPT !.pc = pc]
  BY DEF Enters, RunsInv
<1>3. RunShape(run'[r]) /\ run'[r].pc = pc /\ run'[r].done = run[r].done /\ run'[r].iter = run[r].iter
  BY <1>1, <1>2 DEF RunOk, RunShape
<1>4. RunOk(r, run'[r], iterman[r], runman[r])
  BY <1>1, <1>3 DEF RunOk
<1>q. QED
  BY <1>1, <1>4 DEF RunGoesOn, OnlyRun, Enters

\* An evaluation ends the run, or writes the manifest of the iteration.
LEMMA EvaluateEffect ==
  ASSUME NEW r \in Runs, Evaluate(r)
  PROVE  \/ Dies(r) /\ UNCHANGED iterman
         \/ \E measured, wins, eval :
              /\ run' = [run EXCEPT ![r].pc = "publish",
                                   ![r].m = IterationManifest(r, measured, wins),
                                   ![r].eval = eval]
              /\ iterman' = [iterman EXCEPT
                              ![r] = Put(@, run[r].iter, IterationManifest(r, measured, wins))]
<1>1. PICK measured, wins :
        \/ Dies(r) /\ UNCHANGED iterman
        \/ /\ run' = [run EXCEPT ![r].pc = "publish",
                                ![r].m = IterationManifest(r, measured, wins),
                                ![r].eval = @ + IterationManifest(r, measured, wins).evals]
           /\ iterman' = [iterman EXCEPT
                           ![r] = Put(@, run[r].iter, IterationManifest(r, measured, wins))]
  BY DEF Evaluate
<1>q. QED
  BY <1>1

\* The manifest of an iteration, the decision in it, and the manifest of the run.
LEMMA EvaluateRuns ==
  ASSUME RunsInv, NEW r \in Runs, Evaluate(r) PROVE RunGoesOn(r)
<1>1. RunOk(r, run[r], iterman[r], runman[r]) /\ run[r].pc = "evaluate"
      /\ Len(runman[r]) \in Nat /\ Len(iterman[r]) \in Nat
      /\ Len(run[r].done) \in Nat /\ run[r].iter \in Nat
  BY RunLens DEF Evaluate, Pc
<1>2. runman' = runman
  BY DEF Evaluate
<1>3. CASE Dies(r) /\ UNCHANGED iterman
  BY <1>2, <1>3, DiesRuns
<1>4. CASE \E m, eval :
             /\ m.n = run[r].iter /\ m.source = Source(r, run[r].iter)
             /\ run' = [run EXCEPT ![r].pc = "publish", ![r].m = m, ![r].eval = eval]
             /\ iterman' = [iterman EXCEPT ![r] = Put(@, run[r].iter, m)]
  <2>1. PICK m, eval :
             /\ m.n = run[r].iter /\ m.source = Source(r, run[r].iter)
             /\ run' = [run EXCEPT ![r].pc = "publish", ![r].m = m, ![r].eval = eval]
             /\ iterman' = [iterman EXCEPT ![r] = Put(@, run[r].iter, m)]
    BY <1>4
  <2>2. run'[r] = [run[r] EXCEPT !.pc = "publish", !.m = m, !.eval = eval]
    BY <2>1 DEF RunsInv
  <2>3. /\ RunShape(run'[r]) /\ run'[r].pc = "publish" /\ run'[r].done = run[r].done
        /\ run'[r].iter = run[r].iter /\ run'[r].m = m
    BY <1>1, <2>2 DEF RunOk, RunShape
  <2>4. run[r].iter \in 1 .. Len(iterman[r]) + 1
    BY <1>1 DEF RunOk
  <2>5. /\ Numbered(r, Put(iterman[r], run[r].iter, m))
        /\ Len(Put(iterman[r], run[r].iter, m)) >= Len(iterman[r])
        /\ Len(Put(iterman[r], run[r].iter, m)) >= run[r].iter
    BY <1>1, <2>1, <2>4, PutNumbered DEF RunOk
  <2>6. iterman'[r] = Put(iterman[r], run[r].iter, m) /\ Len(iterman'[r]) \in Nat
    BY <2>1, <2>5, SeqLen DEF RunsInv, Numbered
  <2>7. RunOk(r, run'[r], iterman'[r], runman[r])
    BY <1>1, <2>1, <2>3, <2>5, <2>6 DEF RunOk
  <2>8. OnlyRun(r)
    <3>1. DOMAIN run' = DOMAIN run /\ \A q \in Runs : q # r => run'[q] = run[q]
      BY <2>1 DEF RunsInv
    <3>2. DOMAIN iterman' = DOMAIN iterman /\ \A q \in Runs : q # r => iterman'[q] = iterman[q]
      BY <2>1 DEF RunsInv
    <3>q. QED
      BY <1>2, <3>1, <3>2 DEF OnlyRun
  <2>9. Len(runman[r]) <= Len(runman'[r])
    BY <1>1, <1>2
  <2>q. QED
    BY <1>2, <2>7, <2>8, <2>9 DEF RunGoesOn
<1>5. (Dies(r) /\ UNCHANGED iterman) \/
      \E m, eval :
             /\ m.n = run[r].iter /\ m.source = Source(r, run[r].iter)
             /\ run' = [run EXCEPT ![r].pc = "publish", ![r].m = m, ![r].eval = eval]
             /\ iterman' = [iterman EXCEPT ![r] = Put(@, run[r].iter, m)]
  <2>1. ASSUME NEW measured, NEW wins
        PROVE  /\ IterationManifest(r, measured, wins).n = run[r].iter
               /\ IterationManifest(r, measured, wins).source = Source(r, run[r].iter)
    BY DEF IterationManifest
  <2>2. CASE Dies(r) /\ UNCHANGED iterman
    BY <2>2
  <2>3. CASE ~(Dies(r) /\ UNCHANGED iterman)
    <3>0. PICK measured, wins, eval :
            /\ run' = [run EXCEPT ![r].pc = "publish",
                                 ![r].m = IterationManifest(r, measured, wins),
                                 ![r].eval = eval]
            /\ iterman' = [iterman EXCEPT
                            ![r] = Put(@, run[r].iter, IterationManifest(r, measured, wins))]
      BY <2>3, EvaluateEffect
    <3> DEFINE mm == IterationManifest(r, measured, wins)
    <3>1. mm.n = run[r].iter /\ mm.source = Source(r, run[r].iter)
      BY <2>1
    <3> HIDE DEF mm
    <3>q. QED
      BY <3>0, <3>1 DEF mm
  <2>q. QED
    BY <2>2, <2>3
<1>q. QED
  BY <1>3, <1>4, <1>5

LEMMA WriteRunRuns ==
  ASSUME RunsInv, NEW r \in Runs, WriteRun(r) PROVE RunGoesOn(r)
<1>1. RunOk(r, run[r], iterman[r], runman[r]) /\ run[r].pc = "publish"
      /\ Len(runman[r]) \in Nat /\ Len(iterman[r]) \in Nat
      /\ Len(run[r].done) \in Nat /\ run[r].iter \in Nat
  BY RunLens DEF WriteRun, Pc
<1>2. PICK pc \in {"promote", "finish"} : Enters(r, pc)
  BY DEF WriteRun
<1>3. run'[r] = [run[r] EXCEPT !.pc = pc]
  BY <1>2 DEF Enters, RunsInv
<1>4. /\ RunShape(run'[r]) /\ run'[r].pc = pc /\ run'[r].done = run[r].done
      /\ run'[r].iter = run[r].iter /\ run'[r].m = run[r].m
  BY <1>1, <1>3 DEF RunOk, RunShape
<1>5. runman'[r] = Append(run[r].done, run[r].m) /\ iterman' = iterman
  BY DEF WriteRun, RunsInv
<1>6. Numbered(r, runman'[r]) /\ Len(runman'[r]) = run[r].iter
  BY <1>1, <1>5, AppendNumbered DEF RunOk
<1>7. RunOk(r, run'[r], iterman[r], runman'[r]) /\ Len(runman[r]) <= Len(runman'[r])
  BY <1>1, <1>2, <1>4, <1>6 DEF RunOk
<1>q. QED
  BY <1>2, <1>5, <1>7 DEF RunGoesOn, OnlyRun, WriteRun, Enters

LEMMA DecideRuns ==
  ASSUME RunsInv, NEW r \in Runs, Decide(r) PROVE RunGoesOn(r)
<1>1. RunOk(r, run[r], iterman[r], runman[r]) /\ run[r].pc = "promote"
      /\ Len(runman[r]) \in Nat /\ Len(iterman[r]) \in Nat
      /\ Len(run[r].done) \in Nat /\ run[r].iter \in Nat
  BY RunLens DEF Decide, Pc
<1>2. PICK advance, accepted, promo, pool :
        LET m == [run[r].m EXCEPT !.advance = advance, !.accepted = accepted, !.promo = promo]
        IN  /\ iterman' = [iterman EXCEPT ![r] = Put(@, m.n, m)]
            /\ run' = [run EXCEPT ![r].pc = "finish", ![r].m = m, ![r].pool = pool]
  BY DEF Decide
<1> DEFINE m == [run[r].m EXCEPT !.advance = advance, !.accepted = accepted, !.promo = promo]
<1>3. m.n = run[r].iter /\ m.source = Source(r, run[r].iter)
  BY <1>1 DEF RunOk
<1> HIDE DEF m
<1>4. run'[r] = [run[r] EXCEPT !.pc = "finish", !.m = m, !.pool = pool]
  BY <1>2 DEF RunsInv, m
<1>5. /\ RunShape(run'[r]) /\ run'[r].pc = "finish" /\ run'[r].done = run[r].done
      /\ run'[r].iter = run[r].iter /\ run'[r].m = m
  BY <1>1, <1>4 DEF RunOk, RunShape
<1>6. run[r].iter \in 1 .. Len(iterman[r])
  BY <1>1 DEF RunOk
<1>7. /\ Numbered(r, Put(iterman[r], run[r].iter, m))
      /\ Len(Put(iterman[r], run[r].iter, m)) >= Len(iterman[r])
      /\ Len(Put(iterman[r], run[r].iter, m)) >= run[r].iter
  BY <1>1, <1>3, <1>6, PutNumbered DEF RunOk
<1>8. iterman'[r] = Put(iterman[r], run[r].iter, m) /\ Len(iterman'[r]) \in Nat
  BY <1>2, <1>3, <1>7, SeqLen DEF RunsInv, Numbered, m
<1>9. RunOk(r, run'[r], iterman'[r], runman[r])
  BY <1>1, <1>3, <1>5, <1>7, <1>8 DEF RunOk
<1>10. OnlyRun(r)
  <2>1. DOMAIN run' = DOMAIN run /\ \A q \in Runs : q # r => run'[q] = run[q]
    BY <1>2 DEF RunsInv
  <2>2. DOMAIN iterman' = DOMAIN iterman /\ \A q \in Runs : q # r => iterman'[q] = iterman[q]
    BY <1>2 DEF RunsInv
  <2>3. runman' = runman
    BY DEF Decide
  <2>q. QED
    BY <2>1, <2>2, <2>3 DEF OnlyRun
<1>11. runman' = runman /\ Len(runman[r]) <= Len(runman'[r])
  BY <1>1 DEF Decide
<1>q. QED
  BY <1>9, <1>10, <1>11 DEF RunGoesOn

LEMMA FinishRuns ==
  ASSUME RunsInv, NEW r \in Runs, Finish(r) PROVE RunGoesOn(r)
<1>1. RunOk(r, run[r], iterman[r], runman[r]) /\ run[r].pc = "finish"
      /\ Len(runman[r]) \in Nat /\ Len(iterman[r]) \in Nat
      /\ Len(run[r].done) \in Nat /\ run[r].iter \in Nat
  BY RunLens DEF Finish, Pc
<1>2. runman'[r] = Append(run[r].done, run[r].m) /\ iterman' = iterman
  BY DEF Finish, RunsInv
<1>3. Numbered(r, runman'[r]) /\ Len(runman'[r]) = run[r].iter
  BY <1>1, <1>2, AppendNumbered DEF RunOk
<1>4. RunOk(r, run'[r], iterman[r], runman'[r])
  <2>1. CASE run'[r] = Off
    BY <1>1, <1>3, <2>1 DEF RunOk, RunShape, Off
  <2>2. CASE \E current, pool :
               run'[r] = [run[r] EXCEPT !.pc = "collect", !.iter = @ + 1, !.current = current,
                                        !.pool = pool, !.done = Append(@, run[r].m), !.m = None]
    <3>1. /\ RunShape(run'[r]) /\ run'[r].pc = "collect" /\ run'[r].iter = run[r].iter + 1
          /\ run'[r].done = Append(run[r].done, run[r].m)
      BY <1>1, <2>2 DEF RunOk, RunShape
    <3>q. QED
      BY <1>1, <1>2, <1>3, <3>1 DEF RunOk
  <2>q. QED
    BY <2>1, <2>2 DEF Finish, RunsInv
<1>5. Len(runman[r]) <= Len(runman'[r])
  BY <1>1, <1>3 DEF RunOk
<1>q. QED
  BY <1>2, <1>4, <1>5 DEF RunGoesOn, OnlyRun, Finish

LEMMA SameRuns ==
  ASSUME RunsInv, UNCHANGED <<run, iterman, runman>> PROVE RunsInv' /\ RunsGrow
<1>1. RunsInv'
  BY DEF RunsInv, RunInv
<1>2. \A r \in Runs : Len(runman[r]) \in Nat
  BY RunLens
<1>q. QED
  BY <1>1, <1>2 DEF RunsGrow

LEMMA NextRuns ==
  ASSUME RunsInv, [Next]_vars PROVE RunsInv' /\ RunsGrow
<1>1. CASE \E r \in Runs : Start(r)
  BY <1>1, StartRuns, RunGoesOnKeeps
<1>2. CASE \E r \in Runs : Collect(r)
  <2>1. PICK r \in Runs : Collect(r)
    BY <1>2
  <2>2. UNCHANGED <<iterman, runman>> /\ (Enters(r, "train") \/ Dies(r)) /\ run[r].pc = "collect"
    BY <2>1 DEF Collect, Pc
  <2>q. QED
    BY <2>2, EntersRuns, DiesRuns, RunGoesOnKeeps
<1>3. CASE \E r \in Runs : Train(r)
  <2>1. PICK r \in Runs : Train(r)
    BY <1>3
  <2>2. UNCHANGED <<iterman, runman>> /\ Enters(r, "evaluate") /\ run[r].pc = "train"
    BY <2>1 DEF Train, Pc
  <2>q. QED
    BY <2>2, EntersRuns, RunGoesOnKeeps
<1>4. CASE \E r \in Runs : Evaluate(r) \/ WriteRun(r) \/ Decide(r) \/ Finish(r)
  BY <1>4, EvaluateRuns, WriteRunRuns, DecideRuns, FinishRuns, RunGoesOnKeeps
<1>5. CASE \E r \in Runs : Dies(r) /\ UNCHANGED <<iterman, runman>>
  BY <1>5, DiesRuns, RunGoesOnKeeps
<1>6. CASE UNCHANGED <<run, iterman, runman>>
  BY <1>6, SameRuns
<1>7. ASSUME NEW r \in Runs, RunStep(r)
      PROVE  \/ Collect(r) \/ Train(r) \/ Evaluate(r) \/ WriteRun(r) \/ Decide(r) \/ Finish(r)
             \/ Dies(r) /\ UNCHANGED <<iterman, runman>>
             \/ UNCHANGED <<run, iterman, runman>>
  BY <1>7 DEF RunStep, Promote, Raises, runVars
<1>8. ASSUME Crash
      PROVE  \/ \E r \in Runs : Dies(r) /\ UNCHANGED <<iterman, runman>>
             \/ UNCHANGED <<run, iterman, runman>>
  BY <1>8 DEF Crash
<1>9. ASSUME (\E o \in Operators : Command(o) \/ OperatorStep(o)) \/ Archiver \/ UNCHANGED vars
      PROVE  UNCHANGED <<run, iterman, runman>>
  BY <1>9 DEF Command, OperatorStep, Archiver, vars, runVars
<1>q. QED
  BY <1>1, <1>2, <1>3, <1>4, <1>5, <1>6, <1>7, <1>8, <1>9 DEF Next

--------------------------------------------------------------------------------
(* Promoters, where there is no archiver.  A checkpoint that may be listed *)
(* is of an iteration that the run manifest has, and so trained for good.  *)

TrainedBy(ms, f) == \E r \in Runs : \E n \in Nat : f = Source(r, n) /\ n <= Len(ms[r])
Trained(f) == TrainedBy(runman, f)
NamedAt(e, k) == e.file = e.source \/ e.file = Managed(k, e.id)

PromShape(s) ==
  /\ s = [pc |-> s.pc, inc |-> s.inc, entry |-> s.entry, seen |-> s.seen]
  /\ s.entry = [source |-> s.entry.source, id |-> s.entry.id, file |-> s.entry.file,
                sum |-> s.entry.sum]

\* Whoever is inside the lock has seen the registry as it is.
PromInv(p) ==
  LET s == rec[p]
  IN  /\ PromShape(s)
      /\ s.pc \in {"lock", "keep", "write", "replace"} => Trained(s.entry.source)
      /\ s.pc \in {"keep", "write", "replace"} =>
           p \in lock /\ s.seen = registry /\ ~Duplicate(p, registry)
      /\ s.pc \in {"write", "replace"} =>
           Holds(s.entry.file, s.entry.sum) /\ NamedAt(s.entry, Len(registry) + 1)
      /\ s.pc = "replace" => tmp = {Append(registry, s.entry)}

ListedInv ==
  /\ IsSeq(registry)
  /\ \A i \in DOMAIN registry :
       /\ Holds(registry[i].file, registry[i].sum)
       /\ Trained(registry[i].source) /\ NamedAt(registry[i], i)

LockInv == DOMAIN rec = Promoters /\ \A p, q \in lock : p = q

PromsInv == LockInv /\ ListedInv /\ \A p \in Promoters : PromInv(p)

LEMMA InitProms == Init => PromsInv
<1> SUFFICES ASSUME Init PROVE PromsInv
  OBVIOUS
<1>1. registry = <<>> /\ lock = {} /\ DOMAIN rec = Promoters /\ \A p \in Promoters : rec[p] = Idle
  BY DEF Init, PromotionInit
<1>2. LockInv /\ ListedInv
  BY <1>1, EmptyIs DEF LockInv, ListedInv
<1>3. ASSUME NEW p \in Promoters PROVE PromInv(p)
  BY <1>1 DEF PromInv, PromShape, Idle, NoEntry
<1>q. QED
  BY <1>2, <1>3 DEF PromsInv

\* What was trained stays so while manifests grow.
LEMMA TrainedStays ==
  ASSUME RunsInv, RunsInv', RunsGrow, NEW f, Trained(f)
  PROVE  TrainedBy(runman', f)
<1>1. PICK r \in Runs, n \in Nat : f = Source(r, n) /\ n <= Len(runman[r])
  BY DEF Trained, TrainedBy
<1>2. Len(runman[r]) \in Nat /\ Len(runman'[r]) \in Nat /\ Len(runman[r]) <= Len(runman'[r])
  BY SeqLen DEF RunsInv, RunInv, RunOk, Numbered, RunsGrow
<1>q. QED
  BY <1>1, <1>2 DEF TrainedBy

\* What a step of others leaves a promoter that is outside the lock, or undisturbed in it.
Undisturbed(q) ==
  /\ UNCHANGED <<registry, tmp>>
  /\ q \in lock => q \in lock'
  /\ rec[q].pc \in {"write", "replace"} =>
       rec[q].entry.file \in DOMAIN files' /\ files'[rec[q].entry.file] = rec[q].entry.sum

LEMMA BystanderKeeps ==
  ASSUME RunsInv, RunsInv', RunsGrow, NEW q \in Promoters, PromInv(q), rec'[q] = rec[q],
         q \notin lock \/ Undisturbed(q)
  PROVE  PromInv(q)'
<1>1. rec[q].pc \in {"lock", "keep", "write", "replace"} => TrainedBy(runman', rec[q].entry.source)
  BY TrainedStays DEF PromInv
<1>2. CASE q \notin lock
  BY <1>1, <1>2 DEF PromInv, Trained
<1>3. CASE Undisturbed(q)
  <2>1. registry' = registry /\ tmp' = tmp /\ (Duplicate(q, registry)' <=> Duplicate(q, registry))
    BY <1>3 DEF Undisturbed, Duplicate
  <2>2. rec[q].pc \in {"write", "replace"} =>
          Holds(rec[q].entry.file, rec[q].entry.sum)' /\ NamedAt(rec[q].entry, Len(registry) + 1)'
    BY <1>3, <2>1 DEF Undisturbed, Holds, PromInv, NamedAt
  <2>3. rec[q].pc \in {"keep", "write", "replace"} => q \in lock'
    BY <1>3 DEF PromInv, Undisturbed
  <2>q. QED
    BY <1>1, <2>1, <2>2, <2>3 DEF PromInv, Trained
<1>q. QED
  BY <1>2, <1>3

\* Listed checkpoints, while the registry does not change and their files do not.
LEMMA ListedKeeps ==
  ASSUME RunsInv, RunsInv', RunsGrow, ListedInv, registry' = registry,
         \A i \in DOMAIN registry : registry[i].file \in DOMAIN files'
                                  /\ files'[registry[i].file] = files[registry[i].file]
  PROVE  ListedInv'
<1>1. \A i \in DOMAIN registry : TrainedBy(runman', registry[i].source)
  BY TrainedStays DEF ListedInv
<1>q. QED
  BY <1>1 DEF ListedInv, Trained, Holds

\* Steps of runs that do not touch registry, lock or files.
LEMMA StillKeeps ==
  ASSUME RunsInv, RunsInv', RunsGrow, PromsInv, UNCHANGED <<registry, tmp, lock, files, rec>>
  PROVE  PromsInv'
<1>1. LockInv' /\ ListedInv'
  BY ListedKeeps DEF PromsInv, LockInv, ListedInv, Holds
<1>2. ASSUME NEW q \in Promoters PROVE PromInv(q)'
  BY BystanderKeeps DEF PromsInv, Undisturbed, PromInv, Holds
<1>q. QED
  BY <1>1, <1>2 DEF PromsInv

\* A run trains only what no manifest of it has yet; copies have names of their own.
LEMMA TrainKeeps ==
  ASSUME RunsInv, RunsInv', RunsGrow, PromsInv, NEW r \in Runs, Train(r)
  PROVE  PromsInv'
<1>1. /\ run[r].pc = "train" /\ UNCHANGED <<registry, tmp, lock, rec>>
      /\ Len(runman[r]) \in Nat /\ run[r].iter \in Nat /\ Len(runman[r]) < run[r].iter
  BY RunLens DEF Train, Pc, RunOk
<1>2. PICK c : files' = Put(files, Source(r, run[r].iter), c)
  BY DEF Train
<1>3. ASSUME NEW f, f # Source(r, run[r].iter), f \in DOMAIN files
      PROVE  f \in DOMAIN files' /\ files'[f] = files[f]
  BY <1>2, <1>3 DEF Put
<1>4. ASSUME NEW e, NEW k, Trained(e.source), NamedAt(e, k)
      PROVE  e.file # Source(r, run[r].iter)
  <2>1. PICK q \in Runs, n \in Nat : e.source = Source(q, n) /\ n <= Len(runman[q])
    BY <1>4 DEF Trained, TrainedBy
  <2>2. e.source # Source(r, run[r].iter)
    BY <1>1, <2>1 DEF Source
  <2>3. Managed(k, e.id) # Source(r, run[r].iter)
    BY DEF Managed, Source
  <2>q. QED
    BY <1>4, <2>2, <2>3 DEF NamedAt
<1>5. LockInv'
  BY <1>1 DEF PromsInv, LockInv
<1>6. ListedInv'
  <2>1. \A i \in DOMAIN registry : registry[i].file # Source(r, run[r].iter)
    BY <1>4 DEF PromsInv, ListedInv
  <2>q. QED
    BY <1>1, <1>3, <2>1, ListedKeeps DEF PromsInv, ListedInv, Holds
<1>7. ASSUME NEW q \in Promoters PROVE PromInv(q)'
  <2>1. rec[q].pc \in {"write", "replace"} => rec[q].entry.file # Source(r, run[r].iter)
    BY <1>4 DEF PromsInv, PromInv
  <2>2. Undisturbed(q)
    BY <1>1, <1>3, <2>1 DEF Undisturbed, PromsInv, PromInv, Holds
  <2>q. QED
    BY <1>1, <2>2, BystanderKeeps DEF PromsInv
<1>q. QED
  BY <1>5, <1>6, <1>7 DEF PromsInv

\* A step of promoter p: what the others see of it is under Undisturbed, or they are not
\* inside the lock.
PromoterStep(p) ==
  /\ p \in Promoters /\ DOMAIN rec' = DOMAIN rec
  /\ \A q \in Promoters : q # p => rec'[q] = rec[q] /\ (q \notin lock \/ Undisturbed(q))

LEMMA PromoterStepKeeps ==
  ASSUME RunsInv, RunsInv', RunsGrow, PromsInv, NEW p, PromoterStep(p),
         PromInv(p)', ListedInv', \A x, y \in lock' : x = y
  PROVE  PromsInv'
<1>1. LockInv'
  BY DEF PromsInv, LockInv, PromoterStep
<1>2. ASSUME NEW q \in Promoters PROVE PromInv(q)'
  BY BystanderKeeps DEF PromsInv, PromoterStep
<1>q. QED
  BY <1>1, <1>2 DEF PromsInv

LEMMA BeginKeeps ==
  ASSUME RunsInv, RunsInv', RunsGrow, PromsInv, NEW p \in Promoters, Begin(p)
  PROVE  PromsInv'
<1>1. UNCHANGED <<registry, tmp, lock, files>> /\ rec[p].pc = "idle"
  BY DEF Begin, At
<1>2. rec'[p] = [rec[p] EXCEPT !.pc = "gate", !.inc = LatestId]
  BY DEF Begin, PromsInv, LockInv
<1>3. PromShape(rec'[p]) /\ rec'[p].pc = "gate"
  BY <1>2 DEF PromsInv, PromInv, PromShape
<1>4. PromInv(p)'
  BY <1>3 DEF PromInv
<1>5. PromoterStep(p)
  BY <1>1 DEF Begin, PromoterStep, Undisturbed, PromsInv, LockInv, PromInv, Holds
<1>6. ListedInv'
  BY <1>1, ListedKeeps DEF PromsInv, ListedInv, Holds
<1>q. QED
  BY <1>1, <1>4, <1>5, <1>6, PromoterStepKeeps DEF PromsInv, LockInv

\* What the gate assigns to its promoter.
Judged(s, pc, f, x) == [s EXCEPT !.pc = pc, !.entry.source = f, !.entry.id = x]

LEMMA EntryShape ==
  ASSUME NEW s, PromShape(s), NEW pc, NEW f, NEW x
  PROVE  /\ PromShape(Judged(s, pc, f, x))
         /\ Judged(s, pc, f, x).pc = pc /\ Judged(s, pc, f, x).entry.source = f
         /\ Judged(s, pc, f, x).entry.id = x
<1> DEFINE E(g, y) == [source : {g}, id : {y}, file : {s.entry.file}, sum : {s.entry.sum}]
           P(i, F) == [pc : {i}, inc : {s.inc}, entry : F, seen : {s.seen}]
           t == Judged(s, pc, f, x)
<1>1. s.entry \in E(s.entry.source, s.entry.id)
  BY DEF PromShape
<1>2. s \in P(s.pc, {s.entry})
  BY DEF PromShape
<1>3. [s.entry EXCEPT !.source = f, !.id = x] \in E(f, x)
  BY <1>1
<1>4. t \in P(pc, E(f, x))
  BY <1>1, <1>2, <1>3 DEF Judged
<1>q. QED
  BY <1>4 DEF PromShape

LEMMA JudgeKeeps ==
  ASSUME RunsInv, RunsInv', RunsGrow, PromsInv, NEW p \in Promoters, NEW r \in Runs,
         Judge(p, r), UNCHANGED runman
  PROVE  PromsInv'
<1> DEFINE m == Last(runman[r])
<1>1. UNCHANGED <<registry, tmp, lock, files>> /\ rec[p].pc = "gate"
  BY DEF Judge, Gate, At
<1>2. PICK pc, id :
        pc \in {"lock", "failed"} /\ rec'[p] = Judged(rec[p], pc, m.source, id)
  <2> DEFINE Sent(pc) == Judged(rec[p], pc, m.source, <<Base[r], m.n>>)
  <2>1. p \in DOMAIN rec
    BY DEF PromsInv, LockInv
  <2>2. rec'[p] = Sent("lock") \/ rec'[p] = Sent("failed")
    BY <2>1 DEF Judge, Gate, Judged
  <2>q. QED
    BY <2>2
<1>3. TrainedBy(runman', m.source)
  <2>1. Numbered(r, runman[r]) /\ runman[r] # <<>>
    BY DEF RunsInv, RunInv, RunOk, Judge
  <2>2. Len(runman[r]) \in Nat /\ DOMAIN runman[r] = 1 .. Len(runman[r]) /\ Len(runman[r]) # 0
    BY <2>1, SeqLen, LenZero DEF Numbered
  <2>3. m.source = Source(r, Len(runman[r]))
    BY <2>1, <2>2 DEF Numbered, Last
  <2>q. QED
    BY <2>2, <2>3 DEF TrainedBy
<1> HIDE DEF m
<1>5. PromShape(rec'[p]) /\ rec'[p].pc = pc /\ rec'[p].entry.source = m.source
  <2>1. PromShape(rec[p])
    BY DEF PromsInv, PromInv
  <2>q. QED
    BY <1>2, <2>1, EntryShape
<1>6. PromInv(p)'
  BY <1>2, <1>3, <1>5 DEF PromInv, Trained
<1>7. PromoterStep(p)
  <2>1. DOMAIN rec' = DOMAIN rec /\ \A q \in Promoters : q # p => rec'[q] = rec[q]
    BY DEF Judge, Gate, PromsInv, LockInv
  <2>q. QED
    BY <1>1, <2>1 DEF PromoterStep, Undisturbed, PromsInv, PromInv, Holds
<1>8. ListedInv'
  BY <1>1, ListedKeeps DEF PromsInv, ListedInv, Holds
<1>q. QED
  BY <1>1, <1>6, <1>7, <1>8, PromoterStepKeeps DEF PromsInv, LockInv

LEMMA LockKeeps ==
  ASSUME RunsInv, RunsInv', RunsGrow, PromsInv, NEW p \in Promoters, Lock(p)
  PROVE  PromsInv'
<1>1. UNCHANGED <<registry, tmp, files>> /\ rec[p].pc = "lock" /\ lock = {}
  BY DEF Lock, At
<1>2. PromShape(rec[p]) /\ Trained(rec[p].entry.source)
  BY <1>1 DEF PromsInv, PromInv
<1>3. TrainedBy(runman', rec[p].entry.source)
  BY <1>2, TrainedStays
<1>4. ListedInv'
  BY <1>1, ListedKeeps DEF PromsInv, ListedInv, Holds
<1>5. PromoterStep(p) /\ \A x, y \in lock' : x = y
  BY <1>1 DEF Lock, To, PromoterStep, PromsInv, LockInv
<1>6. CASE Duplicate(p, registry)
  <2>1. rec'[p] = [rec[p] EXCEPT !.pc = "raised"]
    BY <1>6 DEF Lock, To, PromsInv, LockInv
  <2>2. PromShape(rec'[p]) /\ rec'[p].pc = "raised"
    BY <1>2, <2>1 DEF PromShape
  <2>q. QED
    BY <1>4, <1>5, <2>2, PromoterStepKeeps DEF PromInv
<1>7. CASE ~Duplicate(p, registry)
  <2>1. rec'[p] = [rec[p] EXCEPT !.pc = "keep", !.seen = registry] /\ lock' = {p}
    BY <1>7 DEF Lock, PromsInv, LockInv
  <2>2. /\ rec'[p] \in [pc : {"keep"}, inc : {rec[p].inc}, entry : {rec[p].entry}, seen : {registry}]
        /\ rec'[p].pc = "keep" /\ rec'[p].seen = registry /\ rec'[p].entry = rec[p].entry
    BY <1>2, <2>1 DEF PromShape
  <2>3. PromShape(rec'[p])
    BY <1>2, <2>2 DEF PromShape
  <2>4. PromInv(p)'
    BY <1>1, <1>3, <1>7, <2>1, <2>2, <2>3 DEF PromInv, Trained, Duplicate
  <2>q. QED
    BY <1>4, <1>5, <2>4, PromoterStepKeeps
<1>q. QED
  BY <1>6, <1>7

\* What the copy assigns to its promoter.
Kept(s, f, c) == [s EXCEPT !.pc = "write", !.entry.file = f, !.entry.sum = c]

LEMMA KeptShape ==
  ASSUME NEW s, PromShape(s), NEW f, NEW c
  PROVE  LET t == Kept(s, f, c)
         IN  /\ PromShape(t) /\ t.pc = "write" /\ t.seen = s.seen
             /\ t.entry.source = s.entry.source /\ t.entry.id = s.entry.id
             /\ t.entry.file = f /\ t.entry.sum = c
<1> DEFINE E(g, y) == [source : {s.entry.source}, id : {s.entry.id}, file : {g}, sum : {y}]
           P(i, F) == [pc : {i}, inc : {s.inc}, entry : F, seen : {s.seen}]
<1>1. s.entry \in E(s.entry.file, s.entry.sum)
  BY DEF PromShape
<1>2. s \in P(s.pc, {s.entry})
  BY DEF PromShape
<1>3. [s.entry EXCEPT !.file = f, !.sum = c] \in E(f, c)
  BY <1>1
<1>4. Kept(s, f, c) \in P("write", E(f, c))
  BY <1>1, <1>2, <1>3 DEF Kept
<1>q. QED
  BY <1>4 DEF PromShape

\* Whoever is inside the lock is there alone.
LEMMA InsideAlone ==
  ASSUME PromsInv, NEW p \in Promoters, rec[p].pc \in {"keep", "write", "replace"}
  PROVE  \A q \in Promoters : q # p => q \notin lock
  BY DEF PromsInv, LockInv, PromInv

LEMMA KeepKeeps ==
  ASSUME RunsInv, RunsInv', RunsGrow, PromsInv, NEW p \in Promoters, NEW managed,
         Keep(p, managed)
  PROVE  PromsInv'
<1> DEFINE source == rec[p].entry.source
           id == rec[p].entry.id
           name == IF managed THEN Managed(Len(registry) + 1, id) ELSE source
<1>1. /\ rec[p].pc = "keep" /\ UNCHANGED <<registry, tmp, lock>>
      /\ PromShape(rec[p]) /\ Trained(source) /\ p \in lock /\ rec[p].seen = registry
      /\ ~Duplicate(p, registry) /\ source \in DOMAIN files
  BY DEF Keep, At, PromsInv, PromInv
<1>2. /\ files' = Put(files, name, files[source])
      /\ rec' = [rec EXCEPT ![p].pc = "write", ![p].entry.file = name, ![p].entry.sum = files[source]]
  BY <1>1 DEF Keep
<1>3. Len(registry) \in Nat /\ DOMAIN registry = 1 .. Len(registry)
  BY SeqLen DEF PromsInv, ListedInv
<1>4. TrainedBy(runman', source)
  BY <1>1, TrainedStays
<1>5. name = source \/ name = Managed(Len(registry) + 1, id)
  OBVIOUS
<1>6. \A i \in DOMAIN registry : registry[i].file \in DOMAIN files
                              /\ (registry[i].file = name => name = source)
  <2>1. ASSUME NEW i \in DOMAIN registry PROVE registry[i].file # Managed(Len(registry) + 1, id)
    <3>1. Trained(registry[i].source) /\ NamedAt(registry[i], i)
      BY DEF PromsInv, ListedInv
    <3>2. PICK q \in Runs, n \in Nat : registry[i].source = Source(q, n)
      BY <3>1 DEF Trained, TrainedBy
    <3>3. Source(q, n) # Managed(Len(registry) + 1, id)
      BY DEF Source, Managed
    <3>4. i # Len(registry) + 1
      BY <1>3
    <3>5. ASSUME NEW x PROVE Managed(i, x) # Managed(Len(registry) + 1, id)
      BY <3>4 DEF Managed
    <3>q. QED
      BY <3>1, <3>2, <3>3, <3>5 DEF NamedAt
  <2>q. QED
    BY <1>5, <2>1 DEF PromsInv, ListedInv, Holds
<1> HIDE DEF name
<1>7. /\ files'[name] = files[source] /\ name \in DOMAIN files'
      /\ \A f \in DOMAIN files : f \in DOMAIN files' /\ (f # name => files'[f] = files[f])
  BY <1>2 DEF Put
<1>8. ListedInv'
  BY <1>1, <1>6, <1>7, ListedKeeps DEF PromsInv
<1>9. rec'[p] = Kept(rec[p], name, files[source])
  BY <1>2 DEF Kept, PromsInv, LockInv
<1>10. /\ PromShape(rec'[p]) /\ rec'[p].pc = "write" /\ rec'[p].seen = registry
       /\ rec'[p].entry.source = source /\ rec'[p].entry.id = id
       /\ rec'[p].entry.file = name /\ rec'[p].entry.sum = files[source]
  BY <1>1, <1>9, KeptShape
<1>11. PromInv(p)'
  <2>1. ~Duplicate(p, registry)'
    BY <1>1, <1>10 DEF Duplicate
  <2>2. Holds(rec[p].entry.file, rec[p].entry.sum)' /\ NamedAt(rec[p].entry, Len(registry) + 1)'
    BY <1>1, <1>5, <1>7, <1>10 DEF Holds, NamedAt
  <2>q. QED
    BY <1>1, <1>4, <1>10, <2>1, <2>2 DEF PromInv, Trained
<1>12. PromoterStep(p)
  <2>1. DOMAIN rec' = DOMAIN rec /\ \A q \in Promoters : q # p => rec'[q] = rec[q]
    BY <1>2 DEF PromsInv, LockInv
  <2>q. QED
    BY <1>1, <2>1, InsideAlone DEF PromoterStep
<1>q. QED
  BY <1>1, <1>8, <1>11, <1>12, PromoterStepKeeps DEF PromsInv, LockInv
LEMMA WriteTmpKeeps ==
  ASSUME RunsInv, RunsInv', RunsGrow, PromsInv, NEW p \in Promoters, WriteTmp(p)
  PROVE  PromsInv'
<1>1. /\ rec[p].pc = "write" /\ UNCHANGED <<registry, lock, files>>
      /\ PromShape(rec[p]) /\ Trained(rec[p].entry.source) /\ p \in lock
      /\ rec[p].seen = registry /\ ~Duplicate(p, registry)
      /\ Holds(rec[p].entry.file, rec[p].entry.sum) /\ NamedAt(rec[p].entry, Len(registry) + 1)
  BY DEF WriteTmp, At, PromsInv, PromInv
<1>2. tmp' = {Append(registry, rec[p].entry)} /\ rec'[p] = [rec[p] EXCEPT !.pc = "replace"]
  BY <1>1 DEF WriteTmp, To, PromsInv, LockInv
<1>3. /\ PromShape(rec'[p]) /\ rec'[p].pc = "replace" /\ rec'[p].seen = rec[p].seen
      /\ rec'[p].entry = rec[p].entry
  BY <1>1, <1>2 DEF PromShape
<1>4. TrainedBy(runman', rec[p].entry.source)
  BY <1>1, TrainedStays
<1>5. PromInv(p)'
  <2>1. ~Duplicate(p, registry)'
    BY <1>1, <1>3 DEF Duplicate
  <2>2. Holds(rec[p].entry.file, rec[p].entry.sum)' /\ NamedAt(rec[p].entry, Len(registry) + 1)'
    BY <1>1, <1>3 DEF Holds, NamedAt
  <2>q. QED
    BY <1>1, <1>2, <1>3, <1>4, <2>1, <2>2 DEF PromInv, Trained
<1>6. PromoterStep(p)
  <2>1. DOMAIN rec' = DOMAIN rec /\ \A q \in Promoters : q # p => rec'[q] = rec[q]
    BY DEF WriteTmp, To, PromsInv, LockInv
  <2>q. QED
    BY <1>1, <2>1, InsideAlone DEF PromoterStep
<1>7. ListedInv'
  BY <1>1, ListedKeeps DEF PromsInv, ListedInv, Holds
<1>q. QED
  BY <1>1, <1>5, <1>6, <1>7, PromoterStepKeeps DEF PromsInv, LockInv

\* What the registry becomes at its replacement.
LEMMA ReplaceIs ==
  ASSUME PromsInv, NEW p \in Promoters, Replace(p)
  PROVE  /\ registry' = Append(registry, rec[p].entry) /\ ~Duplicate(p, registry)
         /\ To(p, "recorded") /\ lock' = lock \ {p} /\ UNCHANGED files
         /\ rec[p].pc = "replace"
<1>1. rec[p].pc = "replace" /\ tmp = {Append(registry, rec[p].entry)} /\ ~Duplicate(p, registry)
  BY DEF Replace, At, PromsInv, PromInv
<1>2. tmp # {}
  BY <1>1
<1>3. PICK contents \in tmp : registry' = contents /\ To(p, "recorded")
  BY <1>2 DEF Replace
<1>q. QED
  BY <1>1, <1>3 DEF Replace

LEMMA ReplaceKeeps ==
  ASSUME RunsInv, RunsInv', RunsGrow, PromsInv, NEW p \in Promoters, Replace(p)
  PROVE  PromsInv'
<1> DEFINE e == rec[p].entry
<1>1. /\ registry' = Append(registry, e) /\ To(p, "recorded") /\ lock' = lock \ {p}
      /\ files' = files /\ rec[p].pc = "replace"
  BY ReplaceIs
<1>2. /\ PromShape(rec[p]) /\ Trained(e.source) /\ p \in lock
      /\ Holds(e.file, e.sum) /\ NamedAt(e, Len(registry) + 1)
  BY <1>1 DEF PromsInv, PromInv
<1>3. rec'[p] = [rec[p] EXCEPT !.pc = "recorded"]
  BY <1>1 DEF To, PromsInv, LockInv
<1>4. PromShape(rec'[p]) /\ rec'[p].pc = "recorded"
  BY <1>2, <1>3 DEF PromShape
<1>5. PromInv(p)'
  BY <1>4 DEF PromInv
<1>6. PromoterStep(p)
  <2>1. DOMAIN rec' = DOMAIN rec /\ \A q \in Promoters : q # p => rec'[q] = rec[q]
    BY <1>1 DEF To, PromsInv, LockInv
  <2>q. QED
    BY <1>1, <2>1, InsideAlone DEF PromoterStep
<1> HIDE DEF e
<1>7. ListedInv'
  <2>1. IsSeq(registry)
    BY DEF PromsInv, ListedInv
  <2>2. Len(registry) \in Nat /\ DOMAIN registry = 1 .. Len(registry)
    BY <2>1, SeqLen
  <2>3. /\ IsSeq(registry') /\ Len(registry') = Len(registry) + 1
        /\ \A i \in 1 .. Len(registry) : registry'[i] = registry[i]
        /\ registry'[Len(registry) + 1] = e
    BY <1>1, <2>1, AppendIs
  <2>4. DOMAIN registry' = 1 .. Len(registry) + 1
    BY <2>3, SeqLen
  <2>5. ASSUME NEW i \in DOMAIN registry'
        PROVE  /\ registry'[i].file \in DOMAIN files /\ files[registry'[i].file] = registry'[i].sum
               /\ TrainedBy(runman', registry'[i].source) /\ NamedAt(registry'[i], i)
    <3>1. CASE i = Len(registry) + 1
      <4>1. TrainedBy(runman', e.source)
        BY <1>2, TrainedStays
      <4>q. QED
        BY <1>2, <2>3, <3>1, <4>1 DEF Holds
    <3>2. CASE i \in 1 .. Len(registry)
      <4>1. TrainedBy(runman', registry[i].source)
        BY <2>2, <3>2, TrainedStays DEF PromsInv, ListedInv
      <4>q. QED
        BY <2>2, <2>3, <3>2, <4>1 DEF PromsInv, ListedInv, Holds
    <3>q. QED
      BY <2>2, <2>4, <3>1, <3>2
  <2>q. QED
    BY <1>1, <2>3, <2>5 DEF ListedInv, Holds, Trained
<1>q. QED
  BY <1>1, <1>5, <1>6, <1>7, PromoterStepKeeps DEF PromsInv, LockInv

LEMMA LeaveKeeps ==
  ASSUME RunsInv, RunsInv', RunsGrow, PromsInv, NEW p \in Promoters, Leave(p)
  PROVE  PromsInv'
<1>1. UNCHANGED <<registry, tmp, files>> /\ lock' = lock \ {p} /\ rec' = [rec EXCEPT ![p] = Idle]
  BY DEF Leave, Released
<1>2. rec'[p] = Idle
  BY <1>1 DEF PromsInv, LockInv
<1>3. PromInv(p)'
  BY <1>2 DEF PromInv, PromShape, Idle, NoEntry
<1>4. PromoterStep(p)
  <2>1. DOMAIN rec' = DOMAIN rec /\ \A q \in Promoters : q # p => rec'[q] = rec[q]
    BY <1>1 DEF PromsInv, LockInv
  <2>q. QED
    BY <1>1, <2>1 DEF PromoterStep, Undisturbed, PromsInv, PromInv, Holds
<1>5. ListedInv'
  BY <1>1, ListedKeeps DEF PromsInv, ListedInv, Holds
<1>q. QED
  BY <1>1, <1>3, <1>4, <1>5, PromoterStepKeeps DEF PromsInv, LockInv

\* The steps, as the registry sees them.
LEMMA Steps ==
  ASSUME [Next]_vars
  PROVE  \/ UNCHANGED promotionVars
         \/ \E r \in Runs : Train(r)
         \/ \E p \in Promoters :
              Begin(p) \/ Lock(p) \/ Keep(p, site.managed) \/ WriteTmp(p) \/ Replace(p)
         \/ \E p \in Promoters : Leave(p) /\ (rec[p].pc \in Outcomes \/ budget.crashes > 0)
         \/ \E p \in Promoters, r \in Runs :
              Judge(p, r) /\ (p \in Runs => p = r) /\ UNCHANGED runman
         \/ site.archiver /\ Archive
         \/ budget.crashes > 0 /\ ArchiverDies
<1>1. CASE UNCHANGED vars
  BY <1>1 DEF vars
<1>2. ASSUME NEW r \in Runs, Start(r) \/ Collect(r) \/ Evaluate(r) \/ WriteRun(r) \/ Finish(r)
      PROVE  UNCHANGED promotionVars
  BY <1>2 DEF Start, Collect, Evaluate, WriteRun, Finish
<1>3. ASSUME NEW r \in Runs, Train(r) \/ Promote(r)
      PROVE  \/ Train(r)
             \/ r \in Promoters /\ (Begin(r) \/ Lock(r) \/ Keep(r, site.managed) \/ WriteTmp(r)
                                      \/ Replace(r))
             \/ r \in Promoters /\ Judge(r, r) /\ UNCHANGED runman
  BY <1>3 DEF Promote, runVars, Promoters
<1>4. ASSUME NEW r \in Runs, Decide(r) \/ Raises(r)
      PROVE  r \in Promoters /\ Leave(r) /\ rec[r].pc \in Outcomes
  BY <1>4 DEF Decide, Raises, Promoters, At, Outcomes
<1>5. ASSUME NEW o \in Operators, Command(o) \/ OperatorStep(o)
      PROVE  /\ o \in Promoters /\ o \notin Runs
             /\ \/ Begin(o) \/ Lock(o) \/ Keep(o, site.managed) \/ WriteTmp(o) \/ Replace(o)
                \/ Leave(o) /\ rec[o].pc \in Outcomes
                \/ \E r \in Runs : Judge(o, r) /\ UNCHANGED runman
  BY <1>5, PromotionAssumption DEF Command, OperatorStep, runVars, Promoters
<1>6. ASSUME Crash
      PROVE  /\ budget.crashes > 0
             /\ (\E p \in Promoters : Leave(p)) \/ ArchiverDies
  BY <1>6 DEF Crash, OneCrash, Promoters
<1>7. ASSUME Archiver PROVE site.archiver /\ Archive
  BY <1>7 DEF Archiver
<1>q. QED
  BY <1>1, <1>2, <1>3, <1>4, <1>5, <1>6, <1>7 DEF Next, RunStep

LEMMA StepsWithoutArchiver ==
  ASSUME ~site.archiver, [Next]_vars
  PROVE  \/ UNCHANGED <<registry, tmp, lock, files, rec>>
         \/ \E r \in Runs : Train(r)
         \/ \E p \in Promoters :
              Begin(p) \/ Lock(p) \/ Keep(p, site.managed) \/ WriteTmp(p) \/ Replace(p) \/ Leave(p)
         \/ \E p \in Promoters, r \in Runs :
              Judge(p, r) /\ (p \in Runs => p = r) /\ UNCHANGED runman
  BY Steps, Zenon DEF promotionVars, ArchiverDies

LEMMA NextProms ==
  ASSUME ~site.archiver, RunsInv, PromsInv, [Next]_vars PROVE PromsInv'
<1>1. RunsInv' /\ RunsGrow
  BY NextRuns
<1>2. CASE UNCHANGED <<registry, tmp, lock, files, rec>>
  BY <1>1, <1>2, StillKeeps
<1>3. ASSUME NEW r \in Runs, Train(r) PROVE PromsInv'
  BY <1>1, <1>3, TrainKeeps
<1>4. ASSUME NEW p \in Promoters,
             Begin(p) \/ Lock(p) \/ Keep(p, site.managed) \/ WriteTmp(p) \/ Replace(p) \/ Leave(p)
      PROVE  PromsInv'
  BY <1>1, <1>4, BeginKeeps, LockKeeps, KeepKeeps, WriteTmpKeeps, ReplaceKeeps, LeaveKeeps
<1>5. ASSUME NEW p \in Promoters, NEW r \in Runs, Judge(p, r), UNCHANGED runman PROVE PromsInv'
  BY <1>1, <1>5, JudgeKeeps
<1>q. QED
  BY <1>2, <1>3, <1>4, <1>5, StepsWithoutArchiver

--------------------------------------------------------------------------------
(* The theorems. *)

IInv == RunsInv /\ (~site.archiver => PromsInv)

LEMMA SiteStays == ASSUME [Next]_vars PROVE site' = site
<1>1. ASSUME NEW r \in Runs, RunStep(r) PROVE site' = site
  BY <1>1 DEF RunStep, Collect, Train, Evaluate, WriteRun, Promote, Decide, Raises, Finish
<1>q. QED
  BY <1>1 DEF Next, Start, Command, OperatorStep, Archiver, Crash, vars

\* The inductive invariant holds, whatever runs together.
THEOREM Invariance == Spec => []IInv
<1>1. Init => IInv
  BY InitRuns, InitProms DEF IInv
<1>2. IInv /\ [Next]_vars => IInv'
  BY NextRuns, NextProms, SiteStays DEF IInv
<1>q. QED
  BY <1>1, <1>2, PTL DEF Spec

\* A resumed run never trains over a promoted checkpoint, and a retried copy never overwrites
\* one: without an archiver what the registry lists is what was promoted.
THEOREM ListedIsFinalHolds == Spec => []ListedIsFinal
<1>1. IInv => ListedIsFinal
  BY DEF IInv, PromsInv, ListedInv, ListedIsFinal
<1>q. QED
  BY Invariance, <1>1, PTL

Promoted == IF site.archiver THEN <<>> ELSE [i \in DOMAIN registry |-> registry[i].source]

LEMMA ReplacePromotes ==
  ASSUME PromsInv, ~site.archiver, site' = site, NEW p \in Promoters, Replace(p)
  PROVE  Ledger!Next
<1> DEFINE e == rec[p].entry
<1>1. registry' = Append(registry, e) /\ IsSeq(registry) /\ ~Duplicate(p, registry)
  BY ReplaceIs DEF PromsInv, ListedInv
<1> DEFINE n == Len(registry)
           c == e.source
<1>2. n \in Nat /\ DOMAIN registry = 1 .. n
  BY <1>1, SeqLen
<1>3. /\ IsSeq(registry') /\ Len(registry') = n + 1
      /\ \A i \in 1 .. n : registry'[i] = registry[i]
      /\ registry'[n + 1] = e
  BY <1>1, AppendIs
<1>4. DOMAIN registry' = 1 .. n + 1
  BY <1>3, SeqLen
<1>5. /\ Promoted = [i \in 1 .. n |-> registry[i].source]
      /\ Promoted' = [i \in 1 .. n + 1 |-> registry'[i].source]
  BY <1>2, <1>4 DEF Promoted
<1>6. \A i \in 1 .. n : Promoted[i] # c
  BY <1>1, <1>2, <1>5 DEF Duplicate
<1>7. n + 1 \in DOMAIN Promoted' /\ Promoted'[n + 1] = c
  BY <1>2, <1>3, <1>5
<1> HIDE DEF n, c
<1>8. Promoted' = Append(Promoted, c)
  <2> DEFINE S == {Promoted[i] : i \in 1 .. n} \cup {c}
  <2>1. Promoted \in [1 .. n -> S]
    BY <1>5
  <2>2. \A i \in 1 .. n + 1 : Promoted'[i] \in S /\ Promoted'[i] = IF i = n + 1 THEN c ELSE Promoted[i]
    BY <1>2, <1>3, <1>5, <1>7
  <2>3. Promoted' \in [1 .. n + 1 -> S]
    BY <1>5, <2>2
  <2>4. c \in S
    OBVIOUS
  <2> HIDE DEF S
  <2>5. Promoted \in Seq(S) /\ Promoted' \in Seq(S)
    BY <1>2, <2>1, <2>3, SeqDef
  <2>6. Len(Promoted) = n /\ Len(Promoted') = n + 1
    BY <1>2, <2>1, <2>3, <2>5, LenProperties
  <2>7. /\ Append(Promoted, c) \in Seq(S) /\ Len(Append(Promoted, c)) = n + 1
        /\ \A i \in 1 .. n : Append(Promoted, c)[i] = Promoted[i]
        /\ Append(Promoted, c)[n + 1] = c
    BY <2>4, <2>5, <2>6, AppendProperties
  <2>q. QED
    BY <1>2, <2>2, <2>5, <2>6, <2>7, SeqEqual
<1>9. \E k \in DOMAIN Promoted' :
        (\A i \in DOMAIN Promoted : Promoted[i] # Promoted'[k])
          /\ Promoted' = Append(Promoted, Promoted'[k])
  BY <1>5, <1>6, <1>7, <1>8
<1>q. QED
  BY <1>9 DEF Ledger!Next, Ledger!Promote, Promoted

LEMMA NextPromotes == IInv /\ [Next]_vars => [Ledger!Next]_Promoted
<1> SUFFICES ASSUME IInv, [Next]_vars PROVE Ledger!Next \/ Promoted' = Promoted
  OBVIOUS
<1>1. site' = site
  BY SiteStays
<1>2. CASE site.archiver
  BY <1>1, <1>2 DEF Promoted
<1>3. CASE ~site.archiver /\ registry' = registry
  BY <1>1, <1>3 DEF Promoted
<1>4. CASE ~site.archiver /\ \E p \in Promoters : Replace(p)
  BY <1>1, <1>4, ReplacePromotes DEF IInv
<1>5. CASE ~site.archiver
  BY <1>3, <1>4, <1>5, StepsWithoutArchiver DEF Train, Begin, Lock, Keep, WriteTmp, Leave, Judge, Gate
<1>q. QED
  BY <1>2, <1>5

\* Promotions are only appended, one at a time and no checkpoint twice, for any number of
\* runs and operators that record at once and die anywhere.
THEOREM LedgerKept == Spec => KeepsLedger
<1>1. Init => Ledger!Init
  <2> SUFFICES ASSUME Init PROVE Promoted = <<>>
    BY DEF Ledger!Init, Promoted
  <2>1. registry = <<>>
    BY DEF Init, PromotionInit
  <2>q. QED
    BY <2>1, EmptyIs DEF Promoted
<1>2. IInv /\ [Next]_vars => [Ledger!Next]_(IF site.archiver THEN <<>> ELSE [i \in DOMAIN registry |-> registry[i].source])
  BY NextPromotes DEF Promoted
<1>q. QED
  BY Invariance, <1>1, <1>2, PTL DEF Spec, Ledger!Spec, KeepsLedger

--------------------------------------------------------------------------------
(* Manifests and the registry, where there is no archiver.  Constant       *)
(* operators: s is a run's process, c its promoter, im its iteration       *)
(* manifests and reg a registry.                                           *)

MShape(m) ==
  m = [n |-> m.n, seed |-> m.seed, games |-> m.games, eseed |-> m.eseed, evals |-> m.evals,
       source |-> m.source, current |-> m.current, bench |-> m.bench, wins |-> m.wins,
       advance |-> m.advance, accepted |-> m.accepted, promo |-> m.promo]

MatchesIn(reg, m) ==
  m.promo > 0 =>
    m.promo \in DOMAIN reg /\ reg[m.promo].source = m.source /\ reg[m.promo].file = m.accepted

Submitted == {"lock", "keep", "write", "replace", "recorded"}

\* A run promotes the checkpoint of its iteration, and takes note of it afterwards.
PromotesOwn(s, c, im, reg) ==
  /\ c.pc # "idle" => s.pc = "promote"
  /\ c.pc \in Submitted => c.entry.source = s.m.source
  /\ s.pc \in {"publish", "promote"} => MShape(s.m) /\ s.m.promo = 0
  /\ \A i \in DOMAIN im : MatchesIn(reg, im[i])

\* What was recorded stays where its promoter put it.
StaysListed(c, reg) ==
  c.pc = "recorded" =>
    IsSeq(c.seen) /\ Len(c.seen) + 1 \in DOMAIN reg /\ reg[Len(c.seen) + 1] = c.entry

ManifestsInv ==
  /\ \A p \in Promoters : StaysListed(rec[p], registry)
  /\ \A r \in Runs : PromotesOwn(run[r], rec[r], iterman[r], registry)

Extends(reg, longer) == \A i \in DOMAIN reg : i \in DOMAIN longer /\ longer[i] = reg[i]

LEMMA RegistryExtends ==
  ASSUME ~site.archiver, PromsInv, [Next]_vars PROVE Extends(registry, registry')
<1>1. CASE registry' = registry
  BY <1>1 DEF Extends
<1>2. ASSUME NEW p \in Promoters, Replace(p) PROVE Extends(registry, registry')
  <2>1. registry' = Append(registry, rec[p].entry) /\ IsSeq(registry)
    BY <1>2, ReplaceIs DEF PromsInv, ListedInv
  <2>2. Len(registry) \in Nat /\ DOMAIN registry = 1 .. Len(registry)
    BY <2>1, SeqLen
  <2>3. /\ IsSeq(registry') /\ Len(registry') = Len(registry) + 1
        /\ \A i \in 1 .. Len(registry) : registry'[i] = registry[i]
    BY <2>1, AppendIs
  <2>4. DOMAIN registry' = 1 .. Len(registry) + 1
    BY <2>3, SeqLen
  <2>q. QED
    BY <2>2, <2>3, <2>4 DEF Extends
<1>q. QED
  BY <1>1, <1>2, StepsWithoutArchiver DEF Train, Begin, Lock, Keep, WriteTmp, Leave, Judge, Gate

LEMMA ExtensionKeeps ==
  ASSUME NEW s, NEW c, NEW im, NEW reg, NEW longer, Extends(reg, longer),
         PromotesOwn(s, c, im, reg)
  PROVE  PromotesOwn(s, c, im, longer)
BY DEF PromotesOwn, Extends, MatchesIn

LEMMA StaysListedKeeps ==
  ASSUME ~site.archiver, PromsInv, ManifestsInv, [Next]_vars, NEW p \in Promoters
  PROVE  StaysListed(rec'[p], registry')
<1>1. CASE rec'[p] = rec[p]
  BY <1>1, RegistryExtends DEF ManifestsInv, StaysListed, Extends
<1>2. CASE Replace(p)
  <2>1. /\ registry' = Append(registry, rec[p].entry) /\ To(p, "recorded")
        /\ rec[p].pc = "replace" /\ IsSeq(registry)
    BY <1>2, ReplaceIs DEF PromsInv, ListedInv
  <2>2. PromShape(rec[p]) /\ rec[p].seen = registry
    BY <2>1 DEF PromsInv, PromInv
  <2>3. rec'[p] = [rec[p] EXCEPT !.pc = "recorded"]
    BY <2>1 DEF To, PromsInv, LockInv
  <2>4. rec'[p].seen = registry /\ rec'[p].entry = rec[p].entry
    BY <2>2, <2>3 DEF PromShape
  <2>5. /\ Len(registry) \in Nat /\ IsSeq(registry') /\ Len(registry') = Len(registry) + 1
        /\ registry'[Len(registry) + 1] = rec[p].entry
    BY <2>1, SeqLen, AppendIs
  <2>6. DOMAIN registry' = 1 .. Len(registry) + 1
    BY <2>5, SeqLen
  <2>q. QED
    BY <2>1, <2>4, <2>5, <2>6 DEF StaysListed
<1>3. CASE Begin(p) \/ Lock(p) \/ Keep(p, site.managed) \/ WriteTmp(p) \/ Leave(p)
  <2>1. rec'[p].pc # "recorded"
    <3>1. PromShape(rec[p]) /\ p \in DOMAIN rec
      BY DEF PromsInv, PromInv, LockInv
    <3>2. CASE Keep(p, site.managed)
      <4>1. PICK f, c : rec'[p] = Kept(rec[p], f, c)
        BY <3>1, <3>2 DEF Keep, Kept
      <4>q. QED
        BY <3>1, <4>1, KeptShape
    <3>3. CASE Begin(p) \/ Lock(p) \/ WriteTmp(p) \/ Leave(p)
      BY <3>1, <3>3 DEF PromShape, Begin, Lock, WriteTmp, Leave, To, Idle
    <3>q. QED
      BY <1>3, <3>2, <3>3
  <2>q. QED
    BY <2>1 DEF StaysListed
<1>4. ASSUME NEW r \in Runs, Judge(p, r) PROVE StaysListed(rec'[p], registry')
  <2>1. PromShape(rec[p]) /\ p \in DOMAIN rec
    BY DEF PromsInv, PromInv, LockInv
  <2>2. PICK pc, f, x :
          pc \in {"lock", "failed"} /\ rec'[p] = Judged(rec[p], pc, f, x)
    <3> DEFINE Sent(pc) == Judged(rec[p], pc, Last(runman[r]).source, <<Base[r], Last(runman[r]).n>>)
    <3>1. rec'[p] = Sent("lock") \/ rec'[p] = Sent("failed")
      BY <1>4, <2>1 DEF Judge, Gate, Judged
    <3>q. QED
      BY <3>1
  <2>q. QED
    BY <2>1, <2>2, EntryShape DEF StaysListed
<1>5. ASSUME NEW q \in Promoters, q # p,
             \/ Begin(q) \/ Lock(q) \/ Keep(q, site.managed) \/ WriteTmp(q) \/ Replace(q) \/ Leave(q)
             \/ \E r \in Runs : Judge(q, r)
      PROVE  rec'[p] = rec[p]
  BY <1>5 DEF Begin, Lock, Keep, WriteTmp, Replace, Leave, Judge, Gate, To, PromsInv, LockInv
<1>q. QED
  BY <1>1, <1>2, <1>3, <1>4, <1>5, StepsWithoutArchiver DEF Train

\* The promoter of a run, in the run's step of promoting.
LEMMA SubmitsOwn ==
  ASSUME RunsInv, PromsInv, ManifestsInv, NEW r \in Runs, Promote(r)
  PROVE  PromotesOwn(run[r], rec'[r], iterman[r], registry)
<1>1. /\ run[r].pc = "promote" /\ PromotesOwn(run[r], rec[r], iterman[r], registry)
      /\ PromShape(rec[r]) /\ r \in DOMAIN rec
      /\ RunOk(r, run[r], iterman[r], runman[r])
  BY DEF Promote, Pc, ManifestsInv, PromsInv, PromInv, LockInv, Promoters, RunsInv, RunInv
<1>2. SUFFICES rec'[r].pc \in Submitted => rec'[r].entry.source = run[r].m.source
  BY <1>1 DEF PromotesOwn
<1>3. CASE Begin(r)
  <2>1. rec'[r].pc = "gate"
    BY <1>1, <1>3 DEF Begin, PromShape
  <2>q. QED
    BY <2>1 DEF Submitted
<1>4. CASE Judge(r, r)
  <2>1. PICK pc, x : rec'[r] = Judged(rec[r], pc, Last(runman[r]).source, x)
    BY <1>1, <1>4 DEF Judge, Gate, Judged
  <2>2. rec'[r].entry.source = Last(runman[r]).source
    BY <1>1, <2>1, EntryShape
  <2>3. /\ Numbered(r, runman[r]) /\ Len(runman[r]) = run[r].iter /\ runman[r] # <<>>
        /\ run[r].m.source = Source(r, run[r].iter)
    BY <1>1, <1>4 DEF RunOk, Judge
  <2>4. Len(runman[r]) \in Nat /\ DOMAIN runman[r] = 1 .. Len(runman[r]) /\ Len(runman[r]) # 0
    BY <2>3, SeqLen, LenZero DEF Numbered
  <2>5. Last(runman[r]).source = Source(r, Len(runman[r]))
    BY <2>3, <2>4 DEF Numbered, Last
  <2>q. QED
    BY <2>2, <2>3, <2>5
<1>5. CASE Lock(r) \/ WriteTmp(r) \/ Replace(r)
  <2>1. rec[r].pc \in Submitted /\ rec'[r].entry = rec[r].entry
    BY <1>1, <1>5 DEF Lock, WriteTmp, Replace, To, At, PromShape, Submitted
  <2>q. QED
    BY <1>1, <2>1 DEF PromotesOwn
<1>6. CASE Keep(r, site.managed)
  <2>1. rec[r].pc \in Submitted
    BY <1>6 DEF Keep, At, Submitted
  <2>2. PICK f, c : rec'[r] = Kept(rec[r], f, c)
    BY <1>1, <1>6 DEF Keep, Kept
  <2>q. QED
    BY <1>1, <2>1, <2>2, KeptShape DEF PromotesOwn
<1>q. QED
  BY <1>3, <1>4, <1>5, <1>6 DEF Promote

\* A manifest that keeps to the registry, in place of one or after the others.
LEMMA PutMatches ==
  ASSUME NEW reg, NEW im, NEW k, NEW m, \A i \in DOMAIN im : MatchesIn(reg, im[i]),
         MatchesIn(reg, m)
  PROVE  \A i \in DOMAIN Put(im, k, m) : MatchesIn(reg, Put(im, k, m)[i])
BY DEF Put

LEMMA EvaluateMatches ==
  ASSUME RunsInv, PromsInv, ManifestsInv, NEW r \in Runs, Evaluate(r)
  PROVE  PromotesOwn(run'[r], rec'[r], iterman'[r], registry)
<1>1. /\ run[r].pc = "evaluate" /\ PromotesOwn(run[r], rec[r], iterman[r], registry)
      /\ RunShape(run[r]) /\ r \in DOMAIN run /\ r \in DOMAIN iterman /\ rec' = rec
  BY DEF Evaluate, Pc, promotionVars, ManifestsInv, RunsInv, RunInv, RunOk
<1>2. rec'[r].pc = "idle"
  BY <1>1 DEF PromotesOwn
<1>3. CASE Dies(r) /\ UNCHANGED iterman
  BY <1>1, <1>2, <1>3 DEF Dies, Off, PromotesOwn, Submitted
<1>4. ASSUME NEW m, NEW eval, NEW k, MShape(m), m.promo = 0,
             run' = [run EXCEPT ![r].pc = "publish", ![r].m = m, ![r].eval = eval],
             iterman' = [iterman EXCEPT ![r] = Put(@, k, m)]
      PROVE  PromotesOwn(run'[r], rec'[r], iterman'[r], registry)
  <2>1. run'[r].m = m
    BY <1>1, <1>4 DEF RunShape
  <2>2. iterman'[r] = Put(iterman[r], k, m)
    BY <1>1, <1>4
  <2>3. \A i \in DOMAIN iterman'[r] : MatchesIn(registry, iterman'[r][i])
    <3>1. MatchesIn(registry, m)
      BY <1>4 DEF MatchesIn
    <3>2. \A i \in DOMAIN iterman[r] : MatchesIn(registry, iterman[r][i])
      BY <1>1 DEF PromotesOwn
    <3>q. QED
      BY <2>2, <3>1, <3>2, PutMatches
  <2>q. QED
    BY <1>2, <1>4, <2>1, <2>3 DEF PromotesOwn, Submitted
<1>5. (Dies(r) /\ UNCHANGED iterman) \/
      \E m, eval, k :
        /\ MShape(m) /\ m.promo = 0
        /\ run' = [run EXCEPT ![r].pc = "publish", ![r].m = m, ![r].eval = eval]
        /\ iterman' = [iterman EXCEPT ![r] = Put(@, k, m)]
  <2>1. ASSUME NEW measured, NEW wins
        PROVE  /\ MShape(IterationManifest(r, measured, wins))
               /\ IterationManifest(r, measured, wins).promo = 0
    BY DEF IterationManifest, MShape
  <2>2. CASE Dies(r) /\ UNCHANGED iterman
    BY <2>2
  <2>3. CASE ~(Dies(r) /\ UNCHANGED iterman)
    <3>0. PICK measured, wins, eval :
            /\ run' = [run EXCEPT ![r].pc = "publish",
                                 ![r].m = IterationManifest(r, measured, wins),
                                 ![r].eval = eval]
            /\ iterman' = [iterman EXCEPT
                            ![r] = Put(@, run[r].iter, IterationManifest(r, measured, wins))]
      BY <2>3, EvaluateEffect
    <3> DEFINE mm == IterationManifest(r, measured, wins)
    <3>1. MShape(mm) /\ mm.promo = 0
      BY <2>1
    <3> HIDE DEF mm
    <3>q. QED
      BY <3>0, <3>1 DEF mm
  <2>q. QED
    BY <2>2, <2>3
<1>q. QED
  BY <1>3, <1>4, <1>5

LEMMA DecideMatches ==
  ASSUME RunsInv, PromsInv, ManifestsInv, NEW r \in Runs, Decide(r)
  PROVE  PromotesOwn(run'[r], rec'[r], iterman'[r], registry)
<1> DEFINE s == rec[r]
           m == run[r].m
           recorded == s.pc = "recorded"
           accepted == IF recorded THEN s.entry.file ELSE None
           promo == IF recorded THEN Len(Append(s.seen, s.entry)) ELSE 0
           mm == [m EXCEPT !.advance = recorded, !.accepted = accepted, !.promo = promo]
<1>1. /\ run[r].pc = "promote" /\ PromotesOwn(run[r], rec[r], iterman[r], registry)
      /\ RunShape(run[r]) /\ r \in DOMAIN run /\ r \in DOMAIN iterman /\ r \in DOMAIN rec
      /\ StaysListed(rec[r], registry)
  BY DEF Decide, Pc, ManifestsInv, RunsInv, RunInv, RunOk, PromsInv, LockInv, Promoters
<1>2. MShape(m)
  BY <1>1 DEF PromotesOwn
<1>3. mm.source = m.source /\ mm.accepted = accepted /\ mm.promo = promo
  BY <1>2 DEF MShape
<1>4. MatchesIn(registry, mm)
  <2>1. CASE recorded
    <3>1. /\ IsSeq(s.seen) /\ Len(s.seen) + 1 \in DOMAIN registry
          /\ registry[Len(s.seen) + 1] = s.entry /\ s.entry.source = m.source
      BY <1>1, <2>1 DEF StaysListed, PromotesOwn, Submitted
    <3>2. promo = Len(s.seen) + 1
      BY <2>1, <3>1, AppendIs
    <3>q. QED
      BY <1>3, <2>1, <3>1, <3>2 DEF MatchesIn
  <2>2. CASE ~recorded
    BY <1>3, <2>2 DEF MatchesIn
  <2>q. QED
    BY <2>1, <2>2
<1>5. /\ iterman'[r] = Put(iterman[r], mm.n, mm) /\ rec'[r] = Idle
      /\ run'[r].pc = "finish"
  BY <1>1 DEF Decide, Accepted, Leave, RunShape
<1> HIDE DEF mm
<1>6. \A i \in DOMAIN iterman'[r] : MatchesIn(registry, iterman'[r][i])
  BY <1>1, <1>4, <1>5, PutMatches DEF PromotesOwn
<1>q. QED
  BY <1>5, <1>6 DEF PromotesOwn, Idle, Submitted

\* The other steps of a run leave its iteration manifests alone.
LEMMA RestMatches ==
  ASSUME RunsInv, PromsInv, ManifestsInv, NEW r \in Runs,
         \/ Start(r) \/ Collect(r) \/ Train(r) \/ WriteRun(r) \/ Finish(r)
         \/ Dies(r) /\ Leave(r) /\ UNCHANGED iterman
  PROVE  PromotesOwn(run'[r], rec'[r], iterman'[r], registry)
<1>1. /\ PromotesOwn(run[r], rec[r], iterman[r], registry)
      /\ RunShape(run[r]) /\ r \in DOMAIN run /\ r \in DOMAIN rec
  BY DEF ManifestsInv, RunsInv, RunInv, RunOk, PromsInv, LockInv, Promoters
<1>2. iterman' = iterman
  BY DEF Start, Collect, Train, WriteRun, Finish
<1>3. CASE Dies(r) /\ Leave(r)
  BY <1>1, <1>2, <1>3 DEF Dies, Leave, Off, Idle, PromotesOwn, Submitted
<1>4. CASE WriteRun(r)
  <2>1. /\ run[r].pc = "publish" /\ rec' = rec
        /\ run'[r].m = run[r].m
    BY <1>1, <1>4 DEF WriteRun, Pc, Enters, promotionVars, RunShape
  <2>q. QED
    BY <1>1, <1>2, <2>1 DEF PromotesOwn, Submitted
<1>5. CASE Start(r) \/ Collect(r) \/ Train(r) \/ Finish(r)
  <2>1. rec' = rec /\ rec[r].pc = "idle"
    BY <1>1, <1>5 DEF Start, Collect, Train, Finish, Pc, promotionVars, PromotesOwn
  <2>2. run'[r].pc \notin {"publish", "promote"}
    <3>1. CASE Start(r)
      BY <1>1, <3>1 DEF Start
    <3>2. CASE Collect(r)
      BY <1>1, <3>2 DEF Collect, Enters, Dies, Off, RunShape
    <3>3. CASE Train(r)
      BY <1>1, <3>3 DEF Train, Enters, RunShape
    <3>4. CASE Finish(r)
      BY <1>1, <3>4 DEF Finish, Off, RunShape
    <3>q. QED
      BY <1>5, <3>1, <3>2, <3>3, <3>4
  <2>q. QED
    BY <1>1, <1>2, <2>1, <2>2 DEF PromotesOwn, Submitted
<1>q. QED
  BY <1>3, <1>4, <1>5

\* What a step of one process leaves of the others.
OthersStay(r) ==
  \A q \in Runs : q # r => run'[q] = run[q] /\ rec'[q] = rec[q] /\ iterman'[q] = iterman[q]

LEMMA RunStepsAlone ==
  ASSUME RunsInv, PromsInv, NEW r \in Runs,
         \/ Start(r) \/ RunStep(r)
         \/ Dies(r) /\ Leave(r) /\ UNCHANGED iterman
  PROVE  OthersStay(r)
<1>1. DOMAIN run = Runs /\ DOMAIN iterman = Runs /\ DOMAIN rec = Promoters /\ Runs \subseteq Promoters
  BY DEF RunsInv, PromsInv, LockInv, Promoters
<1>2. CASE Start(r) \/ Collect(r) \/ Train(r) \/ WriteRun(r) \/ Finish(r)
  BY <1>1, <1>2 DEF Start, Collect, Train, WriteRun, Finish, Enters, Dies, promotionVars, OthersStay
<1>3. CASE Evaluate(r)
  BY <1>1, <1>3 DEF Evaluate, Dies, promotionVars, OthersStay
<1>4. CASE Promote(r)
  BY <1>1, <1>4 DEF Promote, Begin, Judge, Gate, Lock, Keep, WriteTmp, Replace, To, runVars, OthersStay
<1>5. CASE Decide(r)
  BY <1>1, <1>5 DEF Decide, Leave, OthersStay
<1>6. CASE Dies(r) /\ Leave(r) /\ UNCHANGED iterman
  BY <1>1, <1>6 DEF Dies, Leave, OthersStay
<1>7. CASE Raises(r)
  BY <1>6, <1>7 DEF Raises
<1>q. QED
  BY <1>2, <1>3, <1>4, <1>5, <1>6, <1>7 DEF RunStep

\* An operator is no run.
LEMMA OperatorsAlone ==
  ASSUME RunsInv, PromsInv, NEW o \in Operators,
         Command(o) \/ OperatorStep(o) \/ (Leave(o) /\ UNCHANGED <<run, iterman>>)
  PROVE  \A q \in Runs : run'[q] = run[q] /\ rec'[q] = rec[q] /\ iterman'[q] = iterman[q]
<1>1. DOMAIN rec = Promoters /\ Runs \subseteq Promoters /\ o \notin Runs
  BY PromotionAssumption DEF PromsInv, LockInv, Promoters
<1>2. run' = run /\ iterman' = iterman
  BY DEF Command, OperatorStep, runVars
<1>3. \A q \in Runs : rec'[q] = rec[q]
  BY <1>1 DEF Command, OperatorStep, Begin, Judge, Gate, Lock, Keep, WriteTmp, Replace, Leave, To
<1>q. QED
  BY <1>2, <1>3

LEMMA NextManifests ==
  ASSUME ~site.archiver, RunsInv, PromsInv, ManifestsInv, [Next]_vars PROVE ManifestsInv'
<1>1. \A p \in Promoters : StaysListed(rec'[p], registry')
  BY StaysListedKeeps
<1>2. ASSUME NEW r \in Runs PROVE PromotesOwn(run'[r], rec'[r], iterman'[r], registry)
  <2>1. CASE run'[r] = run[r] /\ rec'[r] = rec[r] /\ iterman'[r] = iterman[r]
    BY <2>1 DEF ManifestsInv
  <2>2. ASSUME NEW q \in Runs, Start(q) \/ RunStep(q) \/ (Dies(q) /\ Leave(q) /\ UNCHANGED iterman)
        PROVE  PromotesOwn(run'[r], rec'[r], iterman'[r], registry)
    <3>1. CASE q # r
      BY <2>1, <2>2, <3>1, RunStepsAlone DEF OthersStay
    <3>2. CASE q = r
      <4>1. CASE Promote(r)
        BY <4>1, SubmitsOwn DEF Promote, runVars
      <4>2. CASE Evaluate(r) \/ Decide(r)
        BY <4>2, EvaluateMatches, DecideMatches
      <4>3. CASE Raises(r)
        BY <4>3, RestMatches DEF Raises
      <4>q. QED
        BY <2>2, <3>2, <4>1, <4>2, <4>3, RestMatches DEF RunStep
    <3>q. QED
      BY <3>1, <3>2
  <2>3. CASE \E o \in Operators : Command(o) \/ OperatorStep(o)
    BY <2>1, <2>3, OperatorsAlone
  <2>4. CASE Crash
    <3>1. CASE \E q \in Runs : Dies(q) /\ Leave(q)
      BY <2>2, <2>4, <3>1 DEF Crash
    <3>2. CASE \E o \in Operators : Leave(o) /\ UNCHANGED run
      BY <2>1, <2>4, <3>2, OperatorsAlone DEF Crash
    <3>3. CASE ArchiverDies /\ UNCHANGED run
      BY <2>1, <2>4, <3>3 DEF Crash, ArchiverDies
    <3>q. QED
      BY <2>4, <3>1, <3>2, <3>3 DEF Crash
  <2>5. CASE UNCHANGED vars
    BY <2>1, <2>5 DEF vars, promotionVars, runVars
  <2>q. QED
    BY <2>2, <2>3, <2>4, <2>5 DEF Next, Archiver
<1>3. ASSUME NEW r \in Runs PROVE PromotesOwn(run'[r], rec'[r], iterman'[r], registry')
  BY <1>2, RegistryExtends, ExtensionKeeps
<1>q. QED
  BY <1>1, <1>3 DEF ManifestsInv

LEMMA InitManifests == Init => ManifestsInv
<1> SUFFICES ASSUME Init PROVE ManifestsInv
  OBVIOUS
<1>1. /\ \A p \in Promoters : rec[p] = Idle
      /\ \A r \in Runs : run[r] = Off /\ iterman[r] = <<>>
      /\ Runs \subseteq Promoters
  BY DEF Init, PromotionInit, Promoters
<1>2. \A p \in Promoters : StaysListed(rec[p], registry)
  BY <1>1 DEF StaysListed, Idle
<1>3. PromotesOwn(Off, Idle, <<>>, registry)
  BY EmptyIs DEF PromotesOwn, Off, Idle, Submitted
<1>q. QED
  BY <1>1, <1>2, <1>3 DEF ManifestsInv

\* Whatever is promoted meanwhile, and whoever dies, a manifest that says its checkpoint was
\* accepted names the entry of the registry that its own promotion made.
THEOREM ManifestMatchesRegistryHolds == Spec => []ManifestMatchesRegistry
<1> DEFINE Inv == IInv /\ (~site.archiver => ManifestsInv)
<1>1. Init => Inv
  BY InitRuns, InitProms, InitManifests DEF IInv
<1>2. Inv /\ [Next]_vars => Inv'
  BY NextRuns, NextProms, NextManifests, SiteStays DEF IInv
<1>3. Inv => ManifestMatchesRegistry
  BY DEF ManifestsInv, PromotesOwn, MatchesIn, ManifestMatchesRegistry, MatchesRegistry
<1>q. QED
  BY <1>1, <1>2, <1>3, PTL DEF Spec

--------------------------------------------------------------------------------
(* A run is one sequence of iterations over all its invocations.           *)

Fine(m) == m.seed \in Nat /\ m.games \in Nat /\ m.eseed \in Nat /\ m.evals \in Nat

\* Every benchmark of ms ended before seed x.
After(ms, x) == \A i \in DOMAIN ms : ms[i].evals > 0 => ms[i].eseed + ms[i].evals <= x

\* What OneSequence says of seeds and policies, of manifests that are numbered anyway.
Chained(ms) ==
  /\ IsSeq(ms) /\ \A i \in DOMAIN ms : Fine(ms[i])
  /\ \A i \in 1 .. Len(ms) - 1 :
       ms[i + 1].seed = ms[i].seed + ms[i].games /\ ms[i + 1].current = NextSpec(ms[i])
  /\ \A i, j \in DOMAIN ms :
       i < j /\ ms[i].evals > 0 /\ ms[j].evals > 0 => ms[i].eseed + ms[i].evals <= ms[j].eseed

\* The manifest m goes on where ms ended.
Follows(ms, m) ==
  /\ Fine(m) /\ m.seed = NextSeed(ms)
  /\ ms # <<>> => m.current = NextSpec(Last(ms))
  /\ m.evals > 0 => After(ms, m.eseed)

LEMMA ChainedIsOne ==
  ASSUME NEW r, NEW ms, Numbered(r, ms), Chained(ms) PROVE OneSequence(ms)
<1>1. Len(ms) \in Nat /\ DOMAIN ms = 1 .. Len(ms)
  BY SeqLen DEF Chained
<1>2. ASSUME NEW i \in 1 .. Len(ms) - 1
      PROVE  /\ ms[i + 1].seed = ms[i].seed + ms[i].games /\ ms[i + 1].current = NextSpec(ms[i])
             /\ \A j \in i + 1 .. Len(ms) :
                  ms[i].evals > 0 /\ ms[j].evals > 0 => ms[i].eseed + ms[i].evals <= ms[j].eseed
  BY <1>1 DEF Chained
<1>q. QED
  BY <1>2 DEF OneSequence, Numbered

LEMMA EmptyChained == Chained(<<>>)
  BY EmptyIs DEF Chained

LEMMA AppendChained ==
  ASSUME NEW ms, NEW m, Chained(ms), Follows(ms, m) PROVE Chained(Append(ms, m))
<1> DEFINE n == Len(ms)
           t == Append(ms, m)
<1>1. IsSeq(ms) /\ n \in Nat /\ DOMAIN ms = 1 .. n
  BY SeqLen DEF Chained
<1>2. /\ IsSeq(t) /\ Len(t) = n + 1 /\ \A i \in 1 .. n : t[i] = ms[i]
      /\ t[n + 1] = m
  BY <1>1, AppendIs
<1>3. DOMAIN t = 1 .. n + 1
  BY <1>2, SeqLen
<1>4. n > 0 => ms # <<>> /\ Last(ms) = ms[n] /\ NextSeed(ms) = ms[n].seed + ms[n].games
  BY <1>1, LenZero DEF Last, NextSeed
<1> HIDE DEF t, n
<1>5. \A i \in DOMAIN t : Fine(t[i])
  BY <1>1, <1>2, <1>3 DEF Chained, Follows
<1>6. ASSUME NEW i \in 1 .. n
      PROVE  t[i + 1].seed = t[i].seed + t[i].games /\ t[i + 1].current = NextSpec(t[i])
  <2>1. CASE i < n
    <3>1. i \in 1 .. Len(ms) - 1 /\ i + 1 \in 1 .. n
      BY <1>1, <2>1 DEF n
    <3>q. QED
      BY <1>2, <3>1 DEF Chained
  <2>2. CASE i = n
    BY <1>1, <1>2, <1>4, <2>2 DEF Follows
  <2>q. QED
    BY <1>1, <2>1, <2>2
<1>7. ASSUME NEW i \in DOMAIN t, NEW j \in DOMAIN t, i < j, t[i].evals > 0, t[j].evals > 0
      PROVE  t[i].eseed + t[i].evals <= t[j].eseed
  <2>1. i \in 1 .. n /\ t[i] = ms[i]
    BY <1>1, <1>2, <1>3, <1>7
  <2>2. CASE j \in 1 .. n
    BY <1>1, <1>2, <1>7, <2>1, <2>2 DEF Chained
  <2>3. CASE j = n + 1
    BY <1>1, <1>2, <1>7, <2>1, <2>3 DEF Follows, After
  <2>q. QED
    BY <1>1, <1>3, <2>2, <2>3
<1>8. Len(t) - 1 = n
  BY <1>1, <1>2
<1>q. QED
  BY <1>2, <1>5, <1>6, <1>7, <1>8 DEF Chained, t

LEMMA NextSeedIs == ASSUME NEW ms, Chained(ms) PROVE NextSeed(ms) \in Nat
<1>1. IsSeq(ms) /\ Len(ms) \in Nat /\ DOMAIN ms = 1 .. Len(ms)
  BY SeqLen DEF Chained
<1>2. ms # <<>> => Len(ms) \in DOMAIN ms
  BY <1>1, LenZero
<1>q. QED
  BY <1>2 DEF Chained, NextSeed, Last, Fine

\* The last of finitely many positions.
LEMMA LastPosition ==
  ASSUME NEW n \in Nat, NEW S, S \subseteq 1 .. n, S # {}
  PROVE  \E i \in S : \A j \in S : j <= i
<1> DEFINE T == {n - i : i \in S}
<1>1. T \subseteq Nat /\ T # {}
  <2>1. \A i \in S : n - i \in Nat
    OBVIOUS
  <2>2. PICK i \in S : TRUE
    OBVIOUS
  <2>3. n - i \in T
    OBVIOUS
  <2>q. QED
    BY <2>1, <2>3
<1>2. PICK x \in T : \A y \in T : ~(<<y, x>> \in OpToRel(<, Nat))
  <2> HIDE DEF T
  <2>q. QED
    BY <1>1, NatLessThanWellFounded, WFMin
<1>3. PICK i \in S : x = n - i
  BY <1>2
<1>4. ASSUME NEW j \in S PROVE j <= i
  <2>1. n - j \in T /\ n - j \in Nat
    BY <1>1
  <2>2. ~(<<n - j, x>> \in OpToRel(<, Nat))
    BY <1>2, <2>1
  <2>3. ~(n - j < x)
    BY <1>1, <2>1, <2>2 DEF OpToRel
  <2>q. QED
    BY <1>3, <2>3
<1>q. QED
  BY <1>4

\* The next benchmark starts past the last one, and so past all of them.
LEMMA NextEvaluationIs ==
  ASSUME NEW ms, Chained(ms)
  PROVE  NextEvaluation(ms) \in Nat /\ After(ms, NextEvaluation(ms))
<1> DEFINE hits == {j \in DOMAIN ms : ms[j].evals > 0}
           ends == {ms[i].eseed + ms[i].evals : i \in hits}
<1>1. Len(ms) \in Nat /\ DOMAIN ms = 1 .. Len(ms) /\ \A i \in DOMAIN ms : Fine(ms[i])
  BY SeqLen DEF Chained
<1>2. CASE hits = {}
  BY <1>2 DEF NextEvaluation, After
<1>3. CASE hits # {}
  <2>1. PICK i \in hits : \A j \in hits : j <= i
    BY <1>1, <1>3, LastPosition
  <2>2. \A j \in hits : ms[j].eseed + ms[j].evals <= ms[i].eseed + ms[i].evals
    <3> SUFFICES ASSUME NEW j \in hits, j # i
                 PROVE  ms[j].eseed + ms[j].evals <= ms[i].eseed + ms[i].evals
      BY <1>1, <2>1 DEF Fine
    <3>1. j < i
      BY <1>1, <2>1
    <3>2. ms[j].eseed + ms[j].evals <= ms[i].eseed
      BY <3>1 DEF Chained
    <3>q. QED
      BY <1>1, <3>2 DEF Fine
  <2>3. ms[i].eseed + ms[i].evals \in ends /\ \A y \in ends : y <= ms[i].eseed + ms[i].evals
    BY <2>2
  <2>4. NextEvaluation(ms) = CHOOSE x \in ends : \A y \in ends : y <= x
    BY <1>3 DEF NextEvaluation
  <2>5. NextEvaluation(ms) \in ends /\ \A y \in ends : y <= NextEvaluation(ms)
    BY <2>3, <2>4
  <2>6. ends \subseteq Nat
    BY <1>1 DEF Fine
  <2>q. QED
    BY <2>5, <2>6 DEF After
<1>q. QED
  BY <1>2, <1>3

\* The seeds of the iteration a run is at.
SeedsOf(base, iter, first, games) == base + (iter - first) * games
Seeds(s) == SeedsOf(s.base, s.iter, s.first, s.games)

LEMMA SeedsGoOn ==
  ASSUME NEW b \in Nat, NEW i \in Nat, NEW f \in Nat, NEW g \in Nat
  PROVE  SeedsOf(b, i + 1, f, g) = SeedsOf(b, i, f, g) + g
BY DEF SeedsOf

LEMMA NextSeeds ==
  ASSUME NEW s, NEW t, s.base \in Nat, s.iter \in Nat, s.first \in Nat, s.games \in Nat,
         t.base = s.base, t.iter = s.iter + 1, t.first = s.first, t.games = s.games
  PROVE  Seeds(t) = Seeds(s) + s.games
<1>1. Seeds(t) = SeedsOf(s.base, s.iter + 1, s.first, s.games)
  BY DEF Seeds
<1>2. Seeds(s) = SeedsOf(s.base, s.iter, s.first, s.games)
  BY DEF Seeds
<1>q. QED
  BY <1>1, <1>2, SeedsGoOn

LEMMA SeedsStart ==
  ASSUME NEW b \in Nat, NEW f \in Nat, NEW g \in Nat PROVE SeedsOf(b, f, f, g) = b
BY DEF SeedsOf

\* What holds of the process s of a run, its iteration manifests im and its run manifest
\* rm.  Until there is a run manifest a resumption goes by the iteration manifests.
SequenceOk(s, im, rm) ==
  /\ Chained(rm) /\ (rm = <<>> => Chained(im))
  /\ s.pc # "off" =>
       /\ Chained(s.done) /\ After(s.done, s.eval)
       /\ s.base \in Nat /\ s.first \in Nat /\ s.games \in Nat /\ s.evals \in Nat
       /\ s.eval \in Nat /\ s.first <= s.iter
  /\ s.pc \in {"collect", "train", "evaluate"} =>
       /\ rm = <<>> => im = s.done
       /\ NextSeed(s.done) = Seeds(s)
       /\ s.done # <<>> => s.current = NextSpec(Last(s.done))
  /\ s.pc \in {"publish", "promote", "finish"} =>
       /\ MShape(s.m) /\ Follows(s.done, s.m)
       /\ s.m.seed = Seeds(s) /\ s.m.games = s.games
       /\ s.m.evals > 0 => s.m.eseed + s.m.evals <= s.eval

SequencesInv ==
  /\ site \in Sites
  /\ \A r \in Runs : SequenceOk(run[r], iterman[r], runman[r])

LEMMA InitSequences == Init => SequencesInv
<1> SUFFICES ASSUME Init PROVE SequencesInv
  OBVIOUS
<1>1. ASSUME NEW r \in Runs PROVE run[r] = Off /\ iterman[r] = <<>> /\ runman[r] = <<>>
  BY DEF Init
<1>2. SequenceOk(Off, <<>>, <<>>)
  BY EmptyChained DEF SequenceOk, Off
<1>3. site \in Sites
  BY DEF Init
<1>q. QED
  BY <1>1, <1>2, <1>3 DEF SequencesInv

\* A step of run r, after which its sequence is in order.
SequenceGoesOn(r) == OnlyRun(r) /\ SequenceOk(run'[r], iterman'[r], runman'[r])

LEMMA SequenceFacts ==
  ASSUME RunsInv, SequencesInv, NEW r \in Runs
  PROVE  /\ RunOk(r, run[r], iterman[r], runman[r])
         /\ SequenceOk(run[r], iterman[r], runman[r])
         /\ r \in DOMAIN run /\ r \in DOMAIN iterman /\ r \in DOMAIN runman
BY DEF RunsInv, RunInv, SequencesInv

LEMMA StartSequence ==
  ASSUME RunsInv, SequencesInv, NEW r \in Runs, Start(r)
  PROVE  SequenceGoesOn(r)
<1> DEFINE ms == Prior(r)
<1>1. /\ RunOk(r, run[r], iterman[r], runman[r]) /\ SequenceOk(run[r], iterman[r], runman[r])
      /\ r \in DOMAIN run
  BY SequenceFacts
<1>2. /\ Chained(ms) /\ Numbered(r, ms) /\ (runman[r] = <<>> => iterman[r] = ms)
  BY <1>1 DEF Prior, SequenceOk, RunOk
<1>3. Len(ms) \in Nat /\ DOMAIN ms = 1 .. Len(ms) /\ (ms = <<>> <=> Len(ms) = 0)
  BY <1>2, SeqLen, LenZero DEF Numbered
<1>4. FirstIteration(ms) \in Nat
  BY <1>2, <1>3 DEF FirstIteration, Last, Numbered
<1>5. NextSeed(ms) \in Nat /\ NextEvaluation(ms) \in Nat /\ After(ms, NextEvaluation(ms))
  BY <1>2, NextSeedIs, NextEvaluationIs
<1>6. iterman' = iterman /\ runman' = runman
  BY DEF Start
<1>7. PICK size \in site.sizes : \E last, pool :
        run' = [run EXCEPT ![r] =
                [pc |-> "collect", first |-> FirstIteration(ms), iter |-> FirstIteration(ms),
                 last |-> last, games |-> size.games, evals |-> size.evals,
                 base |-> NextSeed(ms), eval |-> NextEvaluation(ms),
                 current |-> IF ms = <<>> THEN None ELSE NextSpec(Last(ms)),
                 pool |-> pool, done |-> ms, m |-> None]]
  BY DEF Start
<1>8. size.games \in Nat /\ size.evals \in Nat
  <2>1. size \in [games : Nat, evals : Nat]
    BY SitesAssumption DEF SequencesInv
  <2>q. QED
    BY <2>1
<1>9. OnlyRun(r)
  BY <1>6, <1>7 DEF OnlyRun
<1> HIDE DEF ms
<1> DEFINE s == run'[r]
<1>10. /\ s.pc = "collect" /\ s.first = FirstIteration(ms) /\ s.iter = FirstIteration(ms)
       /\ s.games = size.games /\ s.evals = size.evals /\ s.base = NextSeed(ms)
       /\ s.eval = NextEvaluation(ms) /\ s.done = ms
       /\ s.current = IF ms = <<>> THEN None ELSE NextSpec(Last(ms))
  BY <1>1, <1>7
<1> HIDE DEF s
<1>11. Seeds(s) = NextSeed(ms)
  <2>1. SeedsOf(NextSeed(ms), FirstIteration(ms), FirstIteration(ms), size.games) = NextSeed(ms)
    BY <1>4, <1>5, <1>8, SeedsStart
  <2>q. QED
    BY <1>10, <2>1 DEF Seeds
<1>12. SequenceOk(s, iterman[r], runman[r])
  BY <1>1, <1>2, <1>4, <1>5, <1>8, <1>10, <1>11 DEF SequenceOk
<1>q. QED
  BY <1>6, <1>9, <1>12 DEF SequenceGoesOn, s

LEMMA DiesSequence ==
  ASSUME RunsInv, SequencesInv, NEW r \in Runs, Dies(r), UNCHANGED <<iterman, runman>>
  PROVE  SequenceGoesOn(r)
<1>1. SequenceOk(run[r], iterman[r], runman[r]) /\ r \in DOMAIN run
  BY SequenceFacts
<1>2. run'[r] = Off /\ OnlyRun(r)
  BY <1>1 DEF Dies, OnlyRun
<1>3. SequenceOk(Off, iterman[r], runman[r])
  BY <1>1 DEF SequenceOk, Off
<1>q. QED
  BY <1>2, <1>3 DEF SequenceGoesOn

LEMMA EntersSequence ==
  ASSUME RunsInv, SequencesInv, NEW r \in Runs, NEW pc, Enters(r, pc),
         UNCHANGED <<iterman, runman>>,
         <<run[r].pc, pc>> \in {<<"collect", "train">>, <<"train", "evaluate">>}
  PROVE  SequenceGoesOn(r)
<1>1. /\ RunOk(r, run[r], iterman[r], runman[r]) /\ SequenceOk(run[r], iterman[r], runman[r])
      /\ r \in DOMAIN run
  BY SequenceFacts
<1>2. run'[r] = [run[r] EXCEPT !.pc = pc] /\ OnlyRun(r)
  BY <1>1 DEF Enters, OnlyRun
<1> DEFINE s == run'[r]
<1>3. /\ s.pc = pc /\ s.first = run[r].first /\ s.iter = run[r].iter /\ s.games = run[r].games
      /\ s.evals = run[r].evals /\ s.base = run[r].base /\ s.eval = run[r].eval
      /\ s.done = run[r].done /\ s.current = run[r].current
  BY <1>1, <1>2 DEF RunOk, RunShape
<1> HIDE DEF s
<1>4. Seeds(s) = Seeds(run[r])
  BY <1>3 DEF Seeds
<1>5. SequenceOk(s, iterman[r], runman[r])
  BY <1>1, <1>3, <1>4 DEF SequenceOk
<1>q. QED
  BY <1>2, <1>5 DEF SequenceGoesOn, s

\* A manifest put after the last one is a manifest appended.
LEMMA PutAppends ==
  ASSUME NEW s, NEW e, IsSeq(s) PROVE Put(s, Len(s) + 1, e) = Append(s, e)
<1> DEFINE n == Len(s)
           t == Append(s, e)
           u == Put(s, n + 1, e)
<1>1. n \in Nat /\ DOMAIN s = 1 .. n
  BY SeqLen
<1>2. IsSeq(t) /\ Len(t) = n + 1 /\ (\A i \in 1 .. n : t[i] = s[i]) /\ t[n + 1] = e
  BY AppendIs
<1>3. DOMAIN t = 1 .. n + 1 /\ t \in [1 .. n + 1 -> Elements(t)]
  BY <1>2, SeqLen, LenProperties DEF IsSeq
<1>4. /\ IsSeq(u) /\ Len(u) >= n + 1 /\ \A i \in 1 .. Len(u) : u[i] = IF i = n + 1 THEN e ELSE s[i]
      /\ \A i \in 1 .. Len(u) : i # n + 1 => i \in 1 .. n
  BY <1>1, PutIs
<1>5. Len(u) \in Nat /\ DOMAIN u = 1 .. Len(u) /\ u \in [1 .. Len(u) -> Elements(u)]
  BY <1>4, SeqLen, LenProperties DEF IsSeq
<1> HIDE DEF u, t
<1>6. Len(u) = n + 1
  <2>1. CASE Len(u) > n + 1
    <3>1. n + 2 \in 1 .. Len(u) /\ n + 2 # n + 1 /\ n + 2 \notin 1 .. n
      BY <1>1, <1>5, <2>1
    <3>q. QED
      BY <1>4, <3>1
  <2>2. n \in Nat /\ Len(u) \in Nat /\ Len(u) >= n + 1
    BY <1>1, <1>4, <1>5
  <2>q. QED
    BY <2>1, <2>2
<1>7. ASSUME NEW i \in 1 .. n + 1 PROVE u[i] = t[i]
  <2>1. CASE i = n + 1
    BY <1>1, <1>2, <1>4, <1>6, <2>1
  <2>2. CASE i \in 1 .. n
    BY <1>1, <1>2, <1>4, <1>6, <2>2
  <2>q. QED
    BY <1>1, <2>1, <2>2
<1>q. QED
  BY <1>3, <1>5, <1>6, <1>7 DEF u, t

LEMMA EvaluateSequence ==
  ASSUME RunsInv, SequencesInv, NEW r \in Runs, Evaluate(r)
  PROVE  SequenceGoesOn(r)
<1>1. /\ RunOk(r, run[r], iterman[r], runman[r]) /\ SequenceOk(run[r], iterman[r], runman[r])
      /\ r \in DOMAIN run /\ r \in DOMAIN iterman /\ run[r].pc = "evaluate"
  BY SequenceFacts DEF Evaluate, Pc
<1>2. runman' = runman
  BY DEF Evaluate
<1>3. CASE Dies(r) /\ UNCHANGED iterman
  BY <1>2, <1>3, DiesSequence
<1>4. ASSUME NEW m, MShape(m), m.seed = Seeds(run[r]), m.games = run[r].games,
             m.eseed = run[r].eval \/ (m.eseed = 0 /\ m.evals = 0),
             m.evals \in Nat, m.current = run[r].current,
             run' = [run EXCEPT ![r].pc = "publish", ![r].m = m, ![r].eval = @ + m.evals],
             iterman' = [iterman EXCEPT ![r] = Put(@, run[r].iter, m)]
      PROVE  SequenceGoesOn(r)
  <2> DEFINE s == run'[r]
  <2>1. s = [run[r] EXCEPT !.pc = "publish", !.m = m, !.eval = @ + m.evals]
    BY <1>1, <1>4
  <2>2. /\ s.pc = "publish" /\ s.m = m /\ s.eval = run[r].eval + m.evals
        /\ s.first = run[r].first /\ s.iter = run[r].iter /\ s.games = run[r].games
        /\ s.evals = run[r].evals /\ s.base = run[r].base /\ s.done = run[r].done
    BY <1>1, <2>1 DEF RunOk, RunShape
  <2> HIDE DEF s
  <2>3. Seeds(s) = Seeds(run[r])
    BY <2>2 DEF Seeds
  <2>4. Follows(run[r].done, m)
    <3>1. NextSeed(run[r].done) \in Nat
      BY <1>1, NextSeedIs DEF SequenceOk
    <3>2. Fine(m)
      BY <1>1, <1>4, <3>1 DEF Fine, SequenceOk
    <3>3. m.evals > 0 => After(run[r].done, m.eseed)
      BY <1>1, <1>4 DEF SequenceOk
    <3>q. QED
      BY <1>1, <1>4, <3>2, <3>3 DEF Follows, SequenceOk
  <2>5. runman[r] = <<>> => Chained(iterman'[r])
    <3>1. SUFFICES ASSUME runman[r] = <<>> PROVE Chained(iterman'[r])
      OBVIOUS
    <3>2. iterman[r] = run[r].done /\ Chained(run[r].done) /\ IsSeq(run[r].done)
      BY <1>1, <3>1 DEF SequenceOk, Chained
    <3>3. run[r].iter = Len(run[r].done) + 1
      BY <1>1 DEF RunOk
    <3>4. iterman'[r] = Append(run[r].done, m)
      BY <1>1, <1>4, <3>2, <3>3, PutAppends
    <3>q. QED
      BY <2>4, <3>2, <3>4, AppendChained
  <2>6. /\ s.eval \in Nat /\ After(s.done, s.eval)
        /\ s.m.evals > 0 => s.m.eseed + s.m.evals <= s.eval
    <3>1. /\ run[r].eval \in Nat /\ Chained(run[r].done) /\ After(run[r].done, run[r].eval)
      BY <1>1 DEF SequenceOk
    <3>2. \A i \in DOMAIN run[r].done :
            run[r].done[i].eseed \in Nat /\ run[r].done[i].evals \in Nat
      BY <3>1 DEF Chained, Fine
    <3>3. After(s.done, s.eval)
      BY <1>4, <2>2, <3>1, <3>2 DEF After
    <3>q. QED
      BY <1>4, <2>2, <3>1, <3>3
  <2>7. SequenceOk(s, iterman'[r], runman[r])
    BY <1>1, <1>4, <2>2, <2>3, <2>4, <2>5, <2>6 DEF SequenceOk
  <2>8. OnlyRun(r)
    <3>1. DOMAIN run' = DOMAIN run /\ \A q \in Runs : q # r => run'[q] = run[q]
      BY <1>4 DEF RunsInv
    <3>2. DOMAIN iterman' = DOMAIN iterman /\ \A q \in Runs : q # r => iterman'[q] = iterman[q]
      BY <1>4 DEF RunsInv
    <3>q. QED
      BY <1>2, <3>1, <3>2 DEF OnlyRun
  <2>q. QED
    BY <1>2, <2>7, <2>8 DEF SequenceGoesOn, s
<1>5. CASE ~(Dies(r) /\ UNCHANGED iterman)
  <2>1. PICK measured \in MayMeasure(r), wins \in BOOLEAN :
          /\ run' = [run EXCEPT ![r].pc = "publish",
                                ![r].m = IterationManifest(r, measured, wins),
                                ![r].eval = @ + IterationManifest(r, measured, wins).evals]
          /\ iterman' = [iterman EXCEPT
                          ![r] = Put(@, run[r].iter, IterationManifest(r, measured, wins))]
    BY <1>5 DEF Evaluate
  <2> DEFINE m == IterationManifest(r, measured, wins)
  <2>2. /\ MShape(m) /\ m.seed = Seeds(run[r]) /\ m.games = run[r].games
        /\ m.eseed = (IF measured THEN run[r].eval ELSE 0)
        /\ m.evals = (IF measured THEN run[r].evals ELSE 0)
        /\ m.current = run[r].current
    BY DEF IterationManifest, MShape, Seeds, SeedsOf
  <2>3. run[r].evals \in Nat
    BY <1>1 DEF SequenceOk
  <2>4. /\ run' = [run EXCEPT ![r].pc = "publish", ![r].m = m, ![r].eval = @ + m.evals]
        /\ iterman' = [iterman EXCEPT ![r] = Put(@, run[r].iter, m)]
    BY <2>1
  <2> HIDE DEF m
  <2>5. m.evals \in Nat /\ (m.eseed = run[r].eval \/ (m.eseed = 0 /\ m.evals = 0))
    BY <2>2, <2>3
  <2>q. QED
    BY <1>4, <2>2, <2>4, <2>5
<1>q. QED
  BY <1>3, <1>5

LEMMA WriteRunSequence ==
  ASSUME RunsInv, SequencesInv, NEW r \in Runs, WriteRun(r)
  PROVE  SequenceGoesOn(r)
<1>1. /\ RunOk(r, run[r], iterman[r], runman[r]) /\ SequenceOk(run[r], iterman[r], runman[r])
      /\ r \in DOMAIN run /\ r \in DOMAIN runman /\ run[r].pc = "publish"
  BY SequenceFacts DEF WriteRun, Pc
<1>2. PICK pc \in {"promote", "finish"} : Enters(r, pc)
  BY DEF WriteRun
<1>3. /\ run'[r] = [run[r] EXCEPT !.pc = pc] /\ OnlyRun(r)
      /\ runman'[r] = Append(run[r].done, run[r].m) /\ iterman' = iterman
  BY <1>1, <1>2 DEF Enters, OnlyRun, WriteRun
<1> DEFINE s == run'[r]
<1>4. /\ s.pc = pc /\ s.first = run[r].first /\ s.iter = run[r].iter /\ s.games = run[r].games
      /\ s.evals = run[r].evals /\ s.base = run[r].base /\ s.eval = run[r].eval
      /\ s.done = run[r].done /\ s.m = run[r].m
  BY <1>1, <1>3 DEF RunOk, RunShape
<1> HIDE DEF s
<1>5. Seeds(s) = Seeds(run[r])
  BY <1>4 DEF Seeds
<1>6. Chained(runman'[r]) /\ runman'[r] # <<>>
  <2>1. Chained(run[r].done) /\ Follows(run[r].done, run[r].m)
    BY <1>1 DEF SequenceOk
  <2>2. Len(runman'[r]) = Len(run[r].done) + 1 /\ Len(run[r].done) \in Nat
    BY <1>3, <2>1, AppendIs, SeqLen DEF Chained
  <2>3. Len(runman'[r]) # Len(<<>>)
    BY <2>2, EmptyIs
  <2>4. Chained(runman'[r])
    BY <1>3, <2>1, AppendChained
  <2>q. QED
    BY <2>3, <2>4
<1>7. SequenceOk(s, iterman[r], runman'[r])
  BY <1>1, <1>2, <1>4, <1>5, <1>6 DEF SequenceOk
<1>q. QED
  BY <1>3, <1>7 DEF SequenceGoesOn, s

Decided(m, advance, accepted, promo) ==
  [m EXCEPT !.advance = advance, !.accepted = accepted, !.promo = promo]

LEMMA DecidedShape ==
  ASSUME NEW m, MShape(m), NEW advance, NEW accepted, NEW promo
  PROVE  LET d == Decided(m, advance, accepted, promo)
         IN  /\ MShape(d) /\ d.n = m.n /\ d.seed = m.seed /\ d.games = m.games
             /\ d.eseed = m.eseed /\ d.evals = m.evals /\ d.source = m.source
             /\ d.current = m.current
<1> DEFINE M(a, f, k) == [n : {m.n}, seed : {m.seed}, games : {m.games}, eseed : {m.eseed},
                          evals : {m.evals}, source : {m.source}, current : {m.current},
                          bench : {m.bench}, wins : {m.wins}, advance : {a}, accepted : {f},
                          promo : {k}]
           d == Decided(m, advance, accepted, promo)
<1>1. m \in M(m.advance, m.accepted, m.promo)
  BY DEF MShape
<1>2. d \in M(advance, accepted, promo)
  BY <1>1 DEF Decided
<1> HIDE DEF d
<1>3. MShape(d)
  BY <1>2 DEF MShape
<1>4. /\ d.n = m.n /\ d.seed = m.seed /\ d.games = m.games /\ d.eseed = m.eseed
      /\ d.evals = m.evals /\ d.source = m.source /\ d.current = m.current
  BY <1>2
<1>q. QED
  BY <1>3, <1>4 DEF d

\* The decision changes neither the seeds of an iteration nor what it started from.
LEMMA DecideSequence ==
  ASSUME RunsInv, SequencesInv, NEW r \in Runs, Decide(r)
  PROVE  SequenceGoesOn(r)
<1>1. /\ RunOk(r, run[r], iterman[r], runman[r]) /\ SequenceOk(run[r], iterman[r], runman[r])
      /\ r \in DOMAIN run /\ r \in DOMAIN iterman /\ run[r].pc = "promote"
  BY SequenceFacts DEF Decide, Pc
<1>2. PICK advance, accepted, promo, pool :
        LET m == [run[r].m EXCEPT !.advance = advance, !.accepted = accepted, !.promo = promo]
        IN  /\ iterman' = [iterman EXCEPT ![r] = Put(@, m.n, m)]
            /\ run' = [run EXCEPT ![r].pc = "finish", ![r].m = m, ![r].pool = pool]
  BY DEF Decide
<1> DEFINE m == Decided(run[r].m, advance, accepted, promo)
<1>3. MShape(run[r].m)
  BY <1>1 DEF SequenceOk
<1>4. /\ MShape(m) /\ m.seed = run[r].m.seed /\ m.games = run[r].m.games
      /\ m.eseed = run[r].m.eseed /\ m.evals = run[r].m.evals /\ m.current = run[r].m.current
  BY <1>3, DecidedShape
<1> HIDE DEF m
<1>5. run'[r] = [run[r] EXCEPT !.pc = "finish", !.m = m, !.pool = pool]
  BY <1>1, <1>2 DEF m, Decided
<1> DEFINE s == run'[r]
<1>6. /\ s.pc = "finish" /\ s.first = run[r].first /\ s.iter = run[r].iter
      /\ s.games = run[r].games /\ s.evals = run[r].evals /\ s.base = run[r].base
      /\ s.eval = run[r].eval /\ s.done = run[r].done /\ s.m = m
  BY <1>1, <1>5 DEF RunOk, RunShape
<1> HIDE DEF s
<1>7. Seeds(s) = Seeds(run[r])
  BY <1>6 DEF Seeds
<1>8. Follows(run[r].done, m)
  BY <1>1, <1>4 DEF SequenceOk, Follows, Fine
<1>9. runman' = runman /\ runman[r] # <<>>
  <2>1. Len(runman[r]) = Len(run[r].done) + 1 /\ Len(run[r].done) \in Nat
    BY <1>1, SeqLen DEF RunOk, Numbered
  <2>q. QED
    BY <2>1, EmptyIs DEF Decide
<1>10. SequenceOk(s, iterman'[r], runman[r])
  BY <1>1, <1>4, <1>6, <1>7, <1>8, <1>9 DEF SequenceOk
<1>11. OnlyRun(r)
  <2>1. DOMAIN run' = DOMAIN run /\ \A q \in Runs : q # r => run'[q] = run[q]
    BY <1>2 DEF RunsInv
  <2>2. DOMAIN iterman' = DOMAIN iterman /\ \A q \in Runs : q # r => iterman'[q] = iterman[q]
    BY <1>2 DEF RunsInv
  <2>q. QED
    BY <1>9, <2>1, <2>2 DEF OnlyRun
<1>q. QED
  BY <1>9, <1>10, <1>11 DEF SequenceGoesOn, s

LEMMA FinishSequence ==
  ASSUME RunsInv, SequencesInv, NEW r \in Runs, Finish(r)
  PROVE  SequenceGoesOn(r)
<1>1. /\ RunOk(r, run[r], iterman[r], runman[r]) /\ SequenceOk(run[r], iterman[r], runman[r])
      /\ r \in DOMAIN run /\ r \in DOMAIN runman /\ run[r].pc = "finish"
  BY SequenceFacts DEF Finish, Pc
<1> DEFINE done == Append(run[r].done, run[r].m)
           next == NextSpec(run[r].m)
<1>2. runman'[r] = done /\ iterman' = iterman
  BY <1>1 DEF Finish
<1>3. /\ Chained(run[r].done) /\ Follows(run[r].done, run[r].m) /\ After(run[r].done, run[r].eval)
      /\ run[r].m.seed = Seeds(run[r]) /\ run[r].m.games = run[r].games
      /\ run[r].m.evals > 0 => run[r].m.eseed + run[r].m.evals <= run[r].eval
      /\ run[r].base \in Nat /\ run[r].first \in Nat /\ run[r].games \in Nat
      /\ run[r].evals \in Nat /\ run[r].eval \in Nat /\ run[r].first <= run[r].iter
  BY <1>1 DEF SequenceOk
<1>4. Len(run[r].done) \in Nat /\ run[r].iter = Len(run[r].done) + 1
  BY <1>1, SeqLen DEF RunOk, Numbered
<1>5. /\ Chained(done) /\ done # <<>> /\ Last(done) = run[r].m
      /\ NextSeed(done) = run[r].m.seed + run[r].m.games
      /\ DOMAIN done = 1 .. Len(run[r].done) + 1
      /\ \A i \in 1 .. Len(run[r].done) : done[i] = run[r].done[i]
      /\ done[Len(run[r].done) + 1] = run[r].m
  <2>1. /\ IsSeq(done) /\ Len(done) = Len(run[r].done) + 1
        /\ \A i \in 1 .. Len(run[r].done) : done[i] = run[r].done[i]
        /\ done[Len(run[r].done) + 1] = run[r].m
    BY <1>3, AppendIs DEF Chained
  <2>2. DOMAIN done = 1 .. Len(run[r].done) + 1
    BY <2>1, SeqLen
  <2>3. done # <<>>
    BY <1>4, <2>1, EmptyIs
  <2>4. Chained(done)
    BY <1>3, AppendChained
  <2> HIDE DEF done
  <2>q. QED
    BY <2>1, <2>2, <2>3, <2>4 DEF Last, NextSeed
<1>6. After(done, run[r].eval)
  <2>1. DOMAIN run[r].done = 1 .. Len(run[r].done)
    BY <1>3, SeqLen DEF Chained
  <2> HIDE DEF done
  <2>q. QED
    BY <1>3, <1>4, <1>5, <2>1 DEF After
<1>7. OnlyRun(r)
  BY <1>1, <1>2 DEF Finish, OnlyRun
<1> HIDE DEF done, next
<1>8. CASE run'[r] = Off
  <2>1. SequenceOk(Off, iterman[r], done)
    BY <1>5 DEF SequenceOk, Off
  <2>q. QED
    BY <1>2, <1>7, <1>8, <2>1 DEF SequenceGoesOn
<1>9. CASE \E pool :
             run'[r] = [run[r] EXCEPT !.pc = "collect", !.iter = @ + 1, !.current = next,
                                      !.pool = pool, !.done = done, !.m = None]
  <2> DEFINE s == run'[r]
  <2>1. /\ s.pc = "collect" /\ s.first = run[r].first /\ s.iter = run[r].iter + 1
        /\ s.games = run[r].games /\ s.evals = run[r].evals /\ s.base = run[r].base
        /\ s.eval = run[r].eval /\ s.done = done /\ s.current = next
    BY <1>1, <1>9 DEF RunOk, RunShape
  <2> HIDE DEF s
  <2>2. NextSeed(done) = Seeds(s)
    <3>1. NextSeed(done) = Seeds(run[r]) + run[r].games
      BY <1>3, <1>5
    <3>2. run[r].base \in Nat /\ run[r].iter \in Nat /\ run[r].first \in Nat /\ run[r].games \in Nat
      BY <1>3, <1>4
    <3>3. Seeds(s) = Seeds(run[r]) + run[r].games
      BY <2>1, <3>2, NextSeeds
    <3>q. QED
      BY <3>1, <3>3
  <2>3. s.done # <<>> /\ s.current = NextSpec(Last(s.done))
    BY <1>5, <2>1 DEF next
  <2>4. SequenceOk(s, iterman[r], done)
    BY <1>3, <1>4, <1>5, <1>6, <2>1, <2>2, <2>3 DEF SequenceOk
  <2>q. QED
    BY <1>2, <1>7, <2>4 DEF SequenceGoesOn, s
<1>10. \/ run'[r] = Off
       \/ \E pool :
            run'[r] = [run[r] EXCEPT !.pc = "collect", !.iter = @ + 1, !.current = next,
                                     !.pool = pool, !.done = done, !.m = None]
  BY <1>1 DEF Finish, done, next
<1>q. QED
  BY <1>8, <1>9, <1>10

LEMMA NextSequences ==
  ASSUME RunsInv, SequencesInv, [Next]_vars PROVE SequencesInv'
<1>1. ASSUME NEW r \in Runs, SequenceGoesOn(r)
      PROVE  \A q \in Runs : SequenceOk(run'[q], iterman'[q], runman'[q])
  BY <1>1 DEF SequenceGoesOn, OnlyRun, SequencesInv
<1>2. CASE UNCHANGED <<run, iterman, runman>>
  BY <1>2, SiteStays DEF SequencesInv
<1>3. CASE \E r \in Runs : Start(r) \/ Evaluate(r) \/ WriteRun(r) \/ Decide(r) \/ Finish(r)
  BY <1>1, <1>3, SiteStays, StartSequence, EvaluateSequence, WriteRunSequence, DecideSequence,
     FinishSequence DEF SequencesInv
<1>4. CASE \E r \in Runs : Collect(r) \/ Train(r)
  <2>1. PICK r \in Runs : Collect(r) \/ Train(r)
    BY <1>4
  <2>2. /\ UNCHANGED <<iterman, runman>>
        /\ \/ Enters(r, "train") /\ run[r].pc = "collect"
           \/ Enters(r, "evaluate") /\ run[r].pc = "train"
           \/ Dies(r)
    BY <2>1 DEF Collect, Train, Pc
  <2>3. SequenceGoesOn(r)
    BY <2>2, EntersSequence, DiesSequence
  <2>q. QED
    BY <1>1, <2>3, SiteStays DEF SequencesInv
<1>5. CASE \E r \in Runs : Dies(r) /\ UNCHANGED <<iterman, runman>>
  <2>1. PICK r \in Runs : SequenceGoesOn(r)
    BY <1>5, DiesSequence
  <2>q. QED
    BY <1>1, <2>1, SiteStays DEF SequencesInv
<1>6. ASSUME NEW r \in Runs, RunStep(r)
      PROVE  \/ Collect(r) \/ Train(r) \/ Evaluate(r) \/ WriteRun(r) \/ Decide(r) \/ Finish(r)
             \/ Dies(r) /\ UNCHANGED <<iterman, runman>>
             \/ UNCHANGED <<run, iterman, runman>>
  BY <1>6 DEF RunStep, Promote, Raises, runVars
<1>7. ASSUME Crash
      PROVE  \/ \E r \in Runs : Dies(r) /\ UNCHANGED <<iterman, runman>>
             \/ UNCHANGED <<run, iterman, runman>>
  BY <1>7 DEF Crash
<1>8. ASSUME (\E o \in Operators : Command(o) \/ OperatorStep(o)) \/ Archiver \/ UNCHANGED vars
      PROVE  UNCHANGED <<run, iterman, runman>>
  BY <1>8 DEF Command, OperatorStep, Archiver, vars, runVars
<1>q. QED
  BY <1>2, <1>3, <1>4, <1>5, <1>6, <1>7, <1>8 DEF Next

\* Over all its invocations, which crash anywhere and are resumed with other sizes, a run is
\* one sequence of iterations: numbers, seeds and policies go on where they ended, and no
\* benchmark repeats the seeds of an earlier one.
THEOREM RunIsOneSequenceHolds == Spec => []RunIsOneSequence
<1>1. Init => RunsInv /\ SequencesInv
  BY InitRuns, InitSequences
<1>2. RunsInv /\ SequencesInv /\ [Next]_vars => (RunsInv /\ SequencesInv)'
  BY NextRuns, NextSequences
<1>3. RunsInv /\ SequencesInv => RunIsOneSequence
  <2> SUFFICES ASSUME RunsInv, SequencesInv, NEW r \in Runs PROVE OneSequence(runman[r])
    BY DEF RunIsOneSequence
  <2>1. Numbered(r, runman[r]) /\ Chained(runman[r])
    BY SequenceFacts DEF RunOk, SequenceOk
  <2>q. QED
    BY <2>1, ChainedIsOne
<1>q. QED
  BY <1>1, <1>2, <1>3, PTL DEF Spec

--------------------------------------------------------------------------------
(* The gate of a run that alone promotes, where there is no archiver.      *)

\* A checkpoint carries the id of the iteration that trained it.
CarriesIds(fs) ==
  \A q \in Runs, n \in Nat :
    Source(q, n) \in DOMAIN fs => Id(fs[Source(q, n)]) = <<Base[q], n>>

\* An entry about a checkpoint of a promoting run, under that checkpoint's id.
ByRun(e) ==
  \E q \in Runs, n \in Nat :
    Promotes(q) /\ e.source = Source(q, n) /\ e.id = <<Base[q], n>>

\* Until the gate has read its incumbent, and from then on, that is whom the benchmark met.
Waits(s, pc) == s.pc = "publish" \/ (s.pc = "promote" /\ pc = "idle")
MatchupOk(s, pc, inc, reg) ==
  /\ Waits(s, pc) /\ s.m.evals > 0 /\ reg # <<>> => s.m.bench = Last(reg).id
  /\ s.pc = "promote" /\ pc = "gate" /\ s.m.evals > 0 => inc \in {None, s.m.bench}

GoalsInv ==
  /\ site \in Sites
  /\ \A r \in Runs : /\ run[r].pc # "off" => site.goal[r] > 0
                     /\ run[r].pc = "promote" => Mode(r) = "promote"

OperatorsRest ==
  /\ budget = [crashes |-> budget.crashes, commands |-> 0]
  /\ \A o \in Operators : rec[o].pc = "idle"

IdsInv ==
  /\ CarriesIds(files)
  /\ \A i \in DOMAIN registry : ByRun(registry[i]) /\ Id(registry[i].sum) = registry[i].id
  /\ \A p \in Promoters :
       /\ rec[p].pc \in {"lock", "keep", "write", "replace"} => ByRun(rec[p].entry)
       /\ rec[p].pc \in {"write", "replace"} => Id(rec[p].entry.sum) = rec[p].entry.id

MatchupInv ==
  \A r \in Runs :
    Mode(r) = "promote" => MatchupOk(run[r], rec[r].pc, rec[r].inc, registry)

GateInv == GoalsInv /\ OperatorsRest /\ IdsInv /\ MatchupInv

LEMMA InitGate == Init /\ site.commands = 0 => GateInv
<1> SUFFICES ASSUME Init, site.commands = 0 PROVE GateInv
  OBVIOUS
<1>1. /\ registry = <<>> /\ files = <<>> /\ \A p \in Promoters : rec[p] = Idle
      /\ \A r \in Runs : run[r] = Off
      /\ Runs \subseteq Promoters /\ Operators \subseteq Promoters
  BY DEF Init, PromotionInit, Promoters
<1>2. budget = [crashes |-> budget.crashes, commands |-> 0]
  BY DEF Init
<1>3. GoalsInv /\ OperatorsRest /\ MatchupInv
  BY <1>1, <1>2 DEF GoalsInv, OperatorsRest, MatchupInv, MatchupOk, Waits, Off, Idle, Init
<1>4. IdsInv
  BY <1>1, EmptyIs DEF IdsInv, CarriesIds, Idle
<1>q. QED
  BY <1>3, <1>4 DEF GateInv

\* A run that is under way has a goal, and promotes only in that mode.
LEMMA NextGoals ==
  ASSUME RunsInv, GoalsInv, [Next]_vars PROVE GoalsInv'
<1>0. site' = site /\ DOMAIN run = Runs
  BY SiteStays DEF RunsInv
<1>1. ASSUME NEW r \in Runs, run'[r].pc # "off" => site.goal[r] > 0,
             run'[r].pc = "promote" => Mode(r) = "promote",
             \A q \in Runs : q # r => run'[q] = run[q]
      PROVE  GoalsInv'
  BY <1>0, <1>1 DEF GoalsInv, Mode
<1>2. ASSUME NEW r \in Runs, Start(r) PROVE GoalsInv'
  <2>1. RunOk(r, run[r], iterman[r], runman[r])
    BY DEF RunsInv, RunInv
  <2>2. Numbered(r, Prior(r))
    BY <2>1 DEF Prior, RunOk
  <2>3. Len(Prior(r)) \in Nat /\ DOMAIN Prior(r) = 1 .. Len(Prior(r))
        /\ (Prior(r) = <<>> <=> Len(Prior(r)) = 0)
    BY <2>2, SeqLen, LenZero DEF Numbered
  <2>4. FirstIteration(Prior(r)) = Len(Prior(r)) + 1
    BY <2>2, <2>3 DEF FirstIteration, Last, Numbered
  <2>5. \E last : last \in FirstIteration(Prior(r)) .. site.goal[r]
    BY <1>2 DEF Start
  <2>6. site.goal[r] \in Nat
    BY SitesAssumption DEF GoalsInv
  <2>7. site.goal[r] > 0
    BY <2>3, <2>4, <2>5, <2>6
  <2>8. run'[r].pc = "collect" /\ \A q \in Runs : q # r => run'[q] = run[q]
    BY <1>0, <1>2 DEF Start
  <2>q. QED
    BY <1>1, <2>7, <2>8
<1>3. ASSUME NEW r \in Runs, RunStep(r) PROVE GoalsInv'
  <2>1. RunShape(run[r])
    BY DEF RunsInv, RunInv, RunOk
  <2>2. run[r].pc # "off" /\ (run[r].pc = "promote" => Mode(r) = "promote")
    BY <1>3 DEF RunStep, Collect, Train, Evaluate, WriteRun, Promote, Decide, Raises, Finish, Pc,
                GoalsInv
  <2>3. \A q \in Runs : q # r => run'[q] = run[q]
    <3>1. CASE Collect(r) \/ Train(r) \/ WriteRun(r) \/ Raises(r)
      BY <1>0, <3>1 DEF Collect, Train, WriteRun, Raises, Enters, Dies
    <3>2. CASE Evaluate(r)
      BY <1>0, <3>2 DEF Evaluate, Dies
    <3>3. CASE Promote(r) \/ Decide(r) \/ Finish(r)
      BY <1>0, <3>3 DEF Promote, Decide, Finish, runVars
    <3>q. QED
      BY <1>3, <3>1, <3>2, <3>3 DEF RunStep
  <2>4. run'[r].pc = "promote" => Mode(r) = "promote"
    <3>1. CASE Collect(r) \/ Train(r) \/ Raises(r)
      BY <1>0, <2>1, <3>1 DEF Collect, Train, Raises, Enters, Dies, Off, RunShape
    <3>2. CASE WriteRun(r)
      BY <1>0, <2>1, <3>2 DEF WriteRun, Enters, RunShape
    <3>3. CASE Evaluate(r)
      <4>1. CASE Dies(r)
        BY <1>0, <4>1 DEF Dies, Off
      <4>2. CASE ~Dies(r)
        <5>1. ASSUME NEW m, NEW eval,
                     run' = [run EXCEPT ![r].pc = "publish", ![r].m = m, ![r].eval = eval]
              PROVE  run'[r].pc = "publish"
          BY <1>0, <2>1, <5>1 DEF RunShape
        <5>2. \E measured, wins, eval :
                /\ run' = [run EXCEPT ![r].pc = "publish",
                                     ![r].m = IterationManifest(r, measured, wins),
                                     ![r].eval = eval]
                /\ iterman' = [iterman EXCEPT
                                ![r] = Put(@, run[r].iter, IterationManifest(r, measured, wins))]
          BY <3>3, <4>2, EvaluateEffect
        <5>q. QED
          BY <5>1, <5>2
      <4>q. QED
        BY <4>1, <4>2
    <3>4. CASE Promote(r)
      BY <2>2, <3>4 DEF Promote, runVars
    <3>5. CASE Decide(r)
      BY <1>0, <2>1, <3>5 DEF Decide, RunShape
    <3>6. CASE Finish(r)
      BY <1>0, <2>1, <3>6 DEF Finish, Off, RunShape
    <3>q. QED
      BY <1>3, <3>1, <3>2, <3>3, <3>4, <3>5, <3>6 DEF RunStep
  <2>q. QED
    BY <1>1, <2>2, <2>3, <2>4 DEF GoalsInv
<1>4. ASSUME NEW r \in Runs, Dies(r) PROVE GoalsInv'
  BY <1>0, <1>1, <1>4 DEF Dies, Off
<1>5. CASE UNCHANGED run
  BY <1>0, <1>5 DEF GoalsInv, Mode
<1>6. ASSUME (\E o \in Operators : Command(o) \/ OperatorStep(o)) \/ Archiver \/ UNCHANGED vars
      PROVE  UNCHANGED run
  BY <1>6 DEF Command, OperatorStep, Archiver, vars, runVars
<1>7. ASSUME Crash PROVE (\E r \in Runs : Dies(r)) \/ UNCHANGED run
  BY <1>7 DEF Crash
<1>q. QED
  BY <1>2, <1>3, <1>4, <1>5, <1>6, <1>7 DEF Next

\* Without commands operators do nothing.
LEMMA NextOperators ==
  ASSUME LockInv, OperatorsRest, [Next]_vars PROVE OperatorsRest'
<1>0. DOMAIN rec = Promoters /\ Operators \subseteq Promoters /\ Runs \cap Operators = {}
  BY PromotionAssumption DEF LockInv, Promoters
<1>1. ASSUME NEW o \in Operators PROVE ~Command(o)
  BY DEF Command, OperatorsRest
<1>2. ASSUME NEW o \in Operators PROVE ~OperatorStep(o)
  BY DEF OperatorStep, OperatorsRest, Judge, Gate, Lock, Keep, WriteTmp, Replace, At, Outcomes
<1>3. ASSUME NEW r \in Runs, Start(r) \/ RunStep(r)
      PROVE  budget' = budget /\ \A o \in Operators : rec'[o] = rec[o]
  <2>1. CASE Start(r) \/ Collect(r) \/ Train(r) \/ Evaluate(r) \/ WriteRun(r) \/ Finish(r)
    BY <2>1 DEF Start, Collect, Train, Evaluate, WriteRun, Finish, promotionVars
  <2>2. CASE Decide(r) \/ Raises(r)
    BY <1>0, <2>2 DEF Decide, Raises, Leave
  <2>3. CASE Promote(r)
    BY <1>0, <2>3 DEF Promote, Begin, Judge, Gate, Lock, Keep, WriteTmp, Replace, To
  <2>q. QED
    BY <1>3, <2>1, <2>2, <2>3 DEF RunStep
<1>4. ASSUME Crash
      PROVE  OperatorsRest'
  <2>1. budget' = [budget EXCEPT !.crashes = @ - 1]
    BY <1>4 DEF Crash, OneCrash
  <2>2. budget' = [crashes |-> budget'.crashes, commands |-> 0]
    BY <2>1 DEF OperatorsRest
  <2>3. CASE \E r \in Runs : Dies(r) /\ Leave(r)
    BY <1>0, <2>2, <2>3 DEF Leave, OperatorsRest
  <2>4. CASE \E o \in Operators : ~At(o, "idle") /\ Leave(o)
    BY <2>2, <2>4 DEF At, OperatorsRest
  <2>5. CASE ArchiverDies
    BY <2>2, <2>5 DEF ArchiverDies, OperatorsRest
  <2>q. QED
    BY <1>4, <2>2, <2>3, <2>4, <2>5 DEF Crash
<1>5. CASE UNCHANGED vars
  BY <1>5 DEF vars, promotionVars, OperatorsRest
<1>6. CASE Archiver
  <2>1. budget' = budget /\ rec' = rec
    BY <1>6 DEF Archiver, Archive, Plan, Move, Reread, Rewrite, Publish, Rollback
  <2>q. QED
    BY <2>1 DEF OperatorsRest
<1>q. QED
  BY <1>1, <1>2, <1>3, <1>4, <1>5, <1>6 DEF Next, OperatorsRest

\* Training gives a checkpoint its id; copies have names of their own.
LEMMA TrainCarries ==
  ASSUME NEW fs, NEW r \in Runs, NEW n, NEW made, CarriesIds(fs)
  PROVE  CarriesIds(Put(fs, Source(r, n), [run |-> r, n |-> n, made |-> made]))
<1> DEFINE new == Put(fs, Source(r, n), [run |-> r, n |-> n, made |-> made])
<1>1. ASSUME NEW q \in Runs, NEW k \in Nat, Source(q, k) \in DOMAIN new
      PROVE  Id(new[Source(q, k)]) = <<Base[q], k>>
  <2>1. CASE Source(q, k) = Source(r, n)
    <3>1. q = r /\ k = n
      BY <2>1 DEF Source
    <3>2. new[Source(q, k)] = [run |-> r, n |-> n, made |-> made]
      BY <2>1 DEF Put
    <3>q. QED
      BY <3>1, <3>2 DEF Id
  <2>2. CASE Source(q, k) # Source(r, n)
    <3>1. Source(q, k) \in DOMAIN fs /\ new[Source(q, k)] = fs[Source(q, k)]
      BY <1>1, <2>2 DEF Put
    <3>q. QED
      BY <3>1 DEF CarriesIds
  <2>q. QED
    BY <2>1, <2>2
<1>q. QED
  BY <1>1 DEF CarriesIds

\* A copy is a checkpoint of its source's id.
LEMMA KeepCarries ==
  ASSUME NEW fs, NEW e, NEW k, NEW name, CarriesIds(fs), ByRun(e), e.source \in DOMAIN fs,
         name = e.source \/ name = Managed(k, e.id)
  PROVE  CarriesIds(Put(fs, name, fs[e.source])) /\ Id(fs[e.source]) = e.id
<1> DEFINE new == Put(fs, name, fs[e.source])
<1>1. Id(fs[e.source]) = e.id
  BY DEF ByRun, CarriesIds
<1>2. ASSUME NEW q \in Runs, NEW n \in Nat, Source(q, n) \in DOMAIN new
      PROVE  Source(q, n) \in DOMAIN fs /\ new[Source(q, n)] = fs[Source(q, n)]
  <2>1. Source(q, n) # Managed(k, e.id)
    BY DEF Source, Managed
  <2>q. QED
    BY <1>2, <2>1 DEF Put
<1>q. QED
  BY <1>1, <1>2 DEF CarriesIds

\* The steps of a promoter, as entries go.
LEMMA PromoterIds ==
  ASSUME RunsInv, PromsInv, GoalsInv, OperatorsRest, IdsInv, site' = site, NEW p \in Promoters,
         \/ Begin(p) \/ Lock(p) \/ Keep(p, site.managed) \/ WriteTmp(p) \/ Replace(p) \/ Leave(p)
  PROVE  IdsInv'
<1>0. /\ DOMAIN rec = Promoters /\ PromShape(rec[p]) /\ IsSeq(registry)
      /\ \A q \in Promoters : q # p => rec'[q] = rec[q]
  BY DEF PromsInv, LockInv, PromInv, ListedInv, Begin, Lock, Keep, WriteTmp, Replace, Leave, To
<1>1. CarriesIds(files) /\ \A e : ByRun(e)' <=> ByRun(e)
  BY DEF IdsInv, ByRun, Promotes, Mode
<1>2. ASSUME registry' = registry, CarriesIds(files'),
             rec'[p].pc \in {"lock", "keep", "write", "replace"} => ByRun(rec'[p].entry),
             rec'[p].pc \in {"write", "replace"} => Id(rec'[p].entry.sum) = rec'[p].entry.id
      PROVE  IdsInv'
  <2>1. \A q \in Promoters :
          /\ rec'[q].pc \in {"lock", "keep", "write", "replace"} => ByRun(rec'[q].entry)
          /\ rec'[q].pc \in {"write", "replace"} => Id(rec'[q].entry.sum) = rec'[q].entry.id
    BY <1>0, <1>2 DEF IdsInv
  <2>2. \A i \in DOMAIN registry' :
          ByRun(registry'[i]) /\ Id(registry'[i].sum) = registry'[i].id
    BY <1>2 DEF IdsInv
  <2>q. QED
    BY <1>1, <1>2, <2>1, <2>2 DEF IdsInv
<1>3. CASE Begin(p)
  <2>1. rec'[p].pc = "gate" /\ UNCHANGED <<registry, files>>
    BY <1>0, <1>3 DEF Begin, PromShape
  <2>q. QED
    BY <1>1, <1>2, <2>1
<1>4. CASE Leave(p)
  <2>1. rec'[p].pc = "idle" /\ UNCHANGED <<registry, files>>
    BY <1>0, <1>4 DEF Leave, Idle
  <2>q. QED
    BY <1>1, <1>2, <2>1
<1>5. CASE Lock(p)
  <2>1. /\ rec[p].pc = "lock" /\ rec'[p].pc \in {"keep", "raised"} /\ rec'[p].entry = rec[p].entry
        /\ UNCHANGED <<registry, files>>
    BY <1>0, <1>5 DEF Lock, At, To, PromShape
  <2>2. ByRun(rec[p].entry)
    BY <2>1 DEF IdsInv
  <2>q. QED
    BY <1>1, <1>2, <2>1, <2>2
<1>6. CASE WriteTmp(p)
  <2>1. /\ rec[p].pc = "write" /\ rec'[p].pc = "replace" /\ rec'[p].entry = rec[p].entry
        /\ UNCHANGED <<registry, files>>
    BY <1>0, <1>6 DEF WriteTmp, At, To, PromShape
  <2>2. ByRun(rec[p].entry) /\ Id(rec[p].entry.sum) = rec[p].entry.id
    BY <2>1 DEF IdsInv
  <2>q. QED
    BY <1>1, <1>2, <2>1, <2>2
<1>7. CASE Keep(p, site.managed)
  <2> DEFINE source == rec[p].entry.source
             name == IF site.managed THEN Managed(Len(rec[p].seen) + 1, rec[p].entry.id) ELSE source
  <2>1. /\ rec[p].pc = "keep" /\ source \in DOMAIN files /\ registry' = registry
        /\ files' = Put(files, name, files[source])
        /\ rec'[p] = Kept(rec[p], name, files[source])
    BY <1>0, <1>7 DEF Keep, At, Kept
  <2>2. ByRun(rec[p].entry) /\ (name = source \/ name = Managed(Len(rec[p].seen) + 1, rec[p].entry.id))
    BY <2>1 DEF IdsInv
  <2> HIDE DEF name
  <2>3. CarriesIds(files') /\ Id(files[source]) = rec[p].entry.id
    BY <1>1, <2>1, <2>2, KeepCarries
  <2>4. /\ rec'[p].entry.source = source /\ rec'[p].entry.id = rec[p].entry.id
        /\ rec'[p].entry.sum = files[source]
    BY <1>0, <2>1, KeptShape
  <2>5. ByRun(rec'[p].entry)
    BY <2>2, <2>4 DEF ByRun
  <2>q. QED
    BY <1>2, <2>1, <2>3, <2>4, <2>5
<1>8. CASE Replace(p)
  <2>1. /\ registry' = Append(registry, rec[p].entry) /\ To(p, "recorded") /\ files' = files
        /\ rec[p].pc = "replace"
    BY <1>8, ReplaceIs
  <2>2. rec'[p].pc = "recorded"
    BY <1>0, <2>1 DEF To, PromShape
  <2>3. ByRun(rec[p].entry) /\ Id(rec[p].entry.sum) = rec[p].entry.id
    BY <2>1 DEF IdsInv
  <2>4. Len(registry) \in Nat /\ DOMAIN registry = 1 .. Len(registry)
    BY <1>0, SeqLen
  <2>5. /\ IsSeq(registry') /\ Len(registry') = Len(registry) + 1
        /\ \A i \in 1 .. Len(registry) : registry'[i] = registry[i]
        /\ registry'[Len(registry) + 1] = rec[p].entry
    BY <1>0, <2>1, AppendIs
  <2>6. DOMAIN registry' = 1 .. Len(registry) + 1
    BY <2>5, SeqLen
  <2>7. ASSUME NEW i \in DOMAIN registry'
        PROVE  ByRun(registry'[i]) /\ Id(registry'[i].sum) = registry'[i].id
    <3>1. CASE i = Len(registry) + 1
      BY <2>3, <2>5, <3>1
    <3>2. CASE i \in 1 .. Len(registry)
      BY <2>4, <2>5, <3>2 DEF IdsInv
    <3>q. QED
      BY <2>4, <2>6, <3>1, <3>2
  <2>8. \A q \in Promoters :
          /\ rec'[q].pc \in {"lock", "keep", "write", "replace"} => ByRun(rec'[q].entry)
          /\ rec'[q].pc \in {"write", "replace"} => Id(rec'[q].entry.sum) = rec'[q].entry.id
    BY <1>0, <2>2 DEF IdsInv
  <2>q. QED
    BY <1>1, <2>1, <2>7, <2>8 DEF IdsInv
<1>q. QED
  BY <1>3, <1>4, <1>5, <1>6, <1>7, <1>8

LEMMA NextIds ==
  ASSUME ~site.archiver, RunsInv, PromsInv, ManifestsInv, GoalsInv, OperatorsRest, IdsInv,
         [Next]_vars
  PROVE  IdsInv'
<1>0. site' = site /\ \A e : ByRun(e)' <=> ByRun(e)
  BY SiteStays DEF ByRun, Promotes, Mode
<1>1. CASE UNCHANGED <<registry, tmp, lock, files, rec>>
  BY <1>0, <1>1 DEF IdsInv
<1>2. ASSUME NEW r \in Runs, Train(r) PROVE IdsInv'
  <2>1. PICK made : files' = Put(files, Source(r, run[r].iter), [run |-> r, n |-> run[r].iter, made |-> made])
    BY <1>2 DEF Train
  <2>2. CarriesIds(files')
    BY <2>1, TrainCarries DEF IdsInv
  <2>3. UNCHANGED <<registry, rec>>
    BY <1>2 DEF Train
  <2>q. QED
    BY <1>0, <2>2, <2>3 DEF IdsInv
<1>3. ASSUME NEW p \in Promoters,
             \/ Begin(p) \/ Lock(p) \/ Keep(p, site.managed) \/ WriteTmp(p) \/ Replace(p) \/ Leave(p)
      PROVE  IdsInv'
  BY <1>0, <1>3, PromoterIds
<1>4. ASSUME NEW p \in Promoters, NEW r \in Runs, Judge(p, r), p \in Runs => p = r
      PROVE  IdsInv'
  <2>1. /\ DOMAIN rec = Promoters /\ PromShape(rec[p]) /\ rec[p].pc = "gate"
        /\ UNCHANGED <<registry, files>> /\ \A q \in Promoters : q # p => rec'[q] = rec[q]
    BY <1>4 DEF PromsInv, LockInv, PromInv, Judge, Gate, At
  <2>a. p = r /\ Promotes(r)
    <3>1. p \in Runs
      BY <2>1 DEF OperatorsRest, Promoters
    <3>2. run[r].pc = "promote"
      BY <1>4, <2>1, <3>1 DEF ManifestsInv, PromotesOwn
    <3>q. QED
      BY <1>4, <3>1, <3>2 DEF GoalsInv, Promotes
  <2> DEFINE m == Last(runman[r])
  <2>2. \E pc : rec'[p] = Judged(rec[p], pc, m.source, <<Base[r], m.n>>)
              /\ pc \in {"lock", "failed"}
    <3> DEFINE Sent(pc) == Judged(rec[p], pc, m.source, <<Base[r], m.n>>)
    <3>1. rec'[p] = Sent("lock") \/ rec'[p] = Sent("failed")
      BY <1>4, <2>1 DEF Judge, Gate, Judged
    <3>q. QED
      BY <3>1
  <2>3. PICK n \in Nat : m.n = n /\ m.source = Source(r, n)
    <3>1. Numbered(r, runman[r]) /\ runman[r] # <<>>
      BY <1>4 DEF RunsInv, RunInv, RunOk, Judge
    <3>2. Len(runman[r]) \in Nat /\ DOMAIN runman[r] = 1 .. Len(runman[r]) /\ Len(runman[r]) # 0
      BY <3>1, SeqLen, LenZero DEF Numbered
    <3>q. QED
      BY <3>1, <3>2 DEF Numbered, Last
  <2>4. PICK pc \in {"lock", "failed"} : rec'[p] = Judged(rec[p], pc, m.source, <<Base[r], m.n>>)
    BY <2>2
  <2>5. /\ rec'[p].pc \in {"lock", "failed"} /\ rec'[p].entry.source = m.source
        /\ rec'[p].entry.id = <<Base[r], m.n>>
    BY <2>1, <2>4, EntryShape
  <2>6. ByRun(rec'[p].entry)
    BY <2>a, <2>3, <2>5 DEF ByRun
  <2>7. \A q \in Promoters :
          /\ rec'[q].pc \in {"lock", "keep", "write", "replace"} => ByRun(rec'[q].entry)
          /\ rec'[q].pc \in {"write", "replace"} => Id(rec'[q].entry.sum) = rec'[q].entry.id
    BY <2>1, <2>5, <2>6 DEF IdsInv
  <2>q. QED
    BY <1>0, <2>1, <2>7 DEF IdsInv
<1>q. QED
  BY <1>1, <1>2, <1>3, <1>4, StepsWithoutArchiver

\* The registry changes only while the lone promoter replaces it.
LEMMA OnlyReplaces ==
  ASSUME ~site.archiver, Lone, RunsInv, PromsInv, ManifestsInv, GoalsInv, OperatorsRest,
         [Next]_vars, NEW r \in Runs, Mode(r) = "promote",
         run[r].pc = "publish" \/ (run[r].pc = "promote" /\ rec[r].pc \in {"idle", "gate"})
  PROVE  registry' = registry
<1>1. ASSUME NEW p \in Promoters, Replace(p) PROVE FALSE
  <2>1. rec[p].pc = "replace"
    BY <1>1 DEF Replace, At
  <2>2. p \in Runs
    BY <2>1 DEF OperatorsRest, Promoters
  <2>3. run[p].pc = "promote"
    BY <2>1, <2>2 DEF ManifestsInv, PromotesOwn
  <2>4. Promotes(p) /\ Promotes(r)
    BY <2>2, <2>3 DEF GoalsInv, Promotes
  <2>5. p = r
    BY <2>2, <2>4 DEF Lone
  <2>q. QED
    BY <2>1, <2>3, <2>5
<1>q. QED
  BY <1>1, StepsWithoutArchiver DEF Train, Begin, Lock, Keep, WriteTmp, Leave, Judge, Gate

\* The benchmark meets the champion: it is not the iteration that is being evaluated, which
\* no entry names yet.
LEMMA BenchIsChampion ==
  ASSUME Lone, RunsInv, PromsInv, GoalsInv, IdsInv, NEW r \in Runs, Mode(r) = "promote",
         run[r].pc = "evaluate", registry # <<>>, Loadable(Incumbent(r))
  PROVE  Bench(r) = Last(registry).id
<1> DEFINE e == Last(registry)
<1>1. IsSeq(registry) /\ Len(registry) \in Nat /\ DOMAIN registry = 1 .. Len(registry)
      /\ Len(registry) # 0
  BY SeqLen, LenZero DEF PromsInv, ListedInv
<1>2. Len(registry) \in DOMAIN registry /\ e = registry[Len(registry)]
  BY <1>1 DEF Last
<1>3. /\ Holds(e.file, e.sum) /\ Trained(e.source) /\ NamedAt(e, Len(registry))
      /\ ByRun(e) /\ Id(e.sum) = e.id
  BY <1>2 DEF PromsInv, ListedInv, IdsInv
<1> HIDE DEF e
<1>4. PICK q \in Runs, n \in Nat : Promotes(q) /\ e.source = Source(q, n) /\ e.id = <<Base[q], n>>
  BY <1>3 DEF ByRun
<1>5. q = r
  BY <1>4 DEF Lone, GoalsInv, Promotes
<1>6. n <= Len(runman[r])
  <2>1. PICK x \in Runs, k \in Nat : e.source = Source(x, k) /\ k <= Len(runman[x])
    BY <1>3 DEF Trained, TrainedBy
  <2>2. x = q /\ k = n
    BY <1>4, <2>1 DEF Source
  <2>q. QED
    BY <1>5, <2>1, <2>2
<1>7. n # run[r].iter
  <2>1. RunOk(r, run[r], iterman[r], runman[r]) /\ Len(runman[r]) \in Nat
        /\ Len(run[r].done) \in Nat /\ run[r].iter \in Nat
    BY RunLens
  <2>q. QED
    BY <1>6, <2>1 DEF RunOk
<1>8. e.id # <<Base[r], run[r].iter>>
  BY <1>4, <1>7
<1>9. e.file # None
  <2>1. Source(q, n) \in Names
    BY DEF Source, Names
  <2>2. Managed(Len(registry), e.id) \in Names
    <3>1. e.id \in Ids
      BY <1>4, PromotionAssumption DEF Ids
    <3>q. QED
      BY <1>1, <3>1 DEF Managed, Names
  <2>q. QED
    BY <1>3, <1>4, <2>1, <2>2, NamesAssumption DEF NamedAt
<1>10. Incumbent(r) = e.file
  BY DEF Incumbent, e
<1>11. Id(files[e.file]) = e.id
  BY <1>3 DEF Holds
<1>q. QED
  BY <1>8, <1>9, <1>10, <1>11 DEF Bench, e

LEMMA EvaluateMatchup ==
  ASSUME Lone, RunsInv, PromsInv, ManifestsInv, GoalsInv, IdsInv, NEW r \in Runs,
         Mode(r) = "promote", Evaluate(r)
  PROVE  MatchupOk(run'[r], rec'[r].pc, rec'[r].inc, registry)
<1>1. run[r].pc = "evaluate" /\ RunShape(run[r]) /\ r \in DOMAIN run
  BY DEF Evaluate, Pc, RunsInv, RunInv, RunOk
<1>2. CASE Dies(r)
  BY <1>1, <1>2 DEF Dies, Off, MatchupOk, Waits
<1>3. CASE ~Dies(r)
  <2>1. PICK measured \in MayMeasure(r), wins \in BOOLEAN :
          /\ measured => Loadable(Incumbent(r))
          /\ run' = [run EXCEPT ![r].pc = "publish", ![r].m = IterationManifest(r, measured, wins),
                             ![r].eval = @ + IterationManifest(r, measured, wins).evals]
    BY <1>3 DEF Evaluate
  <2> DEFINE m == IterationManifest(r, measured, wins)
  <2>2. m.evals > 0 => measured /\ m.bench = Bench(r)
    BY DEF IterationManifest, MayMeasure
  <2>3. run'[r].pc = "publish" /\ run'[r].m = m
    <3> HIDE DEF m
    <3>1. run'[r] = [run[r] EXCEPT !.pc = "publish", !.m = m, !.eval = @ + m.evals]
      BY <1>1, <2>1 DEF m
    <3>q. QED
      BY <1>1, <3>1 DEF RunShape
  <2> HIDE DEF m
  <2>4. m.evals > 0 /\ registry # <<>> => m.bench = Last(registry).id
    BY <1>1, <2>1, <2>2, BenchIsChampion
  <2>q. QED
    BY <2>3, <2>4 DEF MatchupOk, Waits
<1>q. QED
  BY <1>2, <1>3

\* Within its promotion a run reads the incumbent once, before the gate.
LEMMA PromoteMatchup ==
  ASSUME RunsInv, PromsInv, ManifestsInv, MatchupInv, NEW r \in Runs, Mode(r) = "promote",
         Promote(r)
  PROVE  MatchupOk(run'[r], rec'[r].pc, rec'[r].inc, registry)
<1>1. /\ run[r].pc = "promote" /\ run' = run /\ PromShape(rec[r]) /\ r \in DOMAIN rec
      /\ MatchupOk(run[r], rec[r].pc, rec[r].inc, registry)
  BY DEF Promote, Pc, runVars, PromsInv, PromInv, LockInv, Promoters, MatchupInv
<1>2. CASE Begin(r)
  <2>1. rec[r].pc = "idle" /\ rec'[r] = [rec[r] EXCEPT !.pc = "gate", !.inc = LatestId]
    BY <1>1, <1>2 DEF Begin, At
  <2>2. rec'[r].pc = "gate" /\ rec'[r].inc = LatestId
    BY <1>1, <2>1 DEF PromShape
  <2>3. registry # <<>> => LatestId = Last(registry).id
    BY DEF LatestId, Last
  <2>4. registry = <<>> => LatestId = None
    BY DEF LatestId
  <2>q. QED
    BY <1>1, <2>1, <2>2, <2>3, <2>4 DEF MatchupOk, Waits
<1>3. CASE ~Begin(r)
  <2>1. rec'[r].pc \notin {"idle", "gate"}
    <3>1. CASE Judge(r, r)
      <4>1. \E pc \in {"lock", "failed"} :
              rec'[r] = Judged(rec[r], pc, Last(runman[r]).source, <<Base[r], Last(runman[r]).n>>)
        <5> DEFINE Sent(pc) == Judged(rec[r], pc, Last(runman[r]).source, <<Base[r], Last(runman[r]).n>>)
        <5>1. rec'[r] = Sent("lock") \/ rec'[r] = Sent("failed")
          BY <1>1, <3>1 DEF Judge, Gate, Judged
        <5>q. QED
          BY <5>1
      <4>q. QED
        BY <1>1, <4>1, EntryShape
    <3>2. CASE Keep(r, site.managed)
      <4>1. PICK f, c : rec'[r] = Kept(rec[r], f, c)
        BY <1>1, <3>2 DEF Keep, Kept
      <4>q. QED
        BY <1>1, <4>1, KeptShape
    <3>3. CASE Lock(r) \/ WriteTmp(r) \/ Replace(r)
      BY <1>1, <3>3 DEF Lock, WriteTmp, Replace, To, PromShape
    <3>q. QED
      BY <1>3, <3>1, <3>2, <3>3 DEF Promote
  <2>q. QED
    BY <1>1, <2>1 DEF MatchupOk, Waits
<1>q. QED
  BY <1>2, <1>3

\* The other steps of the run itself.
LEMMA RestMatchup ==
  ASSUME RunsInv, PromsInv, ManifestsInv, MatchupInv, NEW r \in Runs, Mode(r) = "promote",
         \/ Start(r) \/ Collect(r) \/ Train(r) \/ WriteRun(r) \/ Decide(r) \/ Finish(r) \/ Dies(r)
  PROVE  MatchupOk(run'[r], rec'[r].pc, rec'[r].inc, registry)
<1>1. /\ RunShape(run[r]) /\ r \in DOMAIN run
      /\ MatchupOk(run[r], rec[r].pc, rec[r].inc, registry)
      /\ PromotesOwn(run[r], rec[r], iterman[r], registry)
  BY DEF RunsInv, RunInv, RunOk, MatchupInv, ManifestsInv
<1>2. CASE WriteRun(r)
  <2>1. /\ run[r].pc = "publish" /\ rec' = rec /\ run'[r].m = run[r].m
    BY <1>1, <1>2 DEF WriteRun, Pc, Enters, promotionVars, RunShape
  <2>2. rec[r].pc = "idle"
    BY <1>1, <2>1 DEF PromotesOwn
  <2>q. QED
    BY <1>1, <2>1, <2>2 DEF MatchupOk, Waits
<1>3. CASE \/ Start(r) \/ Collect(r) \/ Train(r) \/ Decide(r) \/ Finish(r) \/ Dies(r)
  <2>1. run'[r].pc \notin {"publish", "promote"}
    <3>1. CASE Start(r)
      BY <1>1, <3>1 DEF Start
    <3>2. CASE Collect(r) \/ Dies(r)
      BY <1>1, <3>2 DEF Collect, Enters, Dies, Off, RunShape
    <3>3. CASE Train(r)
      BY <1>1, <3>3 DEF Train, Enters, RunShape
    <3>4. CASE Finish(r)
      BY <1>1, <3>4 DEF Finish, Off, RunShape
    <3>5. CASE Decide(r)
      BY <1>1, <3>5 DEF Decide, RunShape
    <3>q. QED
      BY <1>3, <3>1, <3>2, <3>3, <3>4, <3>5
  <2>q. QED
    BY <2>1 DEF MatchupOk, Waits
<1>q. QED
  BY <1>2, <1>3

LEMMA NextMatchup ==
  ASSUME ~site.archiver, Lone, RunsInv, PromsInv, ManifestsInv, GateInv, [Next]_vars
  PROVE  MatchupInv'
<1>0. GoalsInv /\ OperatorsRest /\ IdsInv /\ MatchupInv /\ site' = site
  BY SiteStays DEF GateInv
<1>1. ASSUME NEW r \in Runs, Mode(r) = "promote"
      PROVE  MatchupOk(run'[r], rec'[r].pc, rec'[r].inc, registry')
  <2>1. CASE run'[r] = run[r] /\ rec'[r] = rec[r]
    <3>1. MatchupOk(run[r], rec[r].pc, rec[r].inc, registry)
      BY <1>0, <1>1 DEF MatchupInv
    <3>2. Waits(run[r], rec[r].pc) => registry' = registry
      BY <1>0, <1>1, OnlyReplaces DEF Waits
    <3>q. QED
      BY <2>1, <3>1, <3>2 DEF MatchupOk
  <2>2. ASSUME Start(r) \/ RunStep(r) \/ (Dies(r) /\ Leave(r))
        PROVE  MatchupOk(run'[r], rec'[r].pc, rec'[r].inc, registry')
    <3>1. CASE Promote(r)
      <4>1. MatchupOk(run'[r], rec'[r].pc, rec'[r].inc, registry)
        BY <1>0, <1>1, <3>1, PromoteMatchup
      <4>2. CASE Replace(r)
        <5>1. To(r, "recorded") /\ PromShape(rec[r]) /\ r \in DOMAIN rec
          BY <4>2, ReplaceIs DEF PromsInv, PromInv, LockInv, Promoters
        <5>2. rec'[r].pc = "recorded"
          BY <5>1 DEF To, PromShape
        <5>3. run' = run /\ run[r].pc = "promote"
          BY <3>1 DEF Promote, Pc, runVars
        <5>q. QED
          BY <5>2, <5>3 DEF MatchupOk, Waits
      <4>3. CASE ~Replace(r)
        <5>1. registry' = registry
          BY <3>1, <4>3 DEF Promote, Begin, Judge, Gate, Lock, Keep, WriteTmp
        <5>q. QED
          BY <4>1, <5>1
      <4>q. QED
        BY <4>2, <4>3
    <3>2. CASE Evaluate(r)
      <4>1. registry' = registry
        BY <3>2 DEF Evaluate, promotionVars
      <4>q. QED
        BY <1>0, <1>1, <3>2, <4>1, EvaluateMatchup
    <3>3. CASE \/ Start(r) \/ Collect(r) \/ Train(r) \/ WriteRun(r) \/ Decide(r) \/ Finish(r)
               \/ Dies(r) /\ Leave(r)
      <4>1. registry' = registry
        BY <3>3 DEF Start, Collect, Train, WriteRun, Decide, Finish, Leave, promotionVars
      <4>q. QED
        BY <1>0, <1>1, <3>3, <4>1, RestMatchup
    <3>q. QED
      BY <2>2, <3>1, <3>2, <3>3 DEF RunStep, Raises
  <2>3. ASSUME NEW q \in Runs, q # r,
               Start(q) \/ RunStep(q) \/ (Dies(q) /\ Leave(q) /\ UNCHANGED iterman)
        PROVE  run'[r] = run[r] /\ rec'[r] = rec[r]
    BY <2>3, RunStepsAlone DEF OthersStay
  <2>4. ASSUME \E o \in Operators : Command(o) \/ OperatorStep(o)
        PROVE  run'[r] = run[r] /\ rec'[r] = rec[r]
    BY <2>4, OperatorsAlone
  <2>5. CASE Crash
    <3>1. ASSUME NEW q \in Runs, Dies(q), Leave(q)
          PROVE  MatchupOk(run'[r], rec'[r].pc, rec'[r].inc, registry')
      <4>1. iterman' = iterman
        BY <2>5 DEF Crash
      <4>q. QED
        BY <2>1, <2>2, <2>3, <3>1, <4>1
    <3>2. CASE \E o \in Operators : Leave(o) /\ UNCHANGED run
      BY <2>1, <2>5, <3>2, OperatorsAlone DEF Crash
    <3>3. CASE ArchiverDies /\ UNCHANGED run
      BY <2>1, <3>3 DEF ArchiverDies
    <3>q. QED
      BY <2>5, <3>1, <3>2, <3>3 DEF Crash
  <2>6. CASE UNCHANGED vars
    BY <2>1, <2>6 DEF vars, promotionVars, runVars
  <2>q. QED
    BY <2>1, <2>2, <2>3, <2>4, <2>5, <2>6 DEF Next, Archiver
<1>2. \A r \in Runs : Mode(r)' = Mode(r)
  BY <1>0 DEF Mode
<1>q. QED
  BY <1>1, <1>2 DEF MatchupInv

\* While one run alone promotes, through crashes and resumptions, the gate never asks for a
\* matchup that its benchmark did not play: nothing is listed between the two, and what is
\* listed is never the iteration under evaluation.
THEOREM GateFindsItsMatchupHolds == Spec => []GateFindsItsMatchup
<1> DEFINE Alone == Lone /\ ~site.archiver
           Inv == IInv /\ (~site.archiver => ManifestsInv) /\ (Alone => GateInv)
<1>1. Init => Inv
  BY InitRuns, InitProms, InitManifests, InitGate DEF IInv, Lone
<1>2. Inv /\ [Next]_vars => Inv'
  <2> SUFFICES ASSUME Inv, [Next]_vars PROVE Inv'
    OBVIOUS
  <2>1. site' = site
    BY SiteStays
  <2>2. IInv' /\ (~site.archiver => ManifestsInv)'
    BY <2>1, NextRuns, NextProms, NextManifests DEF IInv
  <2>3. ASSUME Lone, ~site.archiver PROVE GateInv'
    <3>1. RunsInv /\ PromsInv /\ ManifestsInv /\ GateInv
      BY <2>3 DEF IInv
    <3>2. GoalsInv /\ OperatorsRest /\ IdsInv /\ LockInv
      BY <3>1 DEF GateInv, PromsInv
    <3>3. GoalsInv' /\ OperatorsRest' /\ IdsInv'
      BY <2>3, <3>1, <3>2, NextGoals, NextOperators, NextIds
    <3>4. MatchupInv'
      BY <2>3, <3>1, NextMatchup
    <3>q. QED
      BY <3>3, <3>4 DEF GateInv
  <2>4. Lone' <=> Lone
    BY <2>1 DEF Lone, Promotes, Mode
  <2>q. QED
    BY <2>1, <2>2, <2>3, <2>4
<1>3. Inv => GateFindsItsMatchup
  <2> SUFFICES ASSUME Inv, Lone, ~site.archiver, NEW r \in Runs, Pc(r, "promote"), At(r, "gate"),
                      run[r].m.evals > 0
               PROVE  rec[r].inc \in {None, run[r].m.bench}
    BY DEF GateFindsItsMatchup
  <2>1. GoalsInv /\ MatchupInv
    BY DEF GateInv
  <2>2. Mode(r) = "promote"
    BY <2>1 DEF GoalsInv, Pc
  <2>q. QED
    BY <2>1, <2>2 DEF MatchupInv, MatchupOk, Pc, At
<1>q. QED
  BY <1>1, <1>2, <1>3, PTL DEF Spec

--------------------------------------------------------------------------------
(* Sites with an archiver.  A copy is named by a sequence number and a     *)
(* policy id, and the name keeps both in the archive.  Constant operators  *)
(* over a world: the manifests and the files there are.                    *)

UpTo(S, m) == {j \in S : j <= m}

\* Going up by one adds the next number, if the set has it.
LEMMA UpToFacts ==
  ASSUME NEW n \in Nat, NEW S \in SUBSET (1 .. n)
  PROVE  /\ UpTo(S, n) = S /\ UpTo(S, 0) = {}
         /\ \A m \in Nat : Cardinality(UpTo(S, m)) \in Nat
         /\ \A m \in Nat \ {0} :
              Cardinality(UpTo(S, m)) = Cardinality(UpTo(S, m - 1)) + (IF m \in S THEN 1 ELSE 0)
<1>1. \A j \in S : j \in Int /\ 1 <= j /\ j <= n
  OBVIOUS
<1>2. UpTo(S, n) = S /\ UpTo(S, 0) = {}
  <2>1. UpTo(S, n) = S
    BY <1>1 DEF UpTo
  <2>2. ASSUME NEW j \in S PROVE ~(j <= 0)
    BY <1>1
  <2>3. UpTo(S, 0) = {}
    BY <2>2 DEF UpTo
  <2>q. QED
    BY <2>1, <2>3
<1>3. IsFiniteSet(S)
  <2>1. IsFiniteSet(1 .. n)
    BY FS_Interval
  <2>q. QED
    BY <2>1, FS_Subset
<1>4. ASSUME NEW m \in Nat PROVE IsFiniteSet(UpTo(S, m)) /\ Cardinality(UpTo(S, m)) \in Nat
  <2>1. UpTo(S, m) \in SUBSET S
    BY DEF UpTo
  <2>2. IsFiniteSet(UpTo(S, m))
    BY <1>3, <2>1, FS_Subset
  <2>q. QED
    BY <2>2, FS_CardinalityType
<1>5. ASSUME NEW m \in Nat \ {0}
      PROVE  Cardinality(UpTo(S, m)) = Cardinality(UpTo(S, m - 1)) + (IF m \in S THEN 1 ELSE 0)
  <2>1. m - 1 \in Nat /\ \A j \in S : j <= m <=> j = m \/ j <= m - 1
    BY <1>1
  <2>2. IsFiniteSet(UpTo(S, m - 1)) /\ Cardinality(UpTo(S, m - 1)) \in Nat
    BY <1>4, <2>1
  <2>3. CASE m \in S
    <3>1. UpTo(S, m) = UpTo(S, m - 1) \cup {m}
      <4>1. m <= m
        OBVIOUS
      <4>q. QED
        BY <2>1, <2>3, <4>1 DEF UpTo
    <3>2. m \notin UpTo(S, m - 1)
      BY DEF UpTo
    <3>3. Cardinality(UpTo(S, m - 1) \cup {m}) = Cardinality(UpTo(S, m - 1)) + 1
      BY <2>2, <3>2, FS_AddElement
    <3>q. QED
      BY <2>3, <3>1, <3>3
  <2>4. CASE m \notin S
    <3>1. UpTo(S, m) = UpTo(S, m - 1)
      BY <2>1, <2>4 DEF UpTo
    <3>q. QED
      BY <2>2, <2>4, <3>1
  <2>q. QED
    BY <2>3, <2>4
<1>q. QED
  BY <1>2, <1>4, <1>5

\* Ascending lists a set of positions in order: up to its k-th number there are k of them.
LEMMA AscendingIn ==
  ASSUME NEW n \in Nat, NEW S \in SUBSET (1 .. n), NEW k \in 1 .. Cardinality(S)
  PROVE  Ascending(S)[k] \in S /\ Cardinality(UpTo(S, Ascending(S)[k])) = k
<1> DEFINE T == {m \in Nat : Cardinality(UpTo(S, m)) >= k}
<1>1. k \in Nat /\ k >= 1 /\ Cardinality(S) \in Nat /\ k <= Cardinality(S)
  <2>1. Cardinality(UpTo(S, n)) \in Nat /\ UpTo(S, n) = S
    BY UpToFacts
  <2>q. QED
    BY <2>1
<1>2. n \in T
  <2>1. UpTo(S, n) = S
    BY UpToFacts
  <2>q. QED
    BY <1>1, <2>1
<1>3. PICK m \in T : \A y \in T : ~(<<y, m>> \in OpToRel(<, Nat))
  <2>1. T \subseteq Nat
    OBVIOUS
  <2> HIDE DEF T
  <2>q. QED
    BY <1>2, <2>1, NatLessThanWellFounded, WFMin
<1>4. m # 0
  <2>1. UpTo(S, 0) = {}
    BY UpToFacts
  <2>2. Cardinality(UpTo(S, 0)) = 0
    BY <2>1, FS_EmptySet
  <2>q. QED
    BY <1>1, <2>2
<1>5. m \in Nat \ {0} /\ m - 1 \in Nat /\ m - 1 < m
  BY <1>4
<1>6. Cardinality(UpTo(S, m - 1)) \in Nat /\ Cardinality(UpTo(S, m - 1)) < k
  <2>1. m - 1 \notin T
    BY <1>3, <1>5 DEF OpToRel
  <2>2. Cardinality(UpTo(S, m - 1)) \in Nat
    BY <1>5, UpToFacts
  <2>q. QED
    BY <1>1, <1>5, <2>1, <2>2
<1>7. m \in S /\ Cardinality(UpTo(S, m)) = k
  <2>1. Cardinality(UpTo(S, m)) = Cardinality(UpTo(S, m - 1)) + (IF m \in S THEN 1 ELSE 0)
    BY <1>5, UpToFacts
  <2>2. Cardinality(UpTo(S, m)) >= k
    OBVIOUS
  <2>q. QED
    BY <1>1, <1>6, <2>1, <2>2
<1>8. \E i \in S : Cardinality({j \in S : j <= i}) = k
  BY <1>7 DEF UpTo
<1>9. Ascending(S)[k] = CHOOSE i \in S : Cardinality({j \in S : j <= i}) = k
  BY DEF Ascending
<1> DEFINE p == CHOOSE i \in S : Cardinality({j \in S : j <= i}) = k
<1>10. p \in S /\ Cardinality({j \in S : j <= p}) = k
  BY <1>8
<1>q. QED
  BY <1>9, <1>10 DEF UpTo

World == [managed |-> site.managed, ms |-> runman, fs |-> files]

CopyNames(key) == {[at |-> "copy", key |-> key], [at |-> "archive", key |-> key]}
IsCopy(f) == f \in CopyNames(f.key)
Present(w, key) == \E f \in CopyNames(key) : f \in DOMAIN w.fs
PresentId(w, id) == \E key : Present(w, key) /\ key[2] = id

\* A checkpoint that may be promoted, and the id it is promoted under.
Origin(w, source, id) ==
  \E r \in Runs : \E n \in 1 .. Len(w.ms[r]) : source = Source(r, n) /\ id = <<Base[r], n>>

\* Every copy, archived or not, is of a checkpoint of its id that is still there.
CopiesOk(w) ==
  \A f \in DOMAIN w.fs : IsCopy(f) =>
    \E source \in DOMAIN w.fs : Origin(w, source, f.key[2]) /\ w.fs[f] = w.fs[source]

EntryOk(w, e) ==
  /\ e = [source |-> e.source, id |-> e.id, file |-> e.file, sum |-> e.sum]
  /\ Origin(w, e.source, e.id) /\ e.source \in DOMAIN w.fs /\ e.sum = w.fs[e.source]
  /\ w.managed => IsCopy(e.file) /\ Present(w, e.file.key) /\ PresentId(w, e.id)
  /\ ~w.managed => e.file = e.source

ListOk(w, es) == IsSeq(es) /\ \A i \in DOMAIN es : EntryOk(w, es[i])

PromOk(w, s) ==
  /\ PromShape(s)
  /\ s.pc \in {"lock", "keep", "write", "replace"} => Origin(w, s.entry.source, s.entry.id)
  /\ s.pc \in {"keep", "write", "replace"} => ListOk(w, s.seen)
  /\ s.pc \in {"write", "replace"} => EntryOk(w, s.entry)

JobOk(w, job) == job.from = [at |-> "copy", key |-> job.from.key] /\ Present(w, job.from.key)
JobsOk(w, jobs) == IsSeq(jobs) /\ \A k \in DOMAIN jobs : JobOk(w, jobs[k])

BatchOk(w, a) ==
  /\ a = [pc |-> a.pc, todo |-> a.todo, moved |-> a.moved, seen |-> a.seen]
  /\ a.pc = "idle" => a = NoBatch
  /\ a.pc # "idle" => w.managed
  /\ JobsOk(w, a.todo) /\ JobsOk(w, a.moved)
  /\ a.pc \in {"write", "replace"} => ListOk(w, a.seen)

\* What no step of anybody takes away.
WorldGoes ==
  /\ World'.managed = World.managed
  /\ \A source, id : Origin(World, source, id) =>
       /\ Origin(World', source, id)
       /\ source \in DOMAIN World.fs =>
            source \in DOMAIN World'.fs /\ World'.fs[source] = World.fs[source]
  /\ \A key : Present(World, key) => Present(World', key)

LEMMA EntryGoes ==
  ASSUME WorldGoes, NEW e, EntryOk(World, e) PROVE EntryOk(World', e)
<1>1. PresentId(World, e.id) => PresentId(World', e.id)
  BY DEF WorldGoes, PresentId
<1>q. QED
  BY <1>1 DEF WorldGoes, EntryOk

LEMMA ListGoes ==
  ASSUME WorldGoes, NEW es, ListOk(World, es) PROVE ListOk(World', es)
  BY EntryGoes DEF ListOk

LEMMA PromGoes ==
  ASSUME WorldGoes, NEW s, PromOk(World, s) PROVE PromOk(World', s)
  BY EntryGoes, ListGoes DEF PromOk, WorldGoes

LEMMA JobsGo ==
  ASSUME WorldGoes, NEW jobs, JobsOk(World, jobs) PROVE JobsOk(World', jobs)
  BY DEF JobsOk, JobOk, WorldGoes

LEMMA BatchGoes ==
  ASSUME WorldGoes, NEW a, BatchOk(World, a) PROVE BatchOk(World', a)
  BY JobsGo, ListGoes DEF BatchOk, WorldGoes

LEMMA WorldIs ==
  /\ World.managed = site.managed /\ World.ms = runman /\ World.fs = files
  /\ World'.managed = site'.managed /\ World'.ms = runman' /\ World'.fs = files'
  BY DEF World

LEMMA CopyIs ==
  ASSUME NEW key, NEW f \in CopyNames(key)
  PROVE  /\ f.key = key /\ IsCopy(f) /\ f.at \in {"copy", "archive"}
         /\ \A r, n : f # Source(r, n)
  BY DEF CopyNames, IsCopy, Source

LEMMA OriginIs ==
  ASSUME NEW w, NEW source, NEW id, Origin(w, source, id)
  PROVE  ~IsCopy(source) /\ \A key : source \notin CopyNames(key)
<1>1. PICK r, n : source = Source(r, n)
  BY DEF Origin
<1>2. \A key : source \notin CopyNames(key)
  BY <1>1, CopyIs
<1>q. QED
  BY <1>2 DEF IsCopy

LEMMA OriginGoes ==
  ASSUME RunsInv, RunsInv', RunsGrow, NEW source, NEW id, Origin(World, source, id)
  PROVE  Origin(World', source, id)
<1>1. PICK r \in Runs : \E n \in 1 .. Len(runman[r]) : source = Source(r, n) /\ id = <<Base[r], n>>
  BY WorldIs DEF Origin
<1>2. PICK n \in 1 .. Len(runman[r]) : source = Source(r, n) /\ id = <<Base[r], n>>
  BY <1>1
<1>3. Len(runman[r]) \in Nat /\ Len(runman'[r]) \in Nat /\ Len(runman[r]) <= Len(runman'[r])
  BY SeqLen DEF RunsInv, RunInv, RunOk, Numbered, RunsGrow
<1>4. n \in 1 .. Len(runman'[r])
  BY <1>3
<1>q. QED
  BY <1>2, <1>4, WorldIs DEF Origin

LEMMA SameFiles ==
  ASSUME RunsInv, RunsInv', RunsGrow, site' = site, CopiesOk(World), files' = files
  PROVE  WorldGoes /\ CopiesOk(World')
<1>1. WorldGoes
  BY OriginGoes, WorldIs DEF WorldGoes, Present
<1>2. CopiesOk(World')
  BY OriginGoes, WorldIs DEF CopiesOk
<1>q. QED
  BY <1>1, <1>2

\* A file is written that is no promoted checkpoint, or as it was; if it is a copy, then
\* of a checkpoint with its id.
LEMMA PutFiles ==
  ASSUME RunsInv, RunsInv', RunsGrow, site' = site, CopiesOk(World), NEW f, NEW c,
         files' = Put(files, f, c),
         \A source, id : Origin(World, source, id) /\ source \in DOMAIN files /\ source = f
           => files[f] = c,
         IsCopy(f) => \E source \in DOMAIN files :
                        Origin(World, source, f.key[2]) /\ c = files[source]
  PROVE  WorldGoes /\ CopiesOk(World')
<1>1. /\ \A g \in DOMAIN files : g \in DOMAIN files' /\ (g # f => files'[g] = files[g])
      /\ f \in DOMAIN files' /\ files'[f] = c
      /\ \A g \in DOMAIN files' : g = f \/ g \in DOMAIN files
  BY DEF Put
<1>2. ASSUME NEW source, NEW id, Origin(World, source, id), source \in DOMAIN files
      PROVE  source \in DOMAIN files' /\ files'[source] = files[source]
  BY <1>1, <1>2
<1>3. WorldGoes
  BY <1>1, <1>2, OriginGoes, WorldIs DEF WorldGoes, Present
<1>4. ASSUME NEW g \in DOMAIN files', IsCopy(g)
      PROVE  \E source \in DOMAIN files' : Origin(World', source, g.key[2]) /\ files'[g] = files'[source]
  <2>1. \E source \in DOMAIN files : Origin(World, source, g.key[2]) /\ files'[g] = files[source]
    BY <1>1, <1>4, WorldIs DEF CopiesOk
  <2>q. QED
    BY <1>2, <2>1, OriginGoes
<1>q. QED
  BY <1>3, <1>4, WorldIs DEF CopiesOk

\* A copy is moved to its other name.
LEMMA MovedFiles ==
  ASSUME RunsInv, RunsInv', RunsGrow, site' = site, CopiesOk(World),
         NEW key, NEW x \in CopyNames(key), NEW y \in CopyNames(key), x \in DOMAIN files,
         files' = Moved(files, x, y)
  PROVE  WorldGoes /\ CopiesOk(World')
<1>1. /\ \A g \in DOMAIN files : g # x /\ g # y => g \in DOMAIN files' /\ files'[g] = files[g]
      /\ y \in DOMAIN files' /\ files'[y] = files[x]
      /\ \A g \in DOMAIN files' : g = y \/ (g \in DOMAIN files /\ g # x)
      /\ x.key = key /\ y.key = key /\ IsCopy(x)
  BY CopyIs DEF Moved
<1>2. ASSUME NEW source, NEW id, Origin(World, source, id), source \in DOMAIN files
      PROVE  source \in DOMAIN files' /\ files'[source] = files[source]
  BY <1>1, <1>2, OriginIs
<1>3. ASSUME NEW k, Present(World, k) PROVE Present(World', k)
  <2>1. PICK g \in CopyNames(k) : g \in DOMAIN files
    BY <1>3, WorldIs DEF Present
  <2>2. CASE g = x
    BY <1>1, <2>1, <2>2, CopyIs, WorldIs DEF Present
  <2>3. CASE g # x
    BY <1>1, <2>1, <2>3, WorldIs DEF Present
  <2>q. QED
    BY <2>2, <2>3
<1>4. WorldGoes
  BY <1>2, <1>3, OriginGoes, WorldIs DEF WorldGoes
<1>5. ASSUME NEW g \in DOMAIN files', IsCopy(g)
      PROVE  \E source \in DOMAIN files' : Origin(World', source, g.key[2]) /\ files'[g] = files'[source]
  <2>1. \E source \in DOMAIN files : Origin(World, source, g.key[2]) /\ files'[g] = files[source]
    <3>1. CASE g = y
      BY <1>1, <3>1, WorldIs DEF CopiesOk
    <3>2. CASE g # y
      BY <1>1, <1>5, <3>2, WorldIs DEF CopiesOk
    <3>q. QED
      BY <3>1, <3>2
  <2>q. QED
    BY <1>2, <2>1, OriginGoes
<1>q. QED
  BY <1>4, <1>5, WorldIs DEF CopiesOk

LEMMA AppendOk ==
  ASSUME NEW w, NEW es, NEW e, ListOk(w, es), EntryOk(w, e)
  PROVE  ListOk(w, Append(es, e))
<1>1. IsSeq(es)
  BY DEF ListOk
<1>2. DOMAIN es = 1 .. Len(es) /\ Len(es) \in Nat
  BY <1>1, SeqLen
<1>3. /\ IsSeq(Append(es, e)) /\ Len(Append(es, e)) = Len(es) + 1
      /\ \A i \in 1 .. Len(es) : Append(es, e)[i] = es[i]
      /\ Append(es, e)[Len(es) + 1] = e
  BY <1>1, AppendIs
<1>4. DOMAIN Append(es, e) = 1 .. Len(es) + 1
  BY <1>3, SeqLen
<1>5. ASSUME NEW i \in 1 .. Len(es) + 1 PROVE EntryOk(w, Append(es, e)[i])
  <2>1. CASE i \in 1 .. Len(es)
    BY <1>2, <1>3, <2>1 DEF ListOk
  <2>2. CASE i = Len(es) + 1
    BY <1>3, <2>2
  <2>q. QED
    BY <1>2, <2>1, <2>2
<1>q. QED
  BY <1>3, <1>4, <1>5 DEF ListOk

LEMMA FunIs ==
  ASSUME NEW f, NEW n \in Nat, f = [k \in 1 .. n |-> f[k]]
  PROVE  IsSeq(f) /\ Len(f) = n /\ DOMAIN f = 1 .. n
<1>1. DOMAIN f = 1 .. n
  OBVIOUS
<1>2. f \in [1 .. n -> Elements(f)]
  BY <1>1 DEF Elements
<1>3. f \in Seq(Elements(f))
  BY <1>2, SeqDef
<1>q. QED
  BY <1>1, <1>3, LenProperties DEF IsSeq

\* The files a batch still has to move, has moved, and has not moved back.
LEMMA JobsHeadTail ==
  ASSUME NEW w, NEW jobs, JobsOk(w, jobs), jobs # <<>>
  PROVE  JobOk(w, Head(jobs)) /\ JobsOk(w, Tail(jobs)) /\ Head(jobs) = jobs[1]
         /\ DOMAIN Tail(jobs) = 1 .. Len(jobs) - 1 /\ Len(jobs) \in Nat /\ 1 \in DOMAIN jobs
         /\ \A k \in DOMAIN Tail(jobs) : k + 1 \in DOMAIN jobs /\ Tail(jobs)[k] = jobs[k + 1]
<1>1. IsSeq(jobs) /\ Len(jobs) \in Nat /\ DOMAIN jobs = 1 .. Len(jobs) /\ Len(jobs) # 0
  BY SeqLen, LenZero DEF JobsOk
<1>2. /\ Head(jobs) = jobs[1] /\ Tail(jobs) \in Seq(Elements(jobs))
      /\ Len(Tail(jobs)) = Len(jobs) - 1
      /\ \A k \in 1 .. Len(Tail(jobs)) : Tail(jobs)[k] = jobs[k + 1]
  BY <1>1, HeadTailProperties DEF IsSeq
<1>3. IsSeq(Tail(jobs))
  BY <1>2, SeqIs
<1>4. DOMAIN Tail(jobs) = 1 .. Len(jobs) - 1
  BY <1>2, <1>3, SeqLen
<1>5. \A k \in 1 .. Len(jobs) - 1 : k + 1 \in 1 .. Len(jobs) /\ Tail(jobs)[k] = jobs[k + 1]
  BY <1>1, <1>2
<1>6. 1 \in 1 .. Len(jobs)
  BY <1>1
<1>q. QED
  BY <1>1, <1>2, <1>3, <1>4, <1>5, <1>6 DEF JobsOk

LEMMA JobsAppend ==
  ASSUME NEW w, NEW jobs, NEW job, JobsOk(w, jobs), JobOk(w, job)
  PROVE  JobsOk(w, Append(jobs, job))
<1>1. IsSeq(jobs)
  BY DEF JobsOk
<1>2. DOMAIN jobs = 1 .. Len(jobs) /\ Len(jobs) \in Nat
  BY <1>1, SeqLen
<1>3. /\ IsSeq(Append(jobs, job)) /\ Len(Append(jobs, job)) = Len(jobs) + 1
      /\ \A i \in 1 .. Len(jobs) : Append(jobs, job)[i] = jobs[i]
      /\ Append(jobs, job)[Len(jobs) + 1] = job
  BY <1>1, AppendIs
<1>4. DOMAIN Append(jobs, job) = 1 .. Len(jobs) + 1
  BY <1>3, SeqLen
<1>5. ASSUME NEW i \in 1 .. Len(jobs) + 1 PROVE JobOk(w, Append(jobs, job)[i])
  <2>1. CASE i \in 1 .. Len(jobs)
    BY <1>2, <1>3, <2>1 DEF JobsOk
  <2>2. CASE i = Len(jobs) + 1
    BY <1>3, <2>2
  <2>q. QED
    BY <1>2, <2>1, <2>2
<1>q. QED
  BY <1>3, <1>4, <1>5 DEF JobsOk

LEMMA JobsFront ==
  ASSUME NEW w, NEW jobs, JobsOk(w, jobs), Len(jobs) # 0
  PROVE  JobOk(w, jobs[Len(jobs)]) /\ JobsOk(w, SubSeq(jobs, 1, Len(jobs) - 1))
<1> DEFINE n == Len(jobs)
           front == SubSeq(jobs, 1, n - 1)
<1>1. IsSeq(jobs) /\ n \in Nat /\ DOMAIN jobs = 1 .. n /\ n # 0
  BY SeqLen DEF JobsOk
<1>2. n \in 1 .. n /\ 1 \in 1 .. n + 1 /\ n - 1 \in 0 .. n /\ n - 1 \in Nat
  BY <1>1
<1>3. /\ front \in Seq(Elements(jobs))
      /\ Len(front) = IF 1 <= n - 1 THEN n - 1 - 1 + 1 ELSE 0
      /\ \A i \in 1 .. n - 1 - 1 + 1 : front[i] = jobs[1 + i - 1]
  <2>1. jobs \in Seq(Elements(jobs))
    BY <1>1 DEF IsSeq
  <2> HIDE DEF n, front
  <2>2. SubSeq(jobs, 1, n - 1) = front
    BY DEF front
  <2>q. QED
    BY <1>2, <2>1, <2>2, SubSeqProperties DEF n
<1> HIDE DEF n, front
<1>4. IsSeq(front) /\ Len(front) = n - 1
  BY <1>1, <1>2, <1>3, SeqIs
<1>5. DOMAIN front = 1 .. n - 1
  BY <1>4, SeqLen
<1>6. ASSUME NEW k \in 1 .. n - 1 PROVE front[k] = jobs[k] /\ k \in 1 .. n
  <2>1. k \in 1 .. n - 1 - 1 + 1 /\ 1 + k - 1 = k /\ k \in 1 .. n
    BY <1>1, <1>2
  <2>q. QED
    BY <1>3, <2>1
<1>7. JobOk(w, jobs[n])
  BY <1>1, <1>2 DEF JobsOk
<1>8. JobsOk(w, front)
  BY <1>1, <1>4, <1>5, <1>6 DEF JobsOk
<1>q. QED
  BY <1>7, <1>8 DEF n, front

LEMMA ArchivedIs ==
  ASSUME NEW w, NEW job, JobOk(w, job)
  PROVE  /\ Archived(job.from) \in CopyNames(job.from.key)
         /\ job.from \in CopyNames(job.from.key)
         /\ Archived(job.from).key = job.from.key
         /\ IsCopy(Archived(job.from))
<1>1. job.from \in [at : {"copy"}, key : {job.from.key}]
  BY DEF JobOk
<1>2. Archived(job.from) = [at |-> "archive", key |-> job.from.key]
  BY <1>1 DEF Archived
<1>3. job.from = [at |-> "copy", key |-> job.from.key]
  BY DEF JobOk
<1>q. QED
  BY <1>2, <1>3 DEF CopyNames, IsCopy

\* The rewritten entries name what was moved by its new name.
LEMMA MovedToIs ==
  ASSUME NEW w, NEW es, NEW jobs, ListOk(w, es), JobsOk(w, jobs)
  PROVE  /\ DOMAIN MovedTo(es, jobs) = DOMAIN es
         /\ IsSeq(MovedTo(es, jobs)) /\ Len(MovedTo(es, jobs)) = Len(es)
         /\ \A i \in DOMAIN es :
              LET e == MovedTo(es, jobs)[i]
              IN  \/ e = es[i]
                  \/ \E k \in DOMAIN jobs : jobs[k].seq = i
                       /\ e = [es[i] EXCEPT !.file = Archived(jobs[k].from)]
<1>1. IsSeq(es) /\ Len(es) \in Nat /\ DOMAIN es = 1 .. Len(es)
  BY SeqLen DEF ListOk
<1>2. /\ DOMAIN MovedTo(es, jobs) = DOMAIN es
      /\ MovedTo(es, jobs) = [i \in DOMAIN es |-> MovedTo(es, jobs)[i]]
  BY DEF MovedTo
<1>3. IsSeq(MovedTo(es, jobs)) /\ Len(MovedTo(es, jobs)) = Len(es)
  BY <1>1, <1>2, FunIs
<1>4. ASSUME NEW i \in DOMAIN es, \E k \in DOMAIN jobs : jobs[k].seq = i
      PROVE  \E k \in DOMAIN jobs : jobs[k].seq = i
               /\ MovedTo(es, jobs)[i] = [es[i] EXCEPT !.file = Archived(jobs[k].from)]
  <2> DEFINE k == CHOOSE k \in DOMAIN jobs : jobs[k].seq = i
  <2>1. k \in DOMAIN jobs /\ jobs[k].seq = i
    BY <1>4
  <2>2. MovedTo(es, jobs)[i] = [es[i] EXCEPT !.file = Archived(jobs[k].from)]
    BY <1>4 DEF MovedTo
  <2>q. QED
    BY <2>1, <2>2
<1>5. ASSUME NEW i \in DOMAIN es, ~(\E k \in DOMAIN jobs : jobs[k].seq = i)
      PROVE  MovedTo(es, jobs)[i] = es[i]
  BY <1>5 DEF MovedTo
<1>q. QED
  BY <1>2, <1>3, <1>4, <1>5

LEMMA MovedToOk ==
  ASSUME NEW w, w.managed, NEW es, NEW jobs, ListOk(w, es), JobsOk(w, jobs)
  PROVE  /\ ListOk(w, MovedTo(es, jobs))
         /\ \A i \in DOMAIN es : MovedTo(es, jobs)[i].id = es[i].id
<1>1. ASSUME NEW e, EntryOk(w, e), NEW f, IsCopy(f), Present(w, f.key)
      PROVE  EntryOk(w, [e EXCEPT !.file = f]) /\ [e EXCEPT !.file = f].id = e.id
  <2>1. e \in [source : {e.source}, id : {e.id}, file : {e.file}, sum : {e.sum}]
    BY <1>1 DEF EntryOk
  <2>2. [e EXCEPT !.file = f] = [source |-> e.source, id |-> e.id, file |-> f, sum |-> e.sum]
    BY <2>1
  <2>q. QED
    BY <1>1, <2>2 DEF EntryOk
<1>2. ASSUME NEW i \in DOMAIN es
      PROVE  EntryOk(w, MovedTo(es, jobs)[i]) /\ MovedTo(es, jobs)[i].id = es[i].id
  <2>0. \/ MovedTo(es, jobs)[i] = es[i]
        \/ \E k \in DOMAIN jobs :
             MovedTo(es, jobs)[i] = [es[i] EXCEPT !.file = Archived(jobs[k].from)]
    BY MovedToIs
  <2>1. EntryOk(w, es[i])
    BY DEF ListOk
  <2>2. CASE MovedTo(es, jobs)[i] = es[i]
    BY <2>1, <2>2
  <2>3. ASSUME NEW k \in DOMAIN jobs,
               MovedTo(es, jobs)[i] = [es[i] EXCEPT !.file = Archived(jobs[k].from)]
        PROVE  EntryOk(w, MovedTo(es, jobs)[i]) /\ MovedTo(es, jobs)[i].id = es[i].id
    <3>1. IsCopy(Archived(jobs[k].from)) /\ Present(w, Archived(jobs[k].from).key)
      BY ArchivedIs DEF JobsOk, JobOk
    <3>q. QED
      BY <1>1, <2>1, <2>3, <3>1
  <2>q. QED
    BY <2>0, <2>2, <2>3
<1>q. QED
  BY <1>2, MovedToIs DEF ListOk

HeldInv ==
  LockInv /\ \A p \in Promoters : rec[p].pc \in {"keep", "write", "replace"} => p \in lock

ListsInv == ListOk(World, registry) /\ \A contents \in tmp : ListOk(World, contents)

\* What anybody has listed, is about to list, or moves: its checkpoint is there, and a copy.
CopyInv ==
  /\ CopiesOk(World) /\ ListsInv /\ HeldInv
  /\ \A p \in Promoters : PromOk(World, rec[p])
  /\ BatchOk(World, arch)

LEMMA InitCopies == Init => CopyInv
<1> SUFFICES ASSUME Init PROVE CopyInv
  OBVIOUS
<1>1. /\ registry = <<>> /\ tmp = {} /\ lock = {} /\ files = <<>> /\ arch = NoBatch
      /\ DOMAIN rec = Promoters /\ \A p \in Promoters : rec[p] = Idle
  BY DEF Init, PromotionInit
<1>2. ListOk(World, registry) /\ JobsOk(World, <<>>)
  BY <1>1, EmptyIs DEF ListOk, JobsOk
<1>3. CopiesOk(World)
  BY <1>1, EmptyIs, WorldIs DEF CopiesOk
<1>4. PromOk(World, Idle)
  BY DEF PromOk, PromShape, Idle, NoEntry
<1>5. BatchOk(World, NoBatch)
  BY <1>2 DEF BatchOk, NoBatch
<1>q. QED
  BY <1>1, <1>2, <1>3, <1>4, <1>5 DEF CopyInv, ListsInv, HeldInv, LockInv, Idle

\* Steps that leave the promoters alone.
LEMMA ArchiverCopies ==
  ASSUME WorldGoes, CopiesOk(World'), CopyInv, UNCHANGED <<rec, lock>>,
         BatchOk(World', arch'), ListsInv'
  PROVE  CopyInv'
<1>1. \A p \in Promoters : PromOk(World', rec'[p])
  BY PromGoes DEF CopyInv
<1>2. HeldInv'
  BY DEF CopyInv, HeldInv, LockInv
<1>q. QED
  BY <1>1, <1>2 DEF CopyInv

LEMMA ListsGo ==
  ASSUME WorldGoes, CopyInv, UNCHANGED <<registry, tmp>> PROVE ListsInv'
  BY ListGoes DEF CopyInv, ListsInv

LEMMA StillCopies ==
  ASSUME WorldGoes, CopiesOk(World'), CopyInv, UNCHANGED <<registry, tmp, lock, rec, arch>>
  PROVE  CopyInv'
  BY ListsGo, ArchiverCopies, BatchGoes DEF CopyInv

\* Steps of promoter p.
LEMMA PromoterCopies ==
  ASSUME WorldGoes, CopiesOk(World'), CopyInv, NEW p \in Promoters,
         DOMAIN rec' = DOMAIN rec, \A q \in Promoters : q # p => rec'[q] = rec[q],
         arch' = arch, PromOk(World', rec'[p]),
         \A x, y \in lock' : x = y, \A q \in lock : q # p => q \in lock',
         rec'[p].pc \in {"keep", "write", "replace"} => p \in lock',
         ListsInv'
  PROVE  CopyInv'
<1>1. \A q \in Promoters : PromOk(World', rec'[q])
  BY PromGoes DEF CopyInv
<1>2. HeldInv'
  BY DEF CopyInv, HeldInv, LockInv
<1>3. BatchOk(World', arch')
  BY BatchGoes DEF CopyInv
<1>q. QED
  BY <1>1, <1>2, <1>3 DEF CopyInv

\* What a step of promoter p finds.
LEMMA CopyFacts ==
  ASSUME CopyInv, NEW p \in Promoters
  PROVE  /\ DOMAIN rec = Promoters /\ PromShape(rec[p]) /\ PromOk(World, rec[p])
         /\ \A x, y \in lock : x = y
         /\ rec[p].pc \in {"keep", "write", "replace"} => p \in lock
  BY DEF CopyInv, HeldInv, LockInv, PromOk

LEMMA BeginCopies ==
  ASSUME WorldGoes, CopiesOk(World'), CopyInv, NEW p \in Promoters, Begin(p)
  PROVE  CopyInv'
<1>1. /\ UNCHANGED <<registry, tmp, lock, files, arch>>
      /\ rec' = [rec EXCEPT ![p].pc = "gate", ![p].inc = LatestId]
  BY DEF Begin
<1>2. rec'[p] = [rec[p] EXCEPT !.pc = "gate", !.inc = LatestId]
  BY <1>1, CopyFacts
<1>3. PromShape(rec'[p]) /\ rec'[p].pc = "gate"
  BY <1>2, CopyFacts DEF PromShape
<1>4. PromOk(World', rec'[p])
  BY <1>3 DEF PromOk
<1>5. ListsInv'
  BY <1>1, ListsGo
<1>q. QED
  BY <1>1, <1>3, <1>4, <1>5, CopyFacts, PromoterCopies

LEMMA JudgeCopies ==
  ASSUME RunsInv, UNCHANGED runman, WorldGoes, CopiesOk(World'), CopyInv,
         NEW p \in Promoters, NEW r \in Runs, Judge(p, r)
  PROVE  CopyInv'
<1> DEFINE m == Last(runman[r])
<1>1. UNCHANGED <<registry, tmp, lock, files, arch>> /\ DOMAIN rec' = DOMAIN rec
      /\ \A q \in Promoters : q # p => rec'[q] = rec[q]
  BY CopyFacts DEF Judge, Gate
<1>2. PICK pc : pc \in {"lock", "failed"} /\ rec'[p] = Judged(rec[p], pc, m.source, <<Base[r], m.n>>)
  <2> DEFINE Sent(pc) == Judged(rec[p], pc, m.source, <<Base[r], m.n>>)
  <2>1. rec'[p] = Sent("lock") \/ rec'[p] = Sent("failed")
    BY CopyFacts DEF Judge, Gate, Judged
  <2>q. QED
    BY <2>1
<1>3. Origin(World', m.source, <<Base[r], m.n>>)
  <2>1. Numbered(r, runman[r]) /\ runman[r] # <<>>
    BY DEF RunsInv, RunInv, RunOk, Judge
  <2>2. Len(runman[r]) \in Nat /\ DOMAIN runman[r] = 1 .. Len(runman[r]) /\ Len(runman[r]) # 0
    BY <2>1, SeqLen, LenZero DEF Numbered
  <2>3. m.source = Source(r, Len(runman[r])) /\ m.n = Len(runman[r])
    BY <2>1, <2>2 DEF Numbered, Last
  <2>4. Len(runman[r]) \in 1 .. Len(runman'[r])
    BY <2>2
  <2>q. QED
    BY <2>3, <2>4, WorldIs DEF Origin
<1> HIDE DEF m
<1>4. /\ PromShape(rec'[p]) /\ rec'[p].pc = pc /\ rec'[p].entry.source = m.source
      /\ rec'[p].entry.id = <<Base[r], m.n>>
  BY <1>2, CopyFacts, EntryShape
<1>5. PromOk(World', rec'[p])
  BY <1>2, <1>3, <1>4 DEF PromOk
<1>6. ListsInv'
  BY <1>1, ListsGo
<1>q. QED
  BY <1>1, <1>2, <1>4, <1>5, <1>6, CopyFacts, PromoterCopies

LEMMA LockCopies ==
  ASSUME WorldGoes, CopiesOk(World'), CopyInv, NEW p \in Promoters, Lock(p)
  PROVE  CopyInv'
<1>1. /\ UNCHANGED <<registry, tmp, files, arch>> /\ rec[p].pc = "lock" /\ lock = {}
      /\ DOMAIN rec' = DOMAIN rec /\ \A q \in Promoters : q # p => rec'[q] = rec[q]
      /\ \A x, y \in lock' : x = y
  BY CopyFacts DEF Lock, At, To
<1>2. ListsInv'
  BY <1>1, ListsGo
<1>3. Origin(World', rec[p].entry.source, rec[p].entry.id)
  BY <1>1, CopyFacts DEF PromOk, WorldGoes
<1>4. CASE Duplicate(p, registry)
  <2>1. rec'[p] = [rec[p] EXCEPT !.pc = "raised"]
    BY <1>4, CopyFacts DEF Lock, To
  <2>2. PromShape(rec'[p]) /\ rec'[p].pc = "raised"
    BY <2>1, CopyFacts DEF PromShape
  <2>3. PromOk(World', rec'[p])
    BY <2>2 DEF PromOk
  <2>q. QED
    BY <1>1, <1>2, <2>2, <2>3, PromoterCopies
<1>5. CASE ~Duplicate(p, registry)
  <2>1. rec'[p] = [rec[p] EXCEPT !.pc = "keep", !.seen = registry] /\ lock' = {p}
    BY <1>5, CopyFacts DEF Lock
  <2>2. /\ rec'[p] \in [pc : {"keep"}, inc : {rec[p].inc}, entry : {rec[p].entry}, seen : {registry}]
        /\ rec'[p].pc = "keep" /\ rec'[p].seen = registry /\ rec'[p].entry = rec[p].entry
    BY <2>1, CopyFacts DEF PromShape
  <2>3. PromShape(rec'[p])
    BY <2>2, CopyFacts DEF PromShape
  <2>4. PromOk(World', rec'[p])
    BY <1>1, <1>2, <1>3, <2>2, <2>3 DEF PromOk, ListsInv
  <2>q. QED
    BY <1>1, <1>2, <2>1, <2>4, PromoterCopies
<1>q. QED
  BY <1>4, <1>5

\* A copy is of the promoter's checkpoint, under its id; without an artifact directory
\* there is none.
LEMMA KeepCopies ==
  ASSUME RunsInv, RunsInv', RunsGrow, site' = site, CopyInv, NEW p \in Promoters,
         Keep(p, site.managed)
  PROVE  CopyInv'
<1> DEFINE s == rec[p]
           source == s.entry.source
           id == s.entry.id
           name == IF site.managed THEN Managed(Len(s.seen) + 1, id) ELSE source
<1>1. /\ s.pc = "keep" /\ UNCHANGED <<registry, tmp, lock, arch>> /\ source \in DOMAIN files
      /\ files' = Put(files, name, files[source])
      /\ rec' = [rec EXCEPT ![p].pc = "write", ![p].entry.file = name, ![p].entry.sum = files[source]]
      /\ PromShape(s) /\ Origin(World, source, id) /\ ListOk(World, s.seen) /\ p \in lock
  BY CopyFacts DEF Keep, At, PromOk
<1>2. rec'[p] = Kept(s, name, files[source]) /\ DOMAIN rec' = DOMAIN rec
      /\ \A q \in Promoters : q # p => rec'[q] = rec[q]
  BY <1>1, CopyFacts DEF Kept
<1>3. /\ site.managed => name \in CopyNames(<<Len(s.seen) + 1, id>>)
      /\ ~site.managed => name = source
  BY DEF Managed, CopyNames
<1>4. /\ site.managed => name.key = <<Len(s.seen) + 1, id>> /\ name.key[2] = id /\ IsCopy(name)
      /\ site.managed => \A x, y : Origin(World, x, y) => x # name
  BY <1>3, CopyIs, OriginIs
<1> HIDE DEF s, source, id, name
<1>5. WorldGoes /\ CopiesOk(World')
  <2>1. CopiesOk(World)
    BY DEF CopyInv
  <2>2. \A x, y : Origin(World, x, y) /\ x \in DOMAIN files /\ x = name => files[name] = files[source]
    BY <1>3, <1>4
  <2>3. IsCopy(name) => \E x \in DOMAIN files : Origin(World, x, name.key[2]) /\ files[source] = files[x]
    BY <1>1, <1>3, <1>4, OriginIs
  <2>q. QED
    BY <1>1, <2>1, <2>2, <2>3, PutFiles
<1>6. /\ name \in DOMAIN files' /\ source \in DOMAIN files' /\ files'[source] = files[source]
      /\ Origin(World', source, id)
  BY <1>1, <1>5, WorldIs DEF Put, WorldGoes
<1>7. /\ PromShape(rec'[p]) /\ rec'[p].pc = "write" /\ rec'[p].seen = s.seen
      /\ rec'[p].entry.source = source /\ rec'[p].entry.id = id
      /\ rec'[p].entry.file = name /\ rec'[p].entry.sum = files[source]
  <2>1. PromShape(s) /\ rec'[p] = Kept(s, name, files[source])
    BY <1>1, <1>2
  <2>2. LET t == Kept(s, name, files[source])
        IN  /\ PromShape(t) /\ t.pc = "write" /\ t.seen = s.seen
            /\ t.entry.source = s.entry.source /\ t.entry.id = s.entry.id
            /\ t.entry.file = name /\ t.entry.sum = files[source]
    BY <2>1, KeptShape
  <2>q. QED
    BY <2>1, <2>2 DEF source, id
<1>8. EntryOk(World', rec'[p].entry)
  <2>1. site.managed => IsCopy(name) /\ Present(World', name.key) /\ PresentId(World', id)
    <3>1. site.managed => Present(World', name.key)
      BY <1>3, <1>4, <1>6, WorldIs DEF Present
    <3>q. QED
      BY <1>4, <3>1 DEF PresentId
  <2>q. QED
    <3>1. rec'[p].entry = [source |-> source, id |-> id, file |-> name, sum |-> files[source]]
      BY <1>7 DEF PromShape
    <3>2. /\ World'.managed => IsCopy(name) /\ Present(World', name.key) /\ PresentId(World', id)
          /\ ~World'.managed => name = source
      BY <1>1, <1>3, <2>1, WorldIs
    <3>3. source \in DOMAIN World'.fs /\ files[source] = World'.fs[source]
      BY <1>6, WorldIs
    <3>q. QED
      BY <1>6, <3>1, <3>2, <3>3 DEF EntryOk
<1>9. PromOk(World', rec'[p])
  <2>1. ListOk(World', rec'[p].seen)
    BY <1>1, <1>5, <1>7, ListGoes
  <2>q. QED
    <3>1. Origin(World', rec'[p].entry.source, rec'[p].entry.id)
      BY <1>6, <1>7
    <3>2. PromShape(rec'[p]) /\ rec'[p].pc = "write"
      BY <1>7
    <3>q. QED
      BY <1>8, <2>1, <3>1, <3>2 DEF PromOk
<1>10. ListsInv'
  BY <1>1, <1>5, ListsGo
<1>11. /\ arch' = arch /\ \A x, y \in lock' : x = y
       /\ p \in lock' /\ \A q \in lock : q # p => q \in lock'
  BY <1>1, CopyFacts
<1>q. QED
  BY <1>2, <1>5, <1>9, <1>10, <1>11, PromoterCopies

LEMMA WriteTmpCopies ==
  ASSUME WorldGoes, CopiesOk(World'), CopyInv, NEW p \in Promoters, WriteTmp(p)
  PROVE  CopyInv'
<1>1. /\ rec[p].pc = "write" /\ UNCHANGED <<registry, lock, files, arch>>
      /\ tmp' = {Append(rec[p].seen, rec[p].entry)} /\ p \in lock
      /\ DOMAIN rec' = DOMAIN rec /\ \A q \in Promoters : q # p => rec'[q] = rec[q]
  BY CopyFacts DEF WriteTmp, At, To
<1>2. rec'[p] = [rec[p] EXCEPT !.pc = "replace"]
  BY CopyFacts DEF WriteTmp, To
<1>3. /\ PromShape(rec'[p]) /\ rec'[p].pc = "replace" /\ rec'[p].seen = rec[p].seen
      /\ rec'[p].entry = rec[p].entry
  BY <1>2, CopyFacts DEF PromShape
<1>4. PromOk(World', rec[p])
  BY CopyFacts, PromGoes
<1>5. PromOk(World', rec'[p])
  BY <1>1, <1>3, <1>4 DEF PromOk
<1>6. ListsInv'
  <2>1. ListOk(World', Append(rec[p].seen, rec[p].entry))
    BY <1>1, <1>4, AppendOk DEF PromOk
  <2>2. ListOk(World', registry)
    BY ListGoes DEF CopyInv, ListsInv
  <2>q. QED
    BY <1>1, <2>1, <2>2 DEF ListsInv
<1>q. QED
  BY <1>1, <1>3, <1>5, <1>6, CopyFacts, PromoterCopies

LEMMA ReplaceCopies ==
  ASSUME WorldGoes, CopiesOk(World'), CopyInv, NEW p \in Promoters, Replace(p)
  PROVE  CopyInv'
<1>1. /\ lock' = lock \ {p} /\ UNCHANGED <<files, arch>>
      /\ \/ \E contents \in tmp : registry' = contents /\ tmp' = {}
         \/ UNCHANGED <<registry, tmp>>
      /\ DOMAIN rec' = DOMAIN rec /\ \A q \in Promoters : q # p => rec'[q] = rec[q]
  BY CopyFacts DEF Replace, To
<1>2. PICK pc \in {"recorded", "raised"} : rec'[p] = [rec[p] EXCEPT !.pc = pc]
  <2>1. To(p, "recorded") \/ To(p, "raised")
    BY DEF Replace
  <2>q. QED
    BY <2>1, CopyFacts DEF To
<1>3. PromShape(rec'[p]) /\ rec'[p].pc = pc
  BY <1>2, CopyFacts DEF PromShape
<1>4. PromOk(World', rec'[p])
  BY <1>3 DEF PromOk
<1>5. ListsInv'
  <2>1. ListOk(World', registry) /\ \A contents \in tmp : ListOk(World', contents)
    BY ListGoes DEF CopyInv, ListsInv
  <2>q. QED
    BY <1>1, <2>1 DEF ListsInv
<1>6. (\A x, y \in lock' : x = y) /\ \A q \in lock : q # p => q \in lock'
  BY <1>1, CopyFacts
<1>q. QED
  BY <1>1, <1>3, <1>4, <1>5, <1>6, PromoterCopies

LEMMA LeaveCopies ==
  ASSUME WorldGoes, CopiesOk(World'), CopyInv, NEW p \in Promoters, Leave(p)
  PROVE  CopyInv'
<1>1. UNCHANGED <<registry, tmp, files, arch>> /\ lock' = lock \ {p} /\ rec' = [rec EXCEPT ![p] = Idle]
  BY DEF Leave, Released
<1>2. rec'[p] = Idle /\ DOMAIN rec' = DOMAIN rec /\ \A q \in Promoters : q # p => rec'[q] = rec[q]
  BY <1>1, CopyFacts
<1>3. PromOk(World', rec'[p]) /\ rec'[p].pc = "idle"
  BY <1>2 DEF PromOk, PromShape, Idle, NoEntry
<1>4. ListsInv'
  BY <1>1, ListsGo
<1>5. (\A x, y \in lock' : x = y) /\ \A q \in lock : q # p => q \in lock'
  BY <1>1, CopyFacts
<1>q. QED
  BY <1>1, <1>2, <1>3, <1>4, <1>5, PromoterCopies

\* A run trains what no manifest has yet.
LEMMA TrainCopies ==
  ASSUME RunsInv, RunsInv', RunsGrow, site' = site, CopyInv, NEW r \in Runs, Train(r)
  PROVE  CopyInv'
<1> DEFINE f == Source(r, run[r].iter)
<1>1. /\ UNCHANGED <<registry, tmp, lock, rec, arch>>
      /\ Len(runman[r]) \in Nat /\ run[r].iter \in Nat /\ Len(runman[r]) < run[r].iter
  BY RunLens DEF Train, Pc, RunOk
<1>2. PICK c : files' = Put(files, f, c)
  BY DEF Train
<1>3. ASSUME NEW source, NEW id, Origin(World, source, id) PROVE source # f
  <2>1. PICK q \in Runs : \E n \in 1 .. Len(runman[q]) : source = Source(q, n)
    BY <1>3, WorldIs DEF Origin
  <2>2. PICK n \in 1 .. Len(runman[q]) : source = Source(q, n)
    BY <2>1
  <2>3. ~(q = r /\ n = run[r].iter)
    BY <1>1
  <2>q. QED
    BY <2>2, <2>3 DEF Source
<1>4. ~IsCopy(f)
  BY CopyIs DEF IsCopy
<1>5. CopiesOk(World)
  BY DEF CopyInv
<1> HIDE DEF f
<1>6. WorldGoes /\ CopiesOk(World')
  BY <1>2, <1>3, <1>4, <1>5, PutFiles
<1>q. QED
  BY <1>1, <1>6, StillCopies

\* What a step of the archiver finds and leaves alone.
LEMMA BatchFacts ==
  ASSUME CopyInv
  PROVE  /\ BatchOk(World, arch) /\ JobsOk(World, arch.todo) /\ JobsOk(World, arch.moved)
         /\ arch = [pc |-> arch.pc, todo |-> arch.todo, moved |-> arch.moved, seen |-> arch.seen]
         /\ arch.pc # "idle" => World.managed
         /\ ListOk(World, registry) /\ \A contents \in tmp : ListOk(World, contents)
  BY DEF CopyInv, BatchOk, ListsInv

\* The files of a plan are copies that are listed.
LEMMA PlanCopies ==
  ASSUME WorldGoes, CopiesOk(World'), CopyInv, Plan
  PROVE  /\ CopyInv'
         /\ arch'.pc = "move" /\ arch'.moved = <<>>
         /\ \A k \in DOMAIN arch'.todo :
              /\ arch'.todo[k].seq \in Stale /\ arch'.todo[k].seq \in DOMAIN registry
              /\ arch'.todo[k].from = registry[arch'.todo[k].seq].file
<1> DEFINE todo == [k \in 1 .. Cardinality(Stale) |->
                      LET i == Ascending(Stale)[k] IN [seq |-> i, from |-> registry[i].file]]
<1>1. arch.pc = "idle" /\ Stale # {} /\ UNCHANGED <<registry, tmp, lock, files, rec>>
      /\ arch' = [arch EXCEPT !.pc = "move", !.todo = todo]
  BY DEF Plan
<1>2. IsSeq(registry) /\ Len(registry) \in Nat /\ DOMAIN registry = 1 .. Len(registry)
      /\ \A i \in DOMAIN registry : EntryOk(World, registry[i])
  BY BatchFacts, SeqLen DEF ListOk
<1>3. Stale \in SUBSET (1 .. Len(registry))
  BY <1>2 DEF Stale
<1>4. ASSUME NEW i \in Stale
      PROVE  /\ World.managed /\ i \in DOMAIN registry
             /\ registry[i].file = [at |-> "copy", key |-> registry[i].file.key]
             /\ Present(World, registry[i].file.key)
  <2>1. /\ EntryOk(World, registry[i]) /\ registry[i].file # registry[i].source
        /\ registry[i].file.at # "archive" /\ i \in DOMAIN registry
    BY <1>2 DEF Stale
  <2>2. World.managed /\ IsCopy(registry[i].file) /\ Present(World, registry[i].file.key)
    BY <2>1 DEF EntryOk
  <2>q. QED
    BY <2>1, <2>2 DEF IsCopy, CopyNames
<1>5. Cardinality(Stale) \in Nat
  BY <1>2, <1>3, UpToFacts
<1>6. ASSUME NEW k \in 1 .. Cardinality(Stale) PROVE Ascending(Stale)[k] \in Stale
  BY <1>2, <1>3, AscendingIn
<1>7. DOMAIN todo = 1 .. Cardinality(Stale) /\ todo = [k \in 1 .. Cardinality(Stale) |-> todo[k]]
  OBVIOUS
<1>8. ASSUME NEW k \in 1 .. Cardinality(Stale)
      PROVE  /\ todo[k].seq \in Stale /\ todo[k].from = registry[todo[k].seq].file
             /\ JobOk(World, todo[k])
  <2>1. todo[k] = [seq |-> Ascending(Stale)[k], from |-> registry[Ascending(Stale)[k]].file]
    OBVIOUS
  <2>2. todo[k].seq \in Stale /\ todo[k].from = registry[todo[k].seq].file
    BY <1>6, <2>1
  <2>q. QED
    BY <1>4, <2>2 DEF JobOk
<1> HIDE DEF todo
<1>9. JobsOk(World, todo)
  BY <1>5, <1>7, <1>8, FunIs DEF JobsOk
<1>10. World.managed
  BY <1>1, <1>4
<1>11. arch = NoBatch
  BY <1>1, BatchFacts DEF BatchOk
<1>12. arch' = [pc |-> "move", todo |-> todo, moved |-> <<>>, seen |-> <<>>]
  BY <1>1, <1>11 DEF NoBatch
<1>13. BatchOk(World, arch')
  <2>1. JobsOk(World, <<>>)
    BY EmptyIs DEF JobsOk
  <2>q. QED
    BY <1>9, <1>10, <1>12, <2>1 DEF BatchOk
<1>14. CopyInv'
  BY <1>1, <1>13, BatchGoes, ListsGo, ArchiverCopies
<1>q. QED
  BY <1>4, <1>7, <1>8, <1>12, <1>14

LEMMA MoveCopies ==
  ASSUME RunsInv, RunsInv', RunsGrow, site' = site, CopyInv, Move
  PROVE  CopyInv'
<1> DEFINE job == Head(arch.todo)
<1>1. /\ arch.pc = "move" /\ arch.todo # <<>> /\ UNCHANGED <<registry, tmp, lock, rec>>
      /\ \/ /\ job.from \in DOMAIN files /\ files' = Moved(files, job.from, Archived(job.from))
            /\ arch' = [arch EXCEPT !.todo = Tail(@), !.moved = Append(@, job)]
         \/ arch' = [arch EXCEPT !.pc = "rollback"] /\ UNCHANGED files
  BY DEF Move
<1>2. /\ JobOk(World, job) /\ JobsOk(World, Tail(arch.todo)) /\ JobsOk(World, arch.moved)
      /\ World.managed
  BY <1>1, BatchFacts, JobsHeadTail
<1>3. CopiesOk(World)
  BY DEF CopyInv
<1> HIDE DEF job
<1>4. CASE /\ job.from \in DOMAIN files /\ files' = Moved(files, job.from, Archived(job.from))
           /\ arch' = [arch EXCEPT !.todo = Tail(@), !.moved = Append(@, job)]
  <2>1. WorldGoes /\ CopiesOk(World')
    BY <1>2, <1>3, <1>4, ArchivedIs, MovedFiles
  <2>2. arch' = [pc |-> "move", todo |-> Tail(arch.todo), moved |-> Append(arch.moved, job),
                 seen |-> arch.seen]
    BY <1>1, <1>4, BatchFacts
  <2>3. BatchOk(World, arch')
    BY <1>2, <2>2, JobsAppend DEF BatchOk
  <2>q. QED
    BY <1>1, <2>1, <2>3, BatchGoes, ListsGo, ArchiverCopies
<1>5. CASE arch' = [arch EXCEPT !.pc = "rollback"] /\ UNCHANGED files
  <2>1. WorldGoes /\ CopiesOk(World')
    BY <1>3, <1>5, SameFiles
  <2>2. arch' = [pc |-> "rollback", todo |-> arch.todo, moved |-> arch.moved, seen |-> arch.seen]
    BY <1>5, BatchFacts
  <2>3. BatchOk(World, arch')
    BY <1>2, <2>2, BatchFacts DEF BatchOk
  <2>q. QED
    BY <1>1, <2>1, <2>3, BatchGoes, ListsGo, ArchiverCopies
<1>q. QED
  BY <1>1, <1>4, <1>5

LEMMA RereadCopies ==
  ASSUME WorldGoes, CopiesOk(World'), CopyInv, Reread
  PROVE  CopyInv'
<1>1. arch.pc = "move" /\ UNCHANGED <<registry, tmp, lock, files, rec>>
      /\ (arch' = NoBatch \/ arch' = [arch EXCEPT !.pc = "write", !.seen = registry])
  BY DEF Reread
<1>2. BatchOk(World, arch')
  <2>1. JobsOk(World, <<>>)
    BY EmptyIs DEF JobsOk
  <2>2. CASE arch' = NoBatch
    BY <2>1, <2>2 DEF BatchOk, NoBatch
  <2>3. CASE arch' = [arch EXCEPT !.pc = "write", !.seen = registry]
    <3>1. arch' = [pc |-> "write", todo |-> arch.todo, moved |-> arch.moved, seen |-> registry]
      BY <2>3, BatchFacts
    <3>q. QED
      BY <1>1, <3>1, BatchFacts DEF BatchOk
  <2>q. QED
    BY <1>1, <2>2, <2>3
<1>q. QED
  BY <1>1, <1>2, BatchGoes, ListsGo, ArchiverCopies

LEMMA RewriteCopies ==
  ASSUME WorldGoes, CopiesOk(World'), CopyInv, Rewrite
  PROVE  CopyInv'
<1>1. /\ arch.pc = "write" /\ tmp' = {MovedTo(arch.seen, arch.moved)}
      /\ arch' = [arch EXCEPT !.pc = "replace"] /\ UNCHANGED <<registry, lock, files, rec>>
  BY DEF Rewrite
<1>2. arch' = [pc |-> "replace", todo |-> arch.todo, moved |-> arch.moved, seen |-> arch.seen]
  BY <1>1, BatchFacts
<1>3. ListOk(World, arch.seen) /\ World.managed
  BY <1>1, BatchFacts DEF BatchOk
<1>4. BatchOk(World, arch')
  BY <1>2, <1>3, BatchFacts DEF BatchOk
<1>5. ListOk(World, MovedTo(arch.seen, arch.moved))
  BY <1>3, BatchFacts, MovedToOk
<1>6. ListsInv'
  BY <1>1, <1>5, BatchFacts, ListGoes DEF ListsInv
<1>q. QED
  BY <1>1, <1>4, <1>6, BatchGoes, ArchiverCopies

LEMMA PublishCopies ==
  ASSUME WorldGoes, CopiesOk(World'), CopyInv, Publish
  PROVE  CopyInv'
<1>1. /\ arch.pc = "replace" /\ UNCHANGED <<lock, files, rec>>
      /\ \/ \E contents \in tmp : registry' = contents /\ tmp' = {} /\ arch' = NoBatch
         \/ arch' = [arch EXCEPT !.pc = "rollback"] /\ UNCHANGED <<registry, tmp>>
  BY DEF Publish
<1>2. BatchOk(World, arch')
  <2>1. JobsOk(World, <<>>)
    BY EmptyIs DEF JobsOk
  <2>2. CASE arch' = NoBatch
    BY <2>1, <2>2 DEF BatchOk, NoBatch
  <2>3. CASE arch' = [arch EXCEPT !.pc = "rollback"]
    <3>1. arch' = [pc |-> "rollback", todo |-> arch.todo, moved |-> arch.moved, seen |-> arch.seen]
      BY <2>3, BatchFacts
    <3>q. QED
      BY <1>1, <3>1, BatchFacts DEF BatchOk
  <2>q. QED
    BY <1>1, <2>2, <2>3
<1>3. ListsInv'
  BY <1>1, BatchFacts, ListGoes DEF ListsInv
<1>q. QED
  BY <1>1, <1>2, <1>3, BatchGoes, ArchiverCopies

LEMMA RollbackCopies ==
  ASSUME RunsInv, RunsInv', RunsGrow, site' = site, CopyInv, Rollback
  PROVE  CopyInv'
<1> DEFINE n == Len(arch.moved)
           job == arch.moved[n]
<1>1. arch.pc = "rollback" /\ UNCHANGED <<registry, tmp, lock, rec>>
      /\ World.managed /\ JobsOk(World, arch.moved) /\ CopiesOk(World)
  BY BatchFacts DEF Rollback, CopyInv
<1>2. CASE n = 0
  <2>1. arch' = NoBatch /\ UNCHANGED files
    BY <1>2 DEF Rollback
  <2>2. WorldGoes /\ CopiesOk(World')
    BY <1>1, <2>1, SameFiles
  <2>3. BatchOk(World, arch')
    BY <2>1, EmptyIs DEF BatchOk, NoBatch, JobsOk
  <2>q. QED
    BY <1>1, <2>2, <2>3, BatchGoes, ListsGo, ArchiverCopies
<1>3. CASE n # 0
  <2>1. files' = Restored(job) /\ arch' = [arch EXCEPT !.moved = SubSeq(@, 1, n - 1)]
    BY <1>3 DEF Rollback
  <2>2. JobOk(World, job) /\ JobsOk(World, SubSeq(arch.moved, 1, n - 1))
    BY <1>1, <1>3, JobsFront
  <2> HIDE DEF n, job
  <2>3. WorldGoes /\ CopiesOk(World')
    <3>1. CASE Archived(job.from) \in DOMAIN files /\ job.from \notin DOMAIN files
      <4>1. files' = Moved(files, Archived(job.from), job.from)
        BY <2>1, <3>1 DEF Restored
      <4>q. QED
        BY <1>1, <2>2, <3>1, <4>1, ArchivedIs, MovedFiles
    <3>2. CASE ~(Archived(job.from) \in DOMAIN files /\ job.from \notin DOMAIN files)
      <4>1. files' = files
        BY <2>1, <3>2 DEF Restored
      <4>q. QED
        BY <1>1, <4>1, SameFiles
    <3>q. QED
      BY <3>1, <3>2
  <2>4. arch' = [pc |-> "rollback", todo |-> arch.todo, moved |-> SubSeq(arch.moved, 1, n - 1),
                 seen |-> arch.seen]
    BY <1>1, <2>1, BatchFacts
  <2>5. BatchOk(World, arch')
    BY <1>1, <2>2, <2>4, BatchFacts DEF BatchOk
  <2>q. QED
    BY <1>1, <2>3, <2>5, BatchGoes, ListsGo, ArchiverCopies
<1>q. QED
  BY <1>2, <1>3

LEMMA NextCopies ==
  ASSUME RunsInv, CopyInv, [Next]_vars PROVE CopyInv'
<1>1. RunsInv' /\ RunsGrow /\ site' = site
  BY NextRuns, SiteStays
<1>2. ASSUME files' = files PROVE WorldGoes /\ CopiesOk(World')
  BY <1>1, <1>2, SameFiles DEF CopyInv
<1>3. CASE UNCHANGED promotionVars
  BY <1>2, <1>3, StillCopies DEF promotionVars
<1>4. ASSUME NEW r \in Runs, Train(r) PROVE CopyInv'
  BY <1>1, <1>4, TrainCopies
<1>5. ASSUME NEW p \in Promoters, Begin(p) \/ Lock(p) \/ WriteTmp(p) \/ Replace(p) \/ Leave(p)
      PROVE  CopyInv'
  <2>1. files' = files
    BY <1>5 DEF Begin, Lock, WriteTmp, Replace, Leave
  <2>q. QED
    BY <1>2, <1>5, <2>1, BeginCopies, LockCopies, WriteTmpCopies, ReplaceCopies, LeaveCopies
<1>6. ASSUME NEW p \in Promoters, Keep(p, site.managed) PROVE CopyInv'
  BY <1>1, <1>6, KeepCopies
<1>7. ASSUME NEW p \in Promoters, NEW r \in Runs, Judge(p, r), UNCHANGED runman PROVE CopyInv'
  <2>1. files' = files
    BY <1>7 DEF Judge, Gate
  <2>q. QED
    BY <1>2, <1>7, <2>1, JudgeCopies
<1>8. ASSUME Plan \/ Reread \/ Rewrite \/ Publish PROVE CopyInv'
  <2>1. files' = files
    BY <1>8 DEF Plan, Reread, Rewrite, Publish
  <2>q. QED
    BY <1>2, <1>8, <2>1, PlanCopies, RereadCopies, RewriteCopies, PublishCopies
<1>9. ASSUME Move \/ Rollback PROVE CopyInv'
  BY <1>1, <1>9, MoveCopies, RollbackCopies
<1>10. ASSUME ArchiverDies PROVE CopyInv'
  <2>1. arch' = NoBatch /\ UNCHANGED <<registry, tmp, lock, files, rec>>
    BY <1>10 DEF ArchiverDies
  <2>2. BatchOk(World, arch')
    BY <2>1, EmptyIs DEF BatchOk, NoBatch, JobsOk
  <2>q. QED
    BY <1>2, <2>1, <2>2, BatchGoes, ListsGo, ArchiverCopies
<1>q. QED
  BY <1>3, <1>4, <1>5, <1>6, <1>7, <1>8, <1>9, <1>10, Steps DEF Archive

--------------------------------------------------------------------------------
(* If nobody dies, positions keep their checkpoints: what is listed later, *)
(* or is about to be, has the same ids in the same places.                 *)

\* A file is named by the id of its entry.
Own(e) == e.file.key[2] = e.id
AllOwn(es) == \A i \in DOMAIN es : Own(es[i])

Below(es, later) == \A i \in DOMAIN es : i \in DOMAIN later /\ es[i].id = later[i].id
Coming(s) == Append(s.seen, s.entry)

\* Jobs about the entries they were planned for.
Fit(jobs, es) ==
  \A k \in DOMAIN jobs :
    jobs[k].seq \in DOMAIN es /\ jobs[k].from.key[2] = es[jobs[k].seq].id

PromOrder(reg, s) ==
  s.pc \in {"keep", "write", "replace"} =>
    AllOwn(s.seen) /\ Below(reg, Coming(s)) /\ (s.pc # "keep" => Own(s.entry))

BatchOrder(reg, a) ==
  /\ a.pc = "move" => Fit(a.todo, reg) /\ Fit(a.moved, reg)
  /\ a.pc \in {"write", "replace"} =>
       AllOwn(a.seen) /\ Below(a.seen, reg) /\ Fit(a.moved, a.seen)

\* Whose contents the temporary file has.
Written(c, a, ps) ==
  \/ a.pc = "replace" /\ c = MovedTo(a.seen, a.moved)
  \/ \E p \in Promoters : ps[p].pc = "replace" /\ c = Coming(ps[p])

OrderInv ==
  /\ AllOwn(registry) /\ \A c \in tmp : AllOwn(c) /\ Written(c, arch, rec)
  /\ \A p \in Promoters : PromOrder(registry, rec[p])
  /\ BatchOrder(registry, arch)

LEMMA BelowTrans ==
  ASSUME NEW a, NEW b, NEW c, Below(a, b), Below(b, c) PROVE Below(a, c)
  BY DEF Below

LEMMA FitsBelow ==
  ASSUME NEW jobs, NEW a, NEW b, Fit(jobs, a), Below(a, b) PROVE Fit(jobs, b)
  BY DEF Fit, Below

LEMMA AppendDomain ==
  ASSUME NEW es, NEW e, IsSeq(es)
  PROVE  /\ DOMAIN Append(es, e) = DOMAIN es \cup {Len(es) + 1}
         /\ \A i \in DOMAIN es : Append(es, e)[i] = es[i] /\ i # Len(es) + 1
         /\ Append(es, e)[Len(es) + 1] = e
<1>1. DOMAIN es = 1 .. Len(es) /\ Len(es) \in Nat
  BY SeqLen
<1>2. /\ IsSeq(Append(es, e)) /\ Len(Append(es, e)) = Len(es) + 1
      /\ \A i \in 1 .. Len(es) : Append(es, e)[i] = es[i]
      /\ Append(es, e)[Len(es) + 1] = e
  BY AppendIs
<1>3. DOMAIN Append(es, e) = 1 .. Len(es) + 1
  BY <1>2, SeqLen
<1>4. 1 .. Len(es) + 1 = (1 .. Len(es)) \cup {Len(es) + 1}
  BY <1>1
<1>5. \A i \in 1 .. Len(es) : i # Len(es) + 1
  BY <1>1
<1>q. QED
  BY <1>1, <1>2, <1>3, <1>4, <1>5

LEMMA ComingIs ==
  ASSUME NEW es, NEW e, IsSeq(es)
  PROVE  /\ Below(es, Append(es, e))
         /\ AllOwn(es) /\ Own(e) => AllOwn(Append(es, e))
         /\ \A reg, d : d.id = e.id /\ Below(reg, Append(es, d)) => Below(reg, Append(es, e))
<1>1. Below(es, Append(es, e)) /\ (AllOwn(es) /\ Own(e) => AllOwn(Append(es, e)))
  BY AppendDomain DEF Below, AllOwn
<1>2. ASSUME NEW reg, NEW d, d.id = e.id, Below(reg, Append(es, d))
      PROVE  Below(reg, Append(es, e))
  <2>1. /\ DOMAIN Append(es, d) = DOMAIN es \cup {Len(es) + 1}
        /\ \A i \in DOMAIN es : Append(es, d)[i] = es[i] /\ i # Len(es) + 1
        /\ Append(es, d)[Len(es) + 1] = d
    BY AppendDomain
  <2>2. /\ DOMAIN Append(es, e) = DOMAIN es \cup {Len(es) + 1}
        /\ \A i \in DOMAIN es : Append(es, e)[i] = es[i] /\ i # Len(es) + 1
        /\ Append(es, e)[Len(es) + 1] = e
    BY AppendDomain
  <2>q. QED
    BY <1>2, <2>1, <2>2 DEF Below
<1>q. QED
  BY <1>1, <1>2

LEMMA InitOrder == Init => OrderInv
<1> SUFFICES ASSUME Init PROVE OrderInv
  OBVIOUS
<1>1. registry = <<>> /\ tmp = {} /\ arch = NoBatch /\ \A p \in Promoters : rec[p] = Idle
  BY DEF Init, PromotionInit
<1>q. QED
  BY <1>1, EmptyIs DEF OrderInv, AllOwn, PromOrder, BatchOrder, Idle, NoBatch

\* Whoever is inside the lock is there alone, also beside an archiver.
LEMMA InsideIsOne ==
  ASSUME CopyInv, NEW p \in Promoters, rec[p].pc \in {"keep", "write", "replace"},
         NEW q \in Promoters, rec[q].pc \in {"keep", "write", "replace"}
  PROVE  p = q
  BY DEF CopyInv, HeldInv, LockInv

\* Steps of a promoter before it writes the temporary file, or after it replaced the
\* registry.
LEMMA QuietPromoter ==
  ASSUME OrderInv, NEW p \in Promoters, UNCHANGED <<registry, tmp, arch>>,
         \A q \in Promoters : q # p => rec'[q] = rec[q],
         rec[p].pc # "replace", PromOrder(registry, rec'[p])
  PROVE  OrderInv'
<1>1. ASSUME NEW c \in tmp PROVE Written(c, arch, rec')
  <2>1. Written(c, arch, rec)
    BY DEF OrderInv
  <2>q. QED
    BY <2>1 DEF Written
<1>2. ASSUME NEW q \in Promoters PROVE PromOrder(registry, rec'[q])
  BY DEF OrderInv
<1>q. QED
  BY <1>1, <1>2 DEF OrderInv

\* Steps of the archiver before it writes the temporary file, or when it is done with it.
LEMMA QuietArchiver ==
  ASSUME OrderInv, UNCHANGED <<registry, tmp, rec>>, arch.pc # "replace" \/ tmp = {},
         BatchOrder(registry, arch')
  PROVE  OrderInv'
<1>1. ASSUME NEW c \in tmp PROVE Written(c, arch', rec)
  <2>1. Written(c, arch, rec)
    BY DEF OrderInv
  <2>q. QED
    BY <2>1 DEF Written
<1>q. QED
  BY <1>1 DEF OrderInv

\* Where a promoter is after its first steps, and when it leaves.
LEMMA OutsidePc ==
  ASSUME CopyInv, NEW p \in Promoters,
         Begin(p) \/ (\E r \in Runs : Judge(p, r)) \/ Leave(p)
  PROVE  rec'[p].pc \in {"gate", "lock", "failed", "idle"}
<1>1. CASE Begin(p)
  <2>1. rec'[p] = [rec[p] EXCEPT !.pc = "gate", !.inc = LatestId]
    BY <1>1, CopyFacts DEF Begin
  <2>q. QED
    BY <2>1, CopyFacts DEF PromShape
<1>2. ASSUME NEW r \in Runs, Judge(p, r) PROVE rec'[p].pc \in {"lock", "failed"}
  <2> DEFINE m == Last(runman[r])
             Sent(pc) == Judged(rec[p], pc, m.source, <<Base[r], m.n>>)
  <2>1. rec'[p] = Sent("lock") \/ rec'[p] = Sent("failed")
    BY <1>2, CopyFacts DEF Judge, Gate, Judged
  <2>2. Sent("lock").pc = "lock" /\ Sent("failed").pc = "failed"
    BY EntryShape, CopyFacts
  <2>q. QED
    BY <2>1, <2>2
<1>3. CASE Leave(p)
  BY <1>3, CopyFacts DEF Leave, Idle
<1>q. QED
  BY <1>1, <1>2, <1>3

LEMMA OutsideOrder ==
  ASSUME CopyInv, OrderInv, NEW p \in Promoters,
         \/ Begin(p)
         \/ \E r \in Runs : Judge(p, r)
         \/ Leave(p) /\ rec[p].pc \in Outcomes
  PROVE  OrderInv'
<1>1. /\ UNCHANGED <<registry, tmp, arch>> /\ rec[p].pc # "replace"
      /\ \A q \in Promoters : q # p => rec'[q] = rec[q]
  BY CopyFacts DEF Begin, Judge, Gate, Leave, At, Outcomes
<1>2. rec'[p].pc \in {"gate", "lock", "failed", "idle"}
  BY OutsidePc
<1>3. PromOrder(registry, rec'[p])
  BY <1>2 DEF PromOrder
<1>q. QED
  BY <1>1, <1>3, QuietPromoter

LEMMA LockOrder ==
  ASSUME CopyInv, OrderInv, NEW p \in Promoters, Lock(p) PROVE OrderInv'
<1>1. /\ UNCHANGED <<registry, tmp, arch>> /\ rec[p].pc = "lock"
      /\ \A q \in Promoters : q # p => rec'[q] = rec[q]
  BY CopyFacts DEF Lock, At, To
<1>2. PromOrder(registry, rec'[p])
  <2>1. CASE Duplicate(p, registry)
    <3>1. rec'[p] = [rec[p] EXCEPT !.pc = "raised"]
      BY <2>1, CopyFacts DEF Lock, To
    <3>2. rec'[p].pc = "raised"
      BY <3>1, CopyFacts DEF PromShape
    <3>q. QED
      BY <3>2 DEF PromOrder
  <2>2. CASE ~Duplicate(p, registry)
    <3>1. rec'[p] = [rec[p] EXCEPT !.pc = "keep", !.seen = registry]
      BY <2>2, CopyFacts DEF Lock
    <3>2. rec'[p].pc = "keep" /\ rec'[p].seen = registry
      BY <3>1, CopyFacts DEF PromShape
    <3>3. Below(registry, Coming(rec'[p]))
      BY <3>2, ComingIs, BatchFacts DEF Coming, ListOk
    <3>q. QED
      BY <3>2, <3>3 DEF PromOrder, OrderInv
  <2>q. QED
    BY <2>1, <2>2
<1>q. QED
  BY <1>1, <1>2, QuietPromoter

LEMMA KeepOrder ==
  ASSUME CopyInv, OrderInv, site.managed, NEW p \in Promoters, Keep(p, site.managed)
  PROVE  OrderInv'
<1> DEFINE s == rec[p]
           name == Managed(Len(s.seen) + 1, s.entry.id)
<1>1. /\ s.pc = "keep" /\ UNCHANGED <<registry, tmp, arch>>
      /\ rec' = [rec EXCEPT ![p].pc = "write", ![p].entry.file = name,
                            ![p].entry.sum = files[s.entry.source]]
  BY DEF Keep, At
<1>2. rec'[p] = Kept(s, name, files[s.entry.source])
      /\ \A q \in Promoters : q # p => rec'[q] = rec[q]
  BY <1>1, CopyFacts DEF Kept
<1>3. PromShape(s) /\ IsSeq(s.seen) /\ PromOrder(registry, s)
  BY <1>1, CopyFacts DEF PromOk, ListOk, OrderInv
<1>4. name.key[2] = s.entry.id
  BY DEF Managed
<1> HIDE DEF s, name
<1>5. LET t == Kept(s, name, files[s.entry.source])
      IN  /\ PromShape(t) /\ t.pc = "write" /\ t.seen = s.seen
          /\ t.entry.source = s.entry.source /\ t.entry.id = s.entry.id
          /\ t.entry.file = name /\ t.entry.sum = files[s.entry.source]
  BY <1>3, KeptShape
<1>6. rec'[p].pc = "write" /\ rec'[p].seen = s.seen /\ Own(rec'[p].entry)
      /\ rec'[p].entry.id = s.entry.id
  BY <1>2, <1>4, <1>5 DEF Own
<1>7. Below(registry, Coming(rec'[p])) /\ AllOwn(s.seen)
  BY <1>1, <1>3, <1>6, ComingIs DEF PromOrder, Coming
<1>8. PromOrder(registry, rec'[p])
  BY <1>6, <1>7 DEF PromOrder
<1>9. rec[p].pc # "replace"
  BY <1>1 DEF s
<1>q. QED
  BY <1>1, <1>2, <1>8, <1>9, QuietPromoter

LEMMA WriteTmpOrder ==
  ASSUME CopyInv, OrderInv, NEW p \in Promoters, WriteTmp(p) PROVE OrderInv'
<1>1. /\ rec[p].pc = "write" /\ UNCHANGED <<registry, arch>> /\ tmp' = {Coming(rec[p])}
      /\ \A q \in Promoters : q # p => rec'[q] = rec[q]
  BY CopyFacts DEF WriteTmp, At, To, Coming
<1>2. rec'[p] = [rec[p] EXCEPT !.pc = "replace"]
  BY CopyFacts DEF WriteTmp, To
<1>3. rec'[p].pc = "replace" /\ rec'[p].seen = rec[p].seen /\ rec'[p].entry = rec[p].entry
  BY <1>2, CopyFacts DEF PromShape
<1>4. IsSeq(rec[p].seen) /\ AllOwn(rec[p].seen) /\ Own(rec[p].entry)
      /\ Below(registry, Coming(rec[p]))
  BY <1>1, CopyFacts DEF PromOk, ListOk, OrderInv, PromOrder
<1>5. AllOwn(Coming(rec[p]))
  BY <1>4, ComingIs DEF Coming
<1>6. Coming(rec'[p]) = Coming(rec[p])
  BY <1>3 DEF Coming
<1>7. PromOrder(registry, rec'[p]) /\ Written(Coming(rec[p]), arch, rec')
  BY <1>3, <1>4, <1>6 DEF PromOrder, Written
<1>8. \A q \in Promoters : PromOrder(registry, rec'[q])
  BY <1>1, <1>7 DEF OrderInv
<1>q. QED
  BY <1>1, <1>5, <1>7, <1>8 DEF OrderInv

\* A registry replaced by its promoter has what was there, in its places, and one more.
LEMMA ReplaceOrder ==
  ASSUME CopyInv, OrderInv, NEW p \in Promoters, Replace(p) PROVE OrderInv'
<1>1. /\ rec[p].pc = "replace" /\ arch' = arch
      /\ \A q \in Promoters : q # p => rec'[q] = rec[q]
  BY CopyFacts DEF Replace, At, To
<1>2. PICK pc \in {"recorded", "raised"} : rec'[p] = [rec[p] EXCEPT !.pc = pc]
  <2>1. To(p, "recorded") \/ To(p, "raised")
    BY DEF Replace
  <2>q. QED
    BY <2>1, CopyFacts DEF To
<1>3. rec'[p].pc \in {"recorded", "raised"}
  BY <1>2, CopyFacts DEF PromShape
<1>4. ASSUME NEW q \in Promoters PROVE rec'[q].pc \notin {"keep", "write", "replace"}
  BY <1>1, <1>3, InsideIsOne
<1>5. \A reg : \A q \in Promoters : PromOrder(reg, rec'[q])
  BY <1>4 DEF PromOrder
<1>6. CASE tmp = {} /\ UNCHANGED <<registry, tmp>>
  BY <1>1, <1>5, <1>6 DEF OrderInv
<1>7. ASSUME NEW c \in tmp, registry' = c, tmp' = {} PROVE OrderInv'
  <2>1. AllOwn(c) /\ Written(c, arch, rec)
    BY DEF OrderInv
  <2>2. BatchOrder(c, arch)
    <3>1. CASE arch.pc = "replace" /\ c = MovedTo(arch.seen, arch.moved)
      <4>1. ListOk(World, arch.seen) /\ JobsOk(World, arch.moved) /\ World.managed
        BY <3>1, BatchFacts DEF BatchOk
      <4>2. Below(arch.seen, c)
        BY <3>1, <4>1, MovedToOk, MovedToIs DEF Below
      <4>q. QED
        BY <3>1, <4>2 DEF BatchOrder, OrderInv
    <3>2. ASSUME NEW q \in Promoters, rec[q].pc = "replace", c = Coming(rec[q])
          PROVE  BatchOrder(c, arch)
      <4>1. Below(registry, c)
        BY <3>2 DEF OrderInv, PromOrder
      <4>2. BatchOrder(registry, arch)
        BY DEF OrderInv
      <4>q. QED
        BY <4>1, <4>2, BelowTrans, FitsBelow DEF BatchOrder
    <3>q. QED
      BY <2>1, <3>1, <3>2 DEF Written
  <2>q. QED
    BY <1>1, <1>5, <1>7, <2>1, <2>2 DEF OrderInv
<1>q. QED
  BY <1>6, <1>7 DEF Replace

LEMMA PlanOrder ==
  ASSUME WorldGoes, CopiesOk(World'), CopyInv, OrderInv, Plan PROVE OrderInv'
<1>1. arch.pc = "idle" /\ UNCHANGED <<registry, tmp, rec>>
  BY DEF Plan
<1>2. /\ arch'.pc = "move" /\ arch'.moved = <<>>
      /\ \A k \in DOMAIN arch'.todo :
           /\ arch'.todo[k].seq \in DOMAIN registry
           /\ arch'.todo[k].from = registry[arch'.todo[k].seq].file
  BY PlanCopies
<1>3. Fit(arch'.todo, registry) /\ Fit(arch'.moved, registry)
  BY <1>2, EmptyIs DEF Fit, OrderInv, AllOwn, Own
<1>4. BatchOrder(registry, arch')
  BY <1>2, <1>3 DEF BatchOrder
<1>q. QED
  BY <1>1, <1>4, QuietArchiver

LEMMA MoveOrder ==
  ASSUME CopyInv, OrderInv, Move PROVE OrderInv'
<1> DEFINE job == Head(arch.todo)
<1>1. /\ arch.pc = "move" /\ arch.todo # <<>> /\ UNCHANGED <<registry, tmp, rec>>
      /\ \/ arch' = [arch EXCEPT !.todo = Tail(@), !.moved = Append(@, job)]
         \/ arch' = [arch EXCEPT !.pc = "rollback"]
  BY DEF Move
<1>2. /\ Fit(arch.todo, registry) /\ Fit(arch.moved, registry)
      /\ JobsOk(World, arch.todo) /\ JobsOk(World, arch.moved)
  BY <1>1, BatchFacts DEF OrderInv, BatchOrder
<1>3. /\ 1 \in DOMAIN arch.todo /\ job = arch.todo[1]
      /\ \A k \in DOMAIN Tail(arch.todo) :
           k + 1 \in DOMAIN arch.todo /\ Tail(arch.todo)[k] = arch.todo[k + 1]
  <2>1. JobsOk(World, arch.todo) /\ arch.todo # <<>>
    BY <1>1, <1>2
  <2>q. QED
    BY <2>1, JobsHeadTail
<1>4. Fit(Tail(arch.todo), registry)
  <2>1. ASSUME NEW k \in DOMAIN Tail(arch.todo)
        PROVE  /\ Tail(arch.todo)[k].seq \in DOMAIN registry
               /\ Tail(arch.todo)[k].from.key[2] = registry[Tail(arch.todo)[k].seq].id
    <3>1. k + 1 \in DOMAIN arch.todo /\ Tail(arch.todo)[k] = arch.todo[k + 1]
      BY <1>3
    <3>2. /\ arch.todo[k + 1].seq \in DOMAIN registry
          /\ arch.todo[k + 1].from.key[2] = registry[arch.todo[k + 1].seq].id
      BY <1>2, <3>1 DEF Fit
    <3>q. QED
      BY <3>1, <3>2
  <2>q. QED
    BY <2>1 DEF Fit
<1>5. Fit(Append(arch.moved, job), registry)
  <2>1. job.seq \in DOMAIN registry /\ job.from.key[2] = registry[job.seq].id
    BY <1>2, <1>3 DEF Fit
  <2> HIDE DEF job
  <2>2. /\ DOMAIN Append(arch.moved, job) = DOMAIN arch.moved \cup {Len(arch.moved) + 1}
        /\ \A i \in DOMAIN arch.moved : Append(arch.moved, job)[i] = arch.moved[i]
        /\ Append(arch.moved, job)[Len(arch.moved) + 1] = job
    BY <1>2, AppendDomain DEF JobsOk
  <2>q. QED
    BY <1>2, <2>1, <2>2 DEF Fit
<1> HIDE DEF job
<1>6. CASE arch' = [arch EXCEPT !.todo = Tail(@), !.moved = Append(@, job)]
  <2>1. arch'.pc = "move" /\ arch'.todo = Tail(arch.todo) /\ arch'.moved = Append(arch.moved, job)
    BY <1>1, <1>6, BatchFacts
  <2>2. BatchOrder(registry, arch')
    BY <1>4, <1>5, <2>1 DEF BatchOrder
  <2>q. QED
    BY <1>1, <2>2, QuietArchiver
<1>7. CASE arch' = [arch EXCEPT !.pc = "rollback"]
  <2>1. arch'.pc = "rollback"
    BY <1>7, BatchFacts
  <2>2. BatchOrder(registry, arch')
    BY <2>1 DEF BatchOrder
  <2>q. QED
    BY <1>1, <2>2, QuietArchiver
<1>q. QED
  BY <1>1, <1>6, <1>7

LEMMA RereadOrder ==
  ASSUME CopyInv, OrderInv, Reread PROVE OrderInv'
<1>1. arch.pc = "move" /\ UNCHANGED <<registry, tmp, rec>>
      /\ (arch' = NoBatch \/ arch' = [arch EXCEPT !.pc = "write", !.seen = registry])
  BY DEF Reread
<1>2. BatchOrder(registry, arch')
  <2>1. CASE arch' = NoBatch
    BY <2>1 DEF BatchOrder, NoBatch
  <2>2. CASE arch' = [arch EXCEPT !.pc = "write", !.seen = registry]
    <3>1. arch'.pc = "write" /\ arch'.seen = registry /\ arch'.moved = arch.moved
      BY <2>2, BatchFacts
    <3>2. Fit(arch.moved, registry) /\ AllOwn(registry) /\ Below(registry, registry)
      BY <1>1 DEF OrderInv, BatchOrder, Below
    <3>q. QED
      BY <3>1, <3>2 DEF BatchOrder
  <2>q. QED
    BY <1>1, <2>1, <2>2
<1>q. QED
  BY <1>1, <1>2, QuietArchiver

\* A job gives an entry the archived name of its own file.
LEMMA MovedToOwn ==
  ASSUME NEW w, w.managed, NEW es, NEW jobs, ListOk(w, es), JobsOk(w, jobs),
         AllOwn(es), Fit(jobs, es)
  PROVE  AllOwn(MovedTo(es, jobs))
<1>1. ASSUME NEW i \in DOMAIN es PROVE Own(MovedTo(es, jobs)[i])
  <2>1. \/ MovedTo(es, jobs)[i] = es[i]
        \/ \E k \in DOMAIN jobs : jobs[k].seq = i
             /\ MovedTo(es, jobs)[i] = [es[i] EXCEPT !.file = Archived(jobs[k].from)]
    BY MovedToIs
  <2>2. CASE MovedTo(es, jobs)[i] = es[i]
    BY <2>2 DEF AllOwn
  <2>3. ASSUME NEW k \in DOMAIN jobs, jobs[k].seq = i,
               MovedTo(es, jobs)[i] = [es[i] EXCEPT !.file = Archived(jobs[k].from)]
        PROVE  Own(MovedTo(es, jobs)[i])
    <3>1. Archived(jobs[k].from).key[2] = es[i].id
      BY <2>3, ArchivedIs DEF JobsOk, Fit
    <3>2. es[i] \in [source : {es[i].source}, id : {es[i].id}, file : {es[i].file}, sum : {es[i].sum}]
      BY DEF ListOk, EntryOk
    <3>3. MovedTo(es, jobs)[i] = [source |-> es[i].source, id |-> es[i].id,
                                  file |-> Archived(jobs[k].from), sum |-> es[i].sum]
      BY <2>3, <3>2
    <3>q. QED
      BY <3>1, <3>3 DEF Own
  <2>q. QED
    BY <2>1, <2>2, <2>3
<1>q. QED
  BY <1>1, MovedToIs DEF AllOwn

LEMMA RewriteOrder ==
  ASSUME CopyInv, OrderInv, Rewrite PROVE OrderInv'
<1>1. /\ arch.pc = "write" /\ tmp' = {MovedTo(arch.seen, arch.moved)}
      /\ arch' = [arch EXCEPT !.pc = "replace"] /\ UNCHANGED <<registry, rec>>
  BY DEF Rewrite
<1>2. arch'.pc = "replace" /\ arch'.seen = arch.seen /\ arch'.moved = arch.moved
  BY <1>1, BatchFacts
<1>3. /\ ListOk(World, arch.seen) /\ JobsOk(World, arch.moved) /\ World.managed
      /\ AllOwn(arch.seen) /\ Below(arch.seen, registry) /\ Fit(arch.moved, arch.seen)
  BY <1>1, BatchFacts DEF BatchOk, OrderInv, BatchOrder
<1>4. AllOwn(MovedTo(arch.seen, arch.moved))
  BY <1>3, MovedToOwn
<1>5. BatchOrder(registry, arch')
  BY <1>2, <1>3 DEF BatchOrder
<1>6. Written(MovedTo(arch.seen, arch.moved), arch', rec)
  BY <1>2 DEF Written
<1>q. QED
  BY <1>1, <1>4, <1>5, <1>6 DEF OrderInv

\* A registry replaced by the archiver keeps its places, for whoever is inside the lock.
LEMMA PublishOrder ==
  ASSUME CopyInv, OrderInv, Publish PROVE OrderInv'
<1>1. arch.pc = "replace" /\ rec' = rec
  BY DEF Publish
<1>2. CASE tmp = {} /\ arch' = [arch EXCEPT !.pc = "rollback"] /\ UNCHANGED <<registry, tmp>>
  <2>1. arch'.pc = "rollback"
    BY <1>2, BatchFacts
  <2>2. BatchOrder(registry, arch')
    BY <2>1 DEF BatchOrder
  <2>q. QED
    BY <1>1, <1>2, <2>2, QuietArchiver
<1>3. ASSUME NEW c \in tmp, registry' = c, tmp' = {}, arch' = NoBatch PROVE OrderInv'
  <2>1. AllOwn(c) /\ Written(c, arch, rec)
    BY DEF OrderInv
  <2>2. BatchOrder(c, arch')
    BY <1>3 DEF BatchOrder, NoBatch
  <2>3. ASSUME NEW q \in Promoters PROVE PromOrder(c, rec[q])
    <3>1. CASE rec[q].pc \in {"keep", "write", "replace"}
      <4>1. CASE c = MovedTo(arch.seen, arch.moved)
        <5>1. ListOk(World, arch.seen) /\ JobsOk(World, arch.moved) /\ World.managed
          BY <1>1, BatchFacts DEF BatchOk
        <5>2. Below(c, arch.seen)
          BY <4>1, <5>1, MovedToOk, MovedToIs DEF Below
        <5>3. Below(arch.seen, registry)
          BY <1>1 DEF OrderInv, BatchOrder
        <5>4. Below(registry, Coming(rec[q]))
          BY <3>1 DEF OrderInv, PromOrder
        <5>5. Below(c, Coming(rec[q]))
          BY <5>2, <5>3, <5>4, BelowTrans
        <5>q. QED
          BY <5>5 DEF OrderInv, PromOrder
      <4>2. ASSUME NEW p \in Promoters, rec[p].pc = "replace", c = Coming(rec[p])
            PROVE  PromOrder(c, rec[q])
        <5>1. p = q
          BY <3>1, <4>2, InsideIsOne
        <5>2. Below(c, c)
          BY DEF Below
        <5>q. QED
          BY <4>2, <5>1, <5>2 DEF OrderInv, PromOrder
      <4>q. QED
        BY <2>1, <4>1, <4>2 DEF Written
    <3>2. CASE rec[q].pc \notin {"keep", "write", "replace"}
      BY <3>2 DEF PromOrder
    <3>q. QED
      BY <3>1, <3>2
  <2>q. QED
    BY <1>1, <1>3, <2>1, <2>2, <2>3 DEF OrderInv
<1>q. QED
  BY <1>2, <1>3 DEF Publish

LEMMA RollbackOrder ==
  ASSUME CopyInv, OrderInv, Rollback PROVE OrderInv'
<1>1. arch.pc = "rollback" /\ UNCHANGED <<registry, tmp, rec>>
      /\ (arch' = NoBatch \/ \E moved : arch' = [arch EXCEPT !.moved = moved])
  BY DEF Rollback
<1>2. arch'.pc \in {"idle", "rollback"}
  BY <1>1, BatchFacts DEF NoBatch
<1>3. BatchOrder(registry, arch')
  BY <1>2 DEF BatchOrder
<1>q. QED
  BY <1>1, <1>3, QuietArchiver

LEMMA NextOrder ==
  ASSUME RunsInv, CopyInv, OrderInv, site.managed, budget.crashes = 0, [Next]_vars
  PROVE  OrderInv'
<1>1. RunsInv' /\ RunsGrow /\ site' = site
  BY NextRuns, SiteStays
<1>2. CASE UNCHANGED <<registry, tmp, rec, arch>>
  BY <1>2 DEF OrderInv
<1>3. ASSUME NEW r \in Runs, Train(r) PROVE OrderInv'
  BY <1>2, <1>3 DEF Train
<1>4. ASSUME NEW p \in Promoters,
             Begin(p) \/ Lock(p) \/ Keep(p, site.managed) \/ WriteTmp(p) \/ Replace(p)
      PROVE  OrderInv'
  <2>1. CASE Begin(p)
    BY <2>1, OutsideOrder, Zenon
  <2>2. CASE Lock(p)
    BY <2>2, LockOrder
  <2>3. CASE Keep(p, site.managed)
    BY <2>3, KeepOrder
  <2>4. CASE WriteTmp(p)
    BY <2>4, WriteTmpOrder
  <2>5. CASE Replace(p)
    BY <2>5, ReplaceOrder
  <2>q. QED
    BY <1>4, <2>1, <2>2, <2>3, <2>4, <2>5
<1>8. ASSUME NEW p \in Promoters, Leave(p), rec[p].pc \in Outcomes PROVE OrderInv'
  BY <1>8, OutsideOrder
<1>9. ASSUME NEW p \in Promoters, NEW r \in Runs, Judge(p, r) PROVE OrderInv'
  BY <1>9, OutsideOrder, Zenon
<1>5. ASSUME Plan PROVE OrderInv'
  <2>1. files' = files
    BY <1>5 DEF Plan
  <2>2. WorldGoes /\ CopiesOk(World')
    BY <1>1, <2>1, SameFiles DEF CopyInv
  <2>q. QED
    BY <1>5, <2>2, PlanOrder
<1>6. ASSUME Archive PROVE OrderInv'
  BY <1>5, <1>6, MoveOrder, RereadOrder, RewriteOrder, PublishOrder, RollbackOrder DEF Archive
<1>7. ~(budget.crashes > 0)
  OBVIOUS
<1>10. CASE UNCHANGED promotionVars
  BY <1>2, <1>10 DEF promotionVars
<1>q. QED
  BY <1>3, <1>4, <1>6, <1>7, <1>8, <1>9, <1>10, Steps

\* Nobody dies where no crash is to come.
Unharmed == budget = [crashes |-> 0, commands |-> budget.commands]

LEMMA NextUnharmed == ASSUME Unharmed, [Next]_vars PROVE Unharmed'
<1>1. budget.crashes = 0
  BY DEF Unharmed
<1>2. ASSUME NEW r \in Runs, Start(r) \/ RunStep(r) PROVE budget' = budget
  BY <1>2 DEF Start, RunStep, Collect, Train, Evaluate, WriteRun, Promote, Decide, Raises, Finish
<1>3. ASSUME NEW o \in Operators, Command(o)
      PROVE  budget' = [budget EXCEPT !.commands = @ - 1]
  BY <1>3 DEF Command
<1>4. ASSUME (\E o \in Operators : OperatorStep(o)) \/ Archiver \/ UNCHANGED vars
      PROVE  budget' = budget
  BY <1>4 DEF OperatorStep, Archiver, vars
<1>5. ~Crash
  BY <1>1 DEF Crash, OneCrash
<1>6. CASE budget' = [budget EXCEPT !.commands = @ - 1]
  BY <1>6 DEF Unharmed
<1>q. QED
  BY <1>2, <1>3, <1>4, <1>5, <1>6 DEF Next, Unharmed

\* Only a run with a goal writes manifests.
WritersInv == \A r \in Runs : Len(runman[r]) > 0 => site.goal[r] > 0

LEMMA NextWriters ==
  ASSUME RunsInv, GoalsInv, WritersInv, [Next]_vars PROVE WritersInv'
<1>1. site' = site /\ DOMAIN runman = Runs
  BY SiteStays DEF RunsInv
<1>2. ASSUME NEW r \in Runs, WriteRun(r) \/ Finish(r) PROVE WritersInv'
  <2>1. site.goal[r] > 0
    BY <1>2 DEF GoalsInv, WriteRun, Finish, Pc
  <2>2. \A q \in Runs : q # r => runman'[q] = runman[q]
    BY <1>1, <1>2 DEF WriteRun, Finish
  <2>q. QED
    BY <1>1, <2>1, <2>2 DEF WritersInv
<1>3. CASE UNCHANGED runman
  BY <1>1, <1>3 DEF WritersInv
<1>4. ASSUME NEW r \in Runs, Start(r) \/ RunStep(r)
      PROVE  WriteRun(r) \/ Finish(r) \/ UNCHANGED runman
  BY <1>4 DEF Start, RunStep, Collect, Train, Evaluate, Promote, Decide, Raises, runVars
<1>5. ASSUME (\E o \in Operators : Command(o) \/ OperatorStep(o)) \/ Archiver \/ Crash
               \/ UNCHANGED vars
      PROVE  UNCHANGED runman
  BY <1>5 DEF Command, OperatorStep, Archiver, Crash, vars, runVars
<1>q. QED
  BY <1>2, <1>3, <1>4, <1>5 DEF Next

\* Where policy ids tell runs apart, an id tells checkpoints apart.
LEMMA OneOrigin ==
  ASSUME RunsInv, WritersInv, Apart, NEW x, NEW y, NEW id, Origin(World, x, id), Origin(World, y, id)
  PROVE  x = y
<1>1. PICK r \in Runs : \E n \in 1 .. Len(runman[r]) : x = Source(r, n) /\ id = <<Base[r], n>>
  BY WorldIs DEF Origin
<1>2. PICK n \in 1 .. Len(runman[r]) : x = Source(r, n) /\ id = <<Base[r], n>>
  BY <1>1
<1>3. PICK q \in Runs : \E m \in 1 .. Len(runman[q]) : y = Source(q, m) /\ id = <<Base[q], m>>
  BY WorldIs DEF Origin
<1>4. PICK m \in 1 .. Len(runman[q]) : y = Source(q, m) /\ id = <<Base[q], m>>
  BY <1>3
<1>5. Len(runman[r]) \in Nat /\ Len(runman[q]) \in Nat
  BY RunLens
<1>6. site.goal[r] > 0 /\ site.goal[q] > 0
  BY <1>2, <1>4, <1>5 DEF WritersInv
<1>7. Base[r] = Base[q] /\ n = m
  BY <1>2, <1>4
<1>q. QED
  BY <1>2, <1>4, <1>6, <1>7 DEF Apart

LEMMA CopiesAreRecoverable ==
  ASSUME RunsInv, WritersInv, CopyInv, site.crashes = 0 /\ site.managed => OrderInv,
         site.crashes = 0 => Unharmed, site.crashes \in Nat
  PROVE  ArchivedIsRecoverable
<1> SUFFICES ASSUME Apart, NEW i \in DOMAIN registry
    PROVE  LET e == registry[i]
           IN  /\ \/ e.file = e.source /\ Holds(e.file, e.sum)
                  \/ \E f \in CopiesOf(e) : Holds(f, e.sum)
               /\ \/ site.crashes > 0
                  \/ Holds(e.file, e.sum) \/ Holds(Archived(e.file), e.sum)
                  \/ Holds([e.file EXCEPT !.at = "copy"], e.sum)
  BY DEF ArchivedIsRecoverable
<1> DEFINE e == registry[i]
<1>1. EntryOk(World, e)
  BY BatchFacts DEF ListOk
<1>2. Origin(World, e.source, e.id) /\ e.source \in DOMAIN files /\ e.sum = files[e.source]
  BY <1>1, WorldIs DEF EntryOk
<1>3. site.managed => IsCopy(e.file) /\ Present(World, e.file.key) /\ PresentId(World, e.id)
  BY <1>1, WorldIs DEF EntryOk
<1>4. ~site.managed => e.file = e.source
  BY <1>1, WorldIs DEF EntryOk
<1>5. site.managed /\ site.crashes = 0 => e.file.key[2] = e.id
  BY DEF OrderInv, AllOwn, Own
<1> HIDE DEF e
<1>6. ASSUME NEW key, NEW f \in CopyNames(key), f \in DOMAIN files, key[2] = e.id
      PROVE  f \in CopiesOf(e) /\ Holds(f, e.sum)
  <2>1. f.key = key /\ IsCopy(f) /\ f.at \in {"copy", "archive"}
    BY CopyIs
  <2>2. PICK source \in DOMAIN files : Origin(World, source, e.id) /\ files[f] = files[source]
    BY <1>6, <2>1, WorldIs DEF CopyInv, CopiesOk
  <2>3. source = e.source
    BY <1>2, <2>2, OneOrigin
  <2>q. QED
    BY <1>2, <1>6, <2>1, <2>2, <2>3 DEF CopiesOf, Holds
<1>7. CASE ~site.managed
  BY <1>2, <1>4, <1>7 DEF Holds, e
<1>8. CASE site.managed
  <2>1. \E f \in CopiesOf(e) : Holds(f, e.sum)
    BY <1>3, <1>6, <1>8, WorldIs DEF PresentId, Present
  <2>2. ASSUME site.crashes = 0
        PROVE  \/ Holds(e.file, e.sum) \/ Holds(Archived(e.file), e.sum)
               \/ Holds([e.file EXCEPT !.at = "copy"], e.sum)
    <3>1. PICK f \in CopyNames(e.file.key) : f \in DOMAIN files
      BY <1>3, <1>8, WorldIs DEF Present
    <3>2. Holds(f, e.sum)
      BY <1>5, <1>6, <1>8, <2>2, <3>1
    <3>3. e.file \in [at : {e.file.at}, key : {e.file.key}]
      BY <1>3, <1>8 DEF IsCopy, CopyNames
    <3>4. /\ Archived(e.file) = [at |-> "archive", key |-> e.file.key]
          /\ [e.file EXCEPT !.at = "copy"] = [at |-> "copy", key |-> e.file.key]
      BY <3>3 DEF Archived
    <3>q. QED
      BY <3>1, <3>2, <3>4 DEF CopyNames
  <2>3. site.crashes > 0 \/ site.crashes = 0
    OBVIOUS
  <2>q. QED
    BY <2>1, <2>2, <2>3 DEF e
<1>q. QED
  BY <1>7, <1>8

\* Beside an archiver, where policy ids tell runs apart, every listed checkpoint can be had
\* again: whoever dies a copy of it is there under its id, and if nobody dies it is there
\* under the name that is listed, in the run, among the copies or in the archive.
THEOREM ArchivedIsRecoverableHolds == Spec => []ArchivedIsRecoverable
<1> DEFINE Inv == /\ RunsInv /\ GoalsInv /\ WritersInv /\ CopyInv
                  /\ site.crashes = 0 => Unharmed
                  /\ site.crashes = 0 /\ site.managed => OrderInv
<1>1. Init => Inv
  <2> SUFFICES ASSUME Init PROVE Inv
    OBVIOUS
  <2>1. RunsInv /\ CopyInv /\ OrderInv
    BY InitRuns, InitCopies, InitOrder
  <2>2. GoalsInv
    BY DEF Init, GoalsInv, Off
  <2>3. WritersInv
    BY EmptyIs DEF Init, WritersInv
  <2>4. site.crashes = 0 => Unharmed
    BY DEF Init, Unharmed
  <2>q. QED
    BY <2>1, <2>2, <2>3, <2>4
<1>2. Inv /\ [Next]_vars => Inv'
  <2> SUFFICES ASSUME Inv, [Next]_vars PROVE Inv'
    OBVIOUS
  <2>1. site' = site
    BY SiteStays
  <2>2. RunsInv' /\ GoalsInv' /\ WritersInv' /\ CopyInv'
    BY NextRuns, NextGoals, NextWriters, NextCopies
  <2>3. site.crashes = 0 => Unharmed'
    BY NextUnharmed
  <2>4. ASSUME site.crashes = 0, site.managed PROVE OrderInv'
    <3>1. budget.crashes = 0
      BY <2>4 DEF Unharmed
    <3>q. QED
      BY <2>4, <3>1, NextOrder
  <2>q. QED
    BY <2>1, <2>2, <2>3, <2>4
<1>3. Inv => ArchivedIsRecoverable
  <2> SUFFICES ASSUME Inv PROVE ArchivedIsRecoverable
    OBVIOUS
  <2>1. site.crashes \in Nat
    BY SitesAssumption DEF GoalsInv
  <2>q. QED
    BY <2>1, CopiesAreRecoverable
<1>q. QED
  BY <1>1, <1>2, <1>3, PTL DEF Spec

--------------------------------------------------------------------------------
(* Types.  What is listed, or about to be, has its type by what is said of *)
(* copies above; the rest is shown here.                                   *)

FilesTyped == DOMAIN files \subseteq Names /\ \A f \in DOMAIN files : files[f] \in Checkpoints

PromTyped(s) == s \in Promotings /\ (s.pc = "recorded" => s.entry \in Entries)

\* The process s of a run, its iteration manifests im and its run manifest rm.
RunTyped(s, im, rm) ==
  /\ s \in RunStates
  /\ s.pc \in {"publish", "promote", "finish"} => s.m \in Manifests
  /\ \A i \in DOMAIN im : im[i] \in Manifests
  /\ \A i \in DOMAIN rm : rm[i] \in Manifests

RunsTyped == \A r \in Runs : RunTyped(run[r], iterman[r], runman[r])

TypesInv ==
  /\ FilesTyped /\ lock \subseteq Promoters /\ arch \in Batches
  /\ \A p \in Promoters : PromTyped(rec[p])
  /\ RunsTyped /\ dir \in [Runs -> BOOLEAN]

LEMMA SeqIn ==
  ASSUME NEW s, NEW S, IsSeq(s), \A i \in DOMAIN s : s[i] \in S PROVE s \in Seq(S)
<1>1. Len(s) \in Nat /\ DOMAIN s = 1 .. Len(s)
  BY SeqLen
<1>2. s \in [1 .. Len(s) -> Elements(s)]
  BY LenProperties DEF IsSeq
<1>3. s \in [1 .. Len(s) -> S]
  BY <1>1, <1>2
<1>q. QED
  BY <1>1, <1>3, SeqDef

LEMMA InSeq ==
  ASSUME NEW S, NEW s \in Seq(S)
  PROVE  /\ IsSeq(s) /\ Len(s) \in Nat /\ DOMAIN s = 1 .. Len(s) /\ \A i \in DOMAIN s : s[i] \in S
         /\ s # <<>> => Len(s) \in DOMAIN s /\ s[Len(s)] \in S
<1>1. IsSeq(s)
  BY SeqIs
<1>2. Len(s) \in Nat /\ DOMAIN s = 1 .. Len(s) /\ \A i \in DOMAIN s : s[i] \in S
  BY LenProperties, ElementOfSeq
<1>3. s # <<>> => Len(s) \in DOMAIN s
  BY <1>1, <1>2, LenZero
<1>q. QED
  BY <1>1, <1>2, <1>3

\* Names and ids.
LEMMA SourceIn ==
  ASSUME NEW r \in Runs, NEW n \in Nat
  PROVE  Source(r, n) \in Names /\ <<Base[r], n>> \in Ids
<1>1. Base[r] \in STRING
  BY PromotionAssumption
<1>2. <<r, n>> \in Runs \X Nat /\ <<Base[r], n>> \in Ids
  BY <1>1 DEF Ids
<1>q. QED
  BY <1>2 DEF Source, Names

LEMMA ManagedIn == ASSUME NEW k \in Nat, NEW id \in Ids PROVE Managed(k, id) \in Names
<1>1. <<k, id>> \in Nat \X Ids
  OBVIOUS
<1>q. QED
  BY <1>1 DEF Managed, Names

LEMMA CopyIn ==
  ASSUME NEW key, NEW f \in CopyNames(key), f \in Names
  PROVE  key \in Nat \X Ids /\ CopyNames(key) \subseteq Names
<1>1. f.key = key /\ f.at \in {"copy", "archive"}
  BY CopyIs
<1>2. f \in [at : {"run"}, key : Runs \X Nat] \/ f \in [at : {"copy", "archive"}, key : Nat \X Ids]
  BY DEF Names
<1>3. key \in Nat \X Ids
  BY <1>1, <1>2
<1>q. QED
  BY <1>3 DEF CopyNames, Names

LEMMA PresentIn ==
  ASSUME FilesTyped, NEW key, Present(World, key)
  PROVE  key \in Nat \X Ids /\ CopyNames(key) \subseteq Names
<1>1. PICK f \in CopyNames(key) : f \in DOMAIN files
  BY WorldIs DEF Present
<1>q. QED
  BY <1>1, CopyIn DEF FilesTyped

LEMMA OriginIn ==
  ASSUME RunsInv, NEW source, NEW id, Origin(World, source, id)
  PROVE  source \in Names /\ id \in Ids
<1>1. PICK r \in Runs : \E n \in 1 .. Len(runman[r]) : source = Source(r, n) /\ id = <<Base[r], n>>
  BY WorldIs DEF Origin
<1>2. PICK n \in 1 .. Len(runman[r]) : source = Source(r, n) /\ id = <<Base[r], n>>
  BY <1>1
<1>3. n \in Nat
  BY RunLens
<1>q. QED
  BY <1>2, <1>3, SourceIn

\* What is listed, and what is about to be.
LEMMA EntryIn ==
  ASSUME RunsInv, FilesTyped, NEW e, EntryOk(World, e) PROVE e \in Entries
<1>1. e = [source |-> e.source, id |-> e.id, file |-> e.file, sum |-> e.sum]
  BY DEF EntryOk
<1>2. e.source \in Names /\ e.id \in Ids
  BY OriginIn DEF EntryOk
<1>3. e.sum \in Checkpoints
  BY WorldIs DEF EntryOk, FilesTyped
<1>4. e.file \in Names
  <2>1. CASE World.managed
    <3>1. IsCopy(e.file) /\ Present(World, e.file.key)
      BY <2>1 DEF EntryOk
    <3>q. QED
      BY <3>1, PresentIn DEF IsCopy
  <2>2. CASE ~World.managed
    BY <1>2, <2>2 DEF EntryOk
  <2>q. QED
    BY <2>1, <2>2
<1>q. QED
  BY <1>1, <1>2, <1>3, <1>4 DEF Entries

LEMMA ListIn ==
  ASSUME RunsInv, FilesTyped, NEW es, ListOk(World, es) PROVE es \in Seq(Entries)
  BY EntryIn, SeqIn DEF ListOk

LEMMA ListedIn ==
  ASSUME RunsInv, FilesTyped, CopyInv
  PROVE  registry \in Seq(Entries) /\ tmp \subseteq Seq(Entries)
  BY ListIn DEF CopyInv, ListsInv

LEMMA InitTypes == Init => TypesInv
<1> SUFFICES ASSUME Init PROVE TypesInv
  OBVIOUS
<1>1. /\ lock = {} /\ files = <<>> /\ arch = NoBatch /\ \A p \in Promoters : rec[p] = Idle
      /\ \A r \in Runs : run[r] = Off /\ iterman[r] = <<>> /\ runman[r] = <<>>
      /\ dir = [r \in Runs |-> FALSE]
  BY DEF Init, PromotionInit
<1>2. DOMAIN files = {}
  BY <1>1, EmptyIs
<1>3. Idle \in Promotings
  BY EmptySeq DEF Idle, NoEntry, Promotings
<1>4. NoBatch \in Batches
  BY EmptySeq DEF NoBatch, Batches
<1>5. RunTyped(Off, <<>>, <<>>)
  BY EmptyIs DEF RunTyped, RunStates, Off
<1>6. \A p \in Promoters : PromTyped(rec[p])
  BY <1>1, <1>3 DEF PromTyped, Idle
<1>q. QED
  BY <1>1, <1>2, <1>4, <1>5, <1>6 DEF TypesInv, FilesTyped, RunsTyped

\* Files.
LEMMA PutTyped ==
  ASSUME FilesTyped, NEW f \in Names, NEW c \in Checkpoints, files' = Put(files, f, c)
  PROVE  FilesTyped'
  BY DEF FilesTyped, Put

LEMMA MovedTyped ==
  ASSUME FilesTyped, NEW x \in DOMAIN files, NEW y \in Names, files' = Moved(files, x, y)
  PROVE  FilesTyped'
  BY DEF FilesTyped, Moved

LEMMA TrainTyped ==
  ASSUME RunsInv, FilesTyped, NEW r \in Runs, Train(r) PROVE FilesTyped'
<1> DEFINE f == Source(r, run[r].iter)
           made == IF f \in DOMAIN files THEN files[f].made + 1 ELSE 1
<1>1. run[r].pc = "train" /\ files' = Put(files, f, [run |-> r, n |-> run[r].iter, made |-> made])
  BY DEF Train, Pc
<1>2. run[r].iter \in Nat
  BY <1>1, RunLens
<1>3. f \in Names
  BY <1>2, SourceIn
<1> HIDE DEF f
<1>4. made \in Nat
  BY DEF FilesTyped, Checkpoints
<1> HIDE DEF made
<1>5. [run |-> r, n |-> run[r].iter, made |-> made] \in Checkpoints
  BY <1>2, <1>4 DEF Checkpoints
<1>q. QED
  BY <1>1, <1>3, <1>5, PutTyped

LEMMA KeepTyped ==
  ASSUME RunsInv, FilesTyped, CopyInv, NEW p \in Promoters, Keep(p, site.managed)
  PROVE  FilesTyped'
<1> DEFINE s == rec[p]
           source == s.entry.source
           name == IF site.managed THEN Managed(Len(s.seen) + 1, s.entry.id) ELSE source
<1>1. s.pc = "keep" /\ source \in DOMAIN files /\ files' = Put(files, name, files[source])
  BY DEF Keep, At
<1>2. ListOk(World, s.seen) /\ Origin(World, source, s.entry.id)
  BY <1>1, CopyFacts DEF PromOk
<1>3. source \in Names /\ s.entry.id \in Ids /\ Len(s.seen) + 1 \in Nat
  BY <1>2, OriginIn, SeqLen DEF ListOk
<1>4. name \in Names
  BY <1>3, ManagedIn
<1>5. files[source] \in Checkpoints
  BY <1>1 DEF FilesTyped
<1> HIDE DEF name, source, s
<1>q. QED
  BY <1>1, <1>4, <1>5, PutTyped

\* A job is about a copy that has a name of its type.
LEMMA JobIn ==
  ASSUME FilesTyped, NEW job, JobOk(World, job)
  PROVE  job.from \in Names /\ Archived(job.from) \in Names
<1>1. CopyNames(job.from.key) \subseteq Names
  BY PresentIn DEF JobOk
<1>q. QED
  BY <1>1, ArchivedIs

LEMMA MoveTyped ==
  ASSUME FilesTyped, CopyInv, Move PROVE FilesTyped'
<1> DEFINE job == Head(arch.todo)
<1>1. /\ arch.todo # <<>>
      /\ \/ job.from \in DOMAIN files /\ files' = Moved(files, job.from, Archived(job.from))
         \/ UNCHANGED files
  BY DEF Move
<1>2. JobOk(World, job)
  BY <1>1, BatchFacts, JobsHeadTail
<1>3. Archived(job.from) \in Names
  BY <1>2, JobIn
<1> HIDE DEF job
<1>4. CASE UNCHANGED files
  BY <1>4 DEF FilesTyped
<1>5. CASE job.from \in DOMAIN files /\ files' = Moved(files, job.from, Archived(job.from))
  BY <1>3, <1>5, MovedTyped
<1>q. QED
  BY <1>1, <1>4, <1>5

LEMMA RollbackTyped ==
  ASSUME FilesTyped, CopyInv, Rollback PROVE FilesTyped'
<1> DEFINE n == Len(arch.moved)
           job == arch.moved[n]
<1>1. JobsOk(World, arch.moved)
  BY BatchFacts
<1>2. CASE n = 0
  BY <1>2 DEF Rollback, FilesTyped
<1>3. CASE n # 0
  <2>1. files' = Restored(job)
    BY <1>3 DEF Rollback
  <2>2. JobOk(World, job)
    BY <1>1, <1>3, JobsFront
  <2>3. job.from \in Names
    BY <2>2, JobIn
  <2> HIDE DEF n, job
  <2>4. CASE Archived(job.from) \in DOMAIN files /\ job.from \notin DOMAIN files
    <3>1. files' = Moved(files, Archived(job.from), job.from)
      BY <2>1, <2>4 DEF Restored
    <3>q. QED
      BY <2>3, <2>4, <3>1, MovedTyped
  <2>5. CASE ~(Archived(job.from) \in DOMAIN files /\ job.from \notin DOMAIN files)
    BY <2>1, <2>5 DEF Restored, FilesTyped
  <2>q. QED
    BY <2>4, <2>5
<1>q. QED
  BY <1>2, <1>3

LEMMA NextFiles ==
  ASSUME RunsInv, CopyInv, FilesTyped, [Next]_vars PROVE FilesTyped'
<1>1. ASSUME files' = files PROVE FilesTyped'
  BY <1>1 DEF FilesTyped
<1>2. ASSUME NEW p \in Promoters, Begin(p) \/ Lock(p) \/ WriteTmp(p) \/ Replace(p) \/ Leave(p)
      PROVE  files' = files
  BY <1>2 DEF Begin, Lock, WriteTmp, Replace, Leave
<1>3. ASSUME NEW p \in Promoters, NEW r \in Runs, Judge(p, r) PROVE files' = files
  BY <1>3 DEF Judge, Gate
<1>4. ASSUME Plan \/ Reread \/ Rewrite \/ Publish \/ ArchiverDies PROVE files' = files
  BY <1>4 DEF Plan, Reread, Rewrite, Publish, ArchiverDies
<1>5. CASE UNCHANGED promotionVars
  BY <1>1, <1>5 DEF promotionVars
<1>q. QED
  BY <1>1, <1>2, <1>3, <1>4, <1>5, Steps, TrainTyped, KeepTyped, MoveTyped, RollbackTyped
  DEF Archive

\* Promoters.
EntryParts == [source : Names \cup {None}, id : Ids \cup {None},
               file : Names \cup {None}, sum : Checkpoints \cup {None}]

LEMMA EntryPart == Entries \subseteq EntryParts
  BY DEF Entries, EntryParts

LEMMA PromIs ==
  ASSUME NEW s
  PROVE  s \in Promotings <=>
           /\ PromShape(s)
           /\ s.pc \in {"idle", "gate", "lock", "keep", "write", "replace"} \cup Outcomes
           /\ s.inc \in Ids \cup {None} /\ s.seen \in Seq(Entries) /\ s.entry \in EntryParts
<1>1. ASSUME s \in Promotings
      PROVE  /\ s = [pc |-> s.pc, inc |-> s.inc, entry |-> s.entry, seen |-> s.seen]
             /\ s.pc \in {"idle", "gate", "lock", "keep", "write", "replace"} \cup Outcomes
             /\ s.inc \in Ids \cup {None} /\ s.seen \in Seq(Entries) /\ s.entry \in EntryParts
  BY <1>1 DEF Promotings, EntryParts
<1>2. ASSUME s.entry \in EntryParts
      PROVE  s.entry = [source |-> s.entry.source, id |-> s.entry.id, file |-> s.entry.file,
                        sum |-> s.entry.sum]
  BY <1>2 DEF EntryParts
<1>3. ASSUME s = [pc |-> s.pc, inc |-> s.inc, entry |-> s.entry, seen |-> s.seen],
             s.pc \in {"idle", "gate", "lock", "keep", "write", "replace"} \cup Outcomes,
             s.inc \in Ids \cup {None}, s.seen \in Seq(Entries), s.entry \in EntryParts
      PROVE  s \in Promotings
  BY <1>3 DEF Promotings, EntryParts
<1>q. QED
  BY <1>1, <1>2, <1>3 DEF PromShape

\* What a step of promoter p finds of its own type.
LEMMA PromFacts ==
  ASSUME TypesInv, CopyInv, NEW p \in Promoters
  PROVE  /\ DOMAIN rec = Promoters /\ PromShape(rec[p])
         /\ rec[p].inc \in Ids \cup {None} /\ rec[p].seen \in Seq(Entries)
         /\ rec[p].entry \in EntryParts
         /\ rec[p].pc \in {"idle", "gate", "lock", "keep", "write", "replace"} \cup Outcomes
  BY PromIs, CopyFacts DEF TypesInv, PromTyped

\* A promoter that goes on to pc with what it has.
LEMMA ToTyped ==
  ASSUME TypesInv, CopyInv, NEW p \in Promoters, NEW pc, To(p, pc),
         pc \in {"idle", "gate", "lock", "keep", "write", "replace"} \cup Outcomes,
         pc = "recorded" => rec[p].entry \in Entries
  PROVE  PromTyped(rec'[p])
<1>1. rec'[p] = [rec[p] EXCEPT !.pc = pc]
  BY PromFacts DEF To
<1>2. rec'[p] = [pc |-> pc, inc |-> rec[p].inc, entry |-> rec[p].entry, seen |-> rec[p].seen]
  BY <1>1, PromFacts DEF PromShape
<1>3. rec'[p] \in Promotings
  BY <1>2, PromFacts DEF Promotings, EntryParts
<1>q. QED
  BY <1>2, <1>3 DEF PromTyped

LEMMA BeginTyped ==
  ASSUME RunsInv, TypesInv, CopyInv, NEW p \in Promoters, Begin(p)
  PROVE  PromTyped(rec'[p])
<1>1. rec'[p] = [rec[p] EXCEPT !.pc = "gate", !.inc = LatestId]
  BY PromFacts DEF Begin
<1>2. rec'[p] = [pc |-> "gate", inc |-> LatestId, entry |-> rec[p].entry, seen |-> rec[p].seen]
  BY <1>1, PromFacts DEF PromShape
<1>3. registry \in Seq(Entries)
  BY ListedIn DEF TypesInv
<1>4. registry # <<>> => registry[Len(registry)] \in Entries
  BY <1>3, InSeq
<1>5. LatestId \in Ids \cup {None}
  BY <1>4 DEF LatestId, Entries
<1>6. rec'[p] \in Promotings
  BY <1>2, <1>5, PromFacts DEF Promotings, EntryParts
<1>q. QED
  BY <1>2, <1>6 DEF PromTyped

LEMMA JudgedIs ==
  ASSUME NEW s, PromShape(s), NEW pc, NEW f, NEW x
  PROVE  LET t == Judged(s, pc, f, x)
         IN  /\ t = [pc |-> pc, inc |-> s.inc, entry |-> t.entry, seen |-> s.seen]
             /\ t.entry = [source |-> f, id |-> x, file |-> s.entry.file, sum |-> s.entry.sum]
<1> DEFINE E(g, y) == [source : {g}, id : {y}, file : {s.entry.file}, sum : {s.entry.sum}]
           P(i, F) == [pc : {i}, inc : {s.inc}, entry : F, seen : {s.seen}]
<1>1. s.entry \in E(s.entry.source, s.entry.id) /\ s \in P(s.pc, {s.entry})
  BY DEF PromShape
<1>2. [s.entry EXCEPT !.source = f, !.id = x] \in E(f, x)
  BY <1>1
<1>3. Judged(s, pc, f, x) \in P(pc, E(f, x))
  BY <1>1, <1>2 DEF Judged
<1>q. QED
  BY <1>3

LEMMA KeptIs ==
  ASSUME NEW s, PromShape(s), NEW f, NEW c
  PROVE  LET t == Kept(s, f, c)
         IN  /\ t = [pc |-> "write", inc |-> s.inc, entry |-> t.entry, seen |-> s.seen]
             /\ t.entry = [source |-> s.entry.source, id |-> s.entry.id, file |-> f, sum |-> c]
<1> DEFINE E(g, y) == [source : {s.entry.source}, id : {s.entry.id}, file : {g}, sum : {y}]
           P(i, F) == [pc : {i}, inc : {s.inc}, entry : F, seen : {s.seen}]
<1>1. s.entry \in E(s.entry.file, s.entry.sum) /\ s \in P(s.pc, {s.entry})
  BY DEF PromShape
<1>2. [s.entry EXCEPT !.file = f, !.sum = c] \in E(f, c)
  BY <1>1
<1>3. Kept(s, f, c) \in P("write", E(f, c))
  BY <1>1, <1>2 DEF Kept
<1>q. QED
  BY <1>3

LEMMA JudgeTyped ==
  ASSUME RunsInv, TypesInv, CopyInv, NEW p \in Promoters, NEW r \in Runs, Judge(p, r)
  PROVE  PromTyped(rec'[p])
<1> DEFINE m == Last(runman[r])
           Sent(pc) == Judged(rec[p], pc, m.source, <<Base[r], m.n>>)
<1>1. PICK pc \in {"lock", "failed"} : rec'[p] = Judged(rec[p], pc, m.source, <<Base[r], m.n>>)
  <2>1. rec'[p] = Sent("lock") \/ rec'[p] = Sent("failed")
    BY CopyFacts DEF Judge, Gate, Judged
  <2>q. QED
    BY <2>1
<1>2. m.source \in Names /\ <<Base[r], m.n>> \in Ids
  <2>1. Numbered(r, runman[r]) /\ runman[r] # <<>>
    BY DEF RunsInv, RunInv, RunOk, Judge
  <2>2. Len(runman[r]) \in Nat /\ DOMAIN runman[r] = 1 .. Len(runman[r]) /\ Len(runman[r]) # 0
    BY <2>1, SeqLen, LenZero DEF Numbered
  <2>3. m.source = Source(r, Len(runman[r])) /\ m.n = Len(runman[r])
    BY <2>1, <2>2 DEF Numbered, Last
  <2>q. QED
    BY <2>2, <2>3, SourceIn
<1> HIDE DEF m
<1>3. /\ rec'[p] = [pc |-> pc, inc |-> rec[p].inc, entry |-> rec'[p].entry, seen |-> rec[p].seen]
      /\ rec'[p].entry = [source |-> m.source, id |-> <<Base[r], m.n>>,
                          file |-> rec[p].entry.file, sum |-> rec[p].entry.sum]
  BY <1>1, PromFacts, JudgedIs
<1>4. rec'[p].entry \in EntryParts
  BY <1>2, <1>3, PromFacts DEF EntryParts
<1>5. rec'[p] \in Promotings
  <2> DEFINE e == rec'[p].entry
  <2>1. e \in EntryParts /\ rec'[p] = [pc |-> pc, inc |-> rec[p].inc, entry |-> e, seen |-> rec[p].seen]
    BY <1>3, <1>4
  <2> HIDE DEF e
  <2>q. QED
    BY <2>1, PromFacts DEF Promotings, EntryParts, Outcomes
<1>6. rec'[p].pc # "recorded"
  BY <1>3
<1>q. QED
  BY <1>5, <1>6 DEF PromTyped

LEMMA LockTyped ==
  ASSUME RunsInv, TypesInv, CopyInv, NEW p \in Promoters, Lock(p)
  PROVE  PromTyped(rec'[p]) /\ lock' \subseteq Promoters
<1>1. lock' \subseteq Promoters
  BY DEF Lock, TypesInv
<1>2. CASE To(p, "raised")
  BY <1>1, <1>2, ToTyped DEF Outcomes
<1>3. CASE rec' = [rec EXCEPT ![p].pc = "keep", ![p].seen = registry]
  <2>1. rec'[p] = [rec[p] EXCEPT !.pc = "keep", !.seen = registry]
    BY <1>3, PromFacts
  <2>2. rec'[p] = [pc |-> "keep", inc |-> rec[p].inc, entry |-> rec[p].entry, seen |-> registry]
    BY <2>1, PromFacts DEF PromShape
  <2>3. registry \in Seq(Entries)
    BY ListedIn DEF TypesInv
  <2>4. rec'[p] \in Promotings
    BY <2>2, <2>3, PromFacts DEF Promotings, EntryParts
  <2>q. QED
    BY <1>1, <2>2, <2>4 DEF PromTyped
<1>q. QED
  BY <1>2, <1>3 DEF Lock

LEMMA KeepsType ==
  ASSUME RunsInv, TypesInv, CopyInv, NEW p \in Promoters, Keep(p, site.managed)
  PROVE  PromTyped(rec'[p])
<1> DEFINE s == rec[p]
           source == s.entry.source
           name == IF site.managed THEN Managed(Len(s.seen) + 1, s.entry.id) ELSE source
<1>1. /\ s.pc = "keep" /\ source \in DOMAIN files
      /\ rec' = [rec EXCEPT ![p].pc = "write", ![p].entry.file = name,
                            ![p].entry.sum = files[source]]
  BY DEF Keep, At
<1>2. ListOk(World, s.seen) /\ Origin(World, source, s.entry.id)
  BY <1>1, CopyFacts DEF PromOk
<1>3. source \in Names /\ s.entry.id \in Ids /\ Len(s.seen) + 1 \in Nat
  BY <1>2, OriginIn, SeqLen DEF ListOk
<1>4. name \in Names
  BY <1>3, ManagedIn
<1>5. files[source] \in Checkpoints
  BY <1>1 DEF TypesInv, FilesTyped
<1>6. rec'[p] = Kept(s, name, files[source])
  BY <1>1, PromFacts DEF Kept
<1>7. PromShape(s) /\ s.inc \in Ids \cup {None} /\ s.seen \in Seq(Entries)
  BY PromFacts
<1> HIDE DEF name, source, s
<1> DEFINE t == Kept(s, name, files[source])
<1>8. /\ t.entry = [source |-> s.entry.source, id |-> s.entry.id, file |-> name,
                    sum |-> files[source]]
      /\ t = [pc |-> "write", inc |-> s.inc, entry |-> t.entry, seen |-> s.seen]
  BY <1>7, KeptIs
<1>9. t.entry \in EntryParts
  BY <1>3, <1>4, <1>5, <1>8 DEF EntryParts, source
<1> HIDE DEF t
<1>10. t \in Promotings
  <2> DEFINE e == t.entry
  <2>1. e \in EntryParts /\ t = [pc |-> "write", inc |-> s.inc, entry |-> e, seen |-> s.seen]
    BY <1>8, <1>9
  <2> HIDE DEF e
  <2>q. QED
    BY <1>7, <2>1 DEF Promotings, EntryParts
<1>q. QED
  BY <1>6, <1>8, <1>10 DEF PromTyped, t

LEMMA ReplaceTyped ==
  ASSUME RunsInv, TypesInv, CopyInv, NEW p \in Promoters, Replace(p)
  PROVE  PromTyped(rec'[p])
<1>1. rec[p].pc = "replace" /\ (To(p, "recorded") \/ To(p, "raised"))
  BY DEF Replace, At
<1>2. rec[p].entry \in Entries
  BY <1>1, CopyFacts, EntryIn DEF PromOk, TypesInv
<1>q. QED
  BY <1>1, <1>2, ToTyped DEF Outcomes

LEMMA NextPromoters ==
  ASSUME RunsInv, CopyInv, TypesInv, [Next]_vars
  PROVE  lock' \subseteq Promoters /\ \A p \in Promoters : PromTyped(rec'[p])
<1>1. ASSUME UNCHANGED <<lock, rec>>
      PROVE  lock' \subseteq Promoters /\ \A p \in Promoters : PromTyped(rec'[p])
  BY <1>1 DEF TypesInv
<1>2. ASSUME NEW p \in Promoters, PromTyped(rec'[p]), lock' \subseteq Promoters,
             \A q \in Promoters : q # p => rec'[q] = rec[q]
      PROVE  lock' \subseteq Promoters /\ \A q \in Promoters : PromTyped(rec'[q])
  BY <1>2 DEF TypesInv
<1>3. CASE UNCHANGED promotionVars
  BY <1>1, <1>3 DEF promotionVars
<1>4. ASSUME NEW r \in Runs, Train(r) PROVE UNCHANGED <<lock, rec>>
  BY <1>4 DEF Train
<1>5. ASSUME NEW p \in Promoters,
             Begin(p) \/ Lock(p) \/ Keep(p, site.managed) \/ WriteTmp(p) \/ Replace(p) \/ Leave(p)
      PROVE  \A q \in Promoters : q # p => rec'[q] = rec[q]
  BY <1>5, CopyFacts DEF Begin, Lock, Keep, WriteTmp, Replace, Leave, To
<1>6. ASSUME NEW p \in Promoters, NEW r \in Runs, Judge(p, r)
      PROVE  (\A q \in Promoters : q # p => rec'[q] = rec[q]) /\ lock' = lock
  BY <1>6, CopyFacts DEF Judge, Gate
<1>7. ASSUME NEW p \in Promoters, Begin(p) \/ Keep(p, site.managed) \/ WriteTmp(p)
      PROVE  lock' = lock
  BY <1>7 DEF Begin, Keep, WriteTmp
<1>8. ASSUME NEW p \in Promoters, Replace(p) \/ Leave(p) PROVE lock' \subseteq lock
  BY <1>8 DEF Replace, Leave, Released
<1>9. lock \subseteq Promoters
  BY DEF TypesInv
<1>10. ASSUME NEW p \in Promoters, WriteTmp(p) PROVE PromTyped(rec'[p])
  BY <1>10, ToTyped DEF WriteTmp
<1>11. ASSUME NEW p \in Promoters, Leave(p) PROVE PromTyped(rec'[p])
  <2>1. rec'[p] = Idle
    BY <1>11, PromFacts DEF Leave
  <2>2. Idle \in Promotings
    BY EmptySeq DEF Idle, NoEntry, Promotings
  <2>q. QED
    BY <2>1, <2>2 DEF PromTyped, Idle
<1>12. ASSUME NEW p \in Promoters,
              Begin(p) \/ Lock(p) \/ Keep(p, site.managed) \/ WriteTmp(p) \/ Replace(p) \/ Leave(p)
       PROVE  PromTyped(rec'[p]) /\ lock' \subseteq Promoters
  BY <1>7, <1>8, <1>9, <1>10, <1>11, <1>12, BeginTyped, LockTyped, KeepsType, ReplaceTyped
<1>13. ASSUME Archive \/ ArchiverDies PROVE UNCHANGED <<lock, rec>>
  BY <1>13 DEF Archive, Plan, Move, Reread, Rewrite, Publish, Rollback, ArchiverDies
<1>q. QED
  BY <1>1, <1>2, <1>3, <1>4, <1>5, <1>6, <1>9, <1>12, <1>13, Steps, JudgeTyped

\* The archiver.
LEMMA BatchIs ==
  ASSUME NEW a, NEW pc \in {"idle", "move", "write", "replace", "rollback"},
         NEW todo \in Seq(Jobs), NEW moved \in Seq(Jobs), NEW seen \in Seq(Entries),
         a = [pc |-> pc, todo |-> todo, moved |-> moved, seen |-> seen]
  PROVE  a \in Batches
BY DEF Batches

LEMMA ArchFacts ==
  ASSUME TypesInv
  PROVE  /\ arch = [pc |-> arch.pc, todo |-> arch.todo, moved |-> arch.moved, seen |-> arch.seen]
         /\ arch.pc \in {"idle", "move", "write", "replace", "rollback"}
         /\ arch.todo \in Seq(Jobs) /\ arch.moved \in Seq(Jobs) /\ arch.seen \in Seq(Entries)
BY DEF TypesInv, Batches

LEMMA NoBatchIn == NoBatch \in Batches
  BY EmptySeq DEF NoBatch, Batches

LEMMA PlanTyped ==
  ASSUME RunsInv, TypesInv, CopyInv, Plan PROVE arch' \in Batches
<1> DEFINE todo == [k \in 1 .. Cardinality(Stale) |->
                      LET i == Ascending(Stale)[k] IN [seq |-> i, from |-> registry[i].file]]
<1>1. arch' = [arch EXCEPT !.pc = "move", !.todo = todo]
  BY DEF Plan
<1>2. registry \in Seq(Entries)
  BY ListedIn DEF TypesInv
<1>3. Len(registry) \in Nat /\ DOMAIN registry = 1 .. Len(registry)
      /\ \A i \in DOMAIN registry : registry[i] \in Entries
  BY <1>2, InSeq
<1>4. Stale \in SUBSET (1 .. Len(registry))
  BY <1>3 DEF Stale
<1>5. Cardinality(Stale) \in Nat
  BY <1>3, <1>4, UpToFacts
<1>6. ASSUME NEW k \in 1 .. Cardinality(Stale) PROVE todo[k] \in Jobs
  <2>1. Ascending(Stale)[k] \in 1 .. Len(registry)
    BY <1>3, <1>4, AscendingIn
  <2>2. Ascending(Stale)[k] \in Nat /\ registry[Ascending(Stale)[k]].file \in Names
    BY <1>3, <2>1 DEF Entries
  <2>3. todo[k] = [seq |-> Ascending(Stale)[k], from |-> registry[Ascending(Stale)[k]].file]
    OBVIOUS
  <2>q. QED
    BY <2>2, <2>3 DEF Jobs
<1>7. DOMAIN todo = 1 .. Cardinality(Stale) /\ todo = [k \in 1 .. Cardinality(Stale) |-> todo[k]]
  OBVIOUS
<1> HIDE DEF todo
<1>8. todo \in Seq(Jobs)
  BY <1>5, <1>6, <1>7, SeqDef
<1>9. arch' = [pc |-> "move", todo |-> todo, moved |-> arch.moved, seen |-> arch.seen]
  BY <1>1, ArchFacts
<1>q. QED
  BY <1>8, <1>9, ArchFacts, BatchIs

LEMMA MovesType ==
  ASSUME TypesInv, Move PROVE arch' \in Batches
<1> DEFINE job == Head(arch.todo)
<1>1. /\ arch.todo # <<>> /\ arch.pc = "move"
      /\ \/ arch' = [arch EXCEPT !.todo = Tail(@), !.moved = Append(@, job)]
         \/ arch' = [arch EXCEPT !.pc = "rollback"]
  BY DEF Move
<1>2. job \in Jobs /\ Tail(arch.todo) \in Seq(Jobs)
  BY <1>1, ArchFacts, HeadTailProperties
<1> HIDE DEF job
<1>3. Append(arch.moved, job) \in Seq(Jobs)
  BY <1>2, ArchFacts, AppendProperties
<1>4. CASE arch' = [arch EXCEPT !.pc = "rollback"]
  <2>1. arch' = [pc |-> "rollback", todo |-> arch.todo, moved |-> arch.moved, seen |-> arch.seen]
    BY <1>4, ArchFacts
  <2>q. QED
    BY <2>1, ArchFacts, BatchIs
<1>5. CASE arch' = [arch EXCEPT !.todo = Tail(@), !.moved = Append(@, job)]
  <2>1. arch' = [pc |-> arch.pc, todo |-> Tail(arch.todo), moved |-> Append(arch.moved, job),
                 seen |-> arch.seen]
    BY <1>5, ArchFacts
  <2>q. QED
    BY <1>2, <1>3, <2>1, ArchFacts, BatchIs
<1>q. QED
  BY <1>1, <1>4, <1>5

LEMMA RollsBackType ==
  ASSUME TypesInv, Rollback PROVE arch' \in Batches
<1> DEFINE n == Len(arch.moved)
<1>1. arch.pc = "rollback"
      /\ (arch' = NoBatch \/ (n # 0 /\ arch' = [arch EXCEPT !.moved = SubSeq(@, 1, n - 1)]))
  BY DEF Rollback
<1>2. CASE arch' = NoBatch
  BY <1>2, NoBatchIn
<1>3. CASE n # 0 /\ arch' = [arch EXCEPT !.moved = SubSeq(@, 1, n - 1)]
  <2>1. n \in Nat /\ arch.moved \in Seq(Jobs)
    BY ArchFacts, InSeq
  <2>2. 1 \in 1 .. n + 1 /\ n - 1 \in 0 .. n
    BY <1>3, <2>1
  <2>3. SubSeq(arch.moved, 1, n - 1) \in Seq(Jobs)
    BY <2>1, <2>2, SubSeqProperties
  <2>4. arch' = [pc |-> "rollback", todo |-> arch.todo, moved |-> SubSeq(arch.moved, 1, n - 1),
                 seen |-> arch.seen]
    BY <1>1, <1>3, ArchFacts
  <2>q. QED
    BY <2>3, <2>4, ArchFacts, BatchIs
<1>q. QED
  BY <1>1, <1>2, <1>3

LEMMA NextBatches ==
  ASSUME RunsInv, CopyInv, TypesInv, [Next]_vars PROVE arch' \in Batches
<1>1. CASE arch' = arch
  BY <1>1 DEF TypesInv
<1>2. ASSUME Reread \/ Rewrite \/ Publish \/ ArchiverDies PROVE arch' \in Batches
  <2>1. registry \in Seq(Entries)
    BY ListedIn DEF TypesInv
  <2>2. ASSUME NEW pc \in {"replace", "rollback"}, arch' = [arch EXCEPT !.pc = pc]
        PROVE  arch' \in Batches
    <3>1. arch' = [pc |-> pc, todo |-> arch.todo, moved |-> arch.moved, seen |-> arch.seen]
      BY <2>2, ArchFacts
    <3>q. QED
      BY <3>1, ArchFacts, BatchIs
  <2>3. ASSUME arch' = [arch EXCEPT !.pc = "write", !.seen = registry]
        PROVE  arch' \in Batches
    <3>1. arch' = [pc |-> "write", todo |-> arch.todo, moved |-> arch.moved, seen |-> registry]
      BY <2>3, ArchFacts
    <3>q. QED
      BY <2>1, <3>1, ArchFacts, BatchIs
  <2>4. \/ arch' = NoBatch \/ arch' = [arch EXCEPT !.pc = "replace"]
        \/ arch' = [arch EXCEPT !.pc = "rollback"]
        \/ arch' = [arch EXCEPT !.pc = "write", !.seen = registry]
    BY <1>2 DEF Reread, Rewrite, Publish, ArchiverDies
  <2>q. QED
    BY <2>2, <2>3, <2>4, NoBatchIn
<1>3. ASSUME NEW p \in Promoters,
             Begin(p) \/ Lock(p) \/ Keep(p, site.managed) \/ WriteTmp(p) \/ Replace(p) \/ Leave(p)
      PROVE  arch' = arch
  BY <1>3 DEF Begin, Lock, Keep, WriteTmp, Replace, Leave
<1>4. ASSUME NEW r \in Runs, Train(r) \/ \E p \in Promoters : Judge(p, r) PROVE arch' = arch
  BY <1>4 DEF Train, Judge, Gate
<1>5. CASE UNCHANGED promotionVars
  BY <1>1, <1>5 DEF promotionVars
<1>q. QED
  BY <1>1, <1>2, <1>3, <1>4, <1>5, Steps, PlanTyped, MovesType, RollsBackType DEF Archive

\* Runs.
Going(s) ==
  /\ s.pc \in {"collect", "train", "evaluate", "publish", "promote", "finish"}
  /\ s.first \in Nat /\ s.iter \in Nat /\ s.last \in Nat /\ s.games \in Nat /\ s.evals \in Nat
  /\ s.base \in Nat /\ s.eval \in Nat /\ s.current \in Names \cup {None}
  /\ s.pool \in Seq(Names) /\ s.done \in Seq(Manifests) /\ s.m \in Manifests \cup {None}

LEMMA GoingIs ==
  ASSUME NEW s, RunShape(s), s.pc # "off" PROVE s \in RunStates <=> Going(s)
<1>1. s # Off
  BY DEF Off
<1>2. s \in RunStates => Going(s)
  BY <1>1 DEF RunStates, Going
<1>3. Going(s) => s \in RunStates
  BY DEF RunShape, RunStates, Going
<1>q. QED
  BY <1>2, <1>3

\* A run that has been at work: what it finds of its own.
LEMMA GoingFacts ==
  ASSUME RunsInv, SequencesInv, RunsTyped, NEW r \in Runs
  PROVE  /\ RunShape(run[r]) /\ RunTyped(run[r], iterman[r], runman[r])
         /\ r \in DOMAIN run /\ r \in DOMAIN iterman /\ r \in DOMAIN runman
         /\ IsSeq(iterman[r]) /\ IsSeq(runman[r])
         /\ run[r].pc # "off" => Going(run[r])
         /\ run[r].pc \in {"publish", "promote", "finish"} => run[r].m \in Manifests
<1>1. RunOk(r, run[r], iterman[r], runman[r]) /\ RunTyped(run[r], iterman[r], runman[r])
      /\ r \in DOMAIN run /\ r \in DOMAIN iterman /\ r \in DOMAIN runman
  BY DEF RunsInv, RunInv, RunsTyped
<1>2. RunShape(run[r]) /\ IsSeq(iterman[r]) /\ IsSeq(runman[r])
  BY <1>1 DEF RunOk, Numbered
<1>q. QED
  BY <1>1, <1>2, GoingIs DEF RunTyped

\* The manifest of an iteration, of which the seeds are known to be numbers.
LEMMA ManifestIn ==
  ASSUME NEW m, MShape(m), Fine(m), m.n \in Nat, m.source \in Names,
         m.current \in Names \cup {None}, m.bench \in Ids \cup {None}, m.wins \in BOOLEAN,
         m.advance \in BOOLEAN, m.accepted \in Names \cup {None}, m.promo \in Nat
  PROVE  m \in Manifests
BY DEF MShape, Fine, Manifests

LEMMA NextSpecIn ==
  ASSUME NEW m \in Manifests
  PROVE  NextSpec(m) \in Names \cup {None} /\ (m.advance => NextSpec(m) \in Names)
BY DEF NextSpec, Manifests

LEMMA SpecsIn == ASSUME NEW es \in Seq(Entries) PROVE Specs(es) \in Seq(Names)
<1>1. Len(es) \in Nat /\ DOMAIN es = 1 .. Len(es) /\ \A i \in DOMAIN es : es[i] \in Entries
  BY InSeq
<1>2. Specs(es) \in [1 .. Len(es) -> Names]
  BY <1>1 DEF Specs, Entries
<1>q. QED
  BY <1>1, <1>2, SeqDef

\* Select returns elements of the sequence.
LEMMA SelectIs ==
  ASSUME NEW s, IsSeq(s), NEW S, S \subseteq DOMAIN s
  PROVE  /\ Cardinality(S) \in Nat /\ IsSeq(Select(s, S))
         /\ Len(Select(s, S)) = Cardinality(S) /\ DOMAIN Select(s, S) = 1 .. Cardinality(S)
         /\ \A k \in 1 .. Cardinality(S) : Ascending(S)[k] \in S /\ Select(s, S)[k] = s[Ascending(S)[k]]
<1>1. Len(s) \in Nat /\ S \in SUBSET (1 .. Len(s))
  BY SeqLen
<1>2. Cardinality(S) \in Nat
  BY <1>1, UpToFacts
<1>3. \A k \in 1 .. Cardinality(S) : Ascending(S)[k] \in S
  BY <1>1, AscendingIn
<1> DEFINE t == Select(s, S)
<1>4. t = [k \in 1 .. Cardinality(S) |-> t[k]] /\ \A k \in 1 .. Cardinality(S) : t[k] = s[Ascending(S)[k]]
  BY DEF Select
<1> HIDE DEF t
<1>5. IsSeq(t) /\ Len(t) = Cardinality(S) /\ DOMAIN t = 1 .. Cardinality(S)
  BY <1>2, <1>4, FunIs
<1>q. QED
  BY <1>2, <1>3, <1>4, <1>5 DEF t

LEMMA HistoryIn ==
  ASSUME NEW ms, IsSeq(ms), \A i \in DOMAIN ms : ms[i] \in Manifests
  PROVE  History(ms) \in Seq(Names)
<1> DEFINE S == {i \in DOMAIN ms : ms[i].advance}
           t == Select(ms, S)
           h == [k \in DOMAIN t |-> NextSpec(t[k])]
<1>1. /\ Cardinality(S) \in Nat /\ DOMAIN t = 1 .. Cardinality(S)
      /\ \A k \in 1 .. Cardinality(S) : Ascending(S)[k] \in S /\ t[k] = ms[Ascending(S)[k]]
  BY SelectIs
<1>2. \A k \in 1 .. Cardinality(S) : t[k] \in Manifests /\ t[k].advance
  <2> HIDE DEF t
  <2>q. QED
    BY <1>1
<1> HIDE DEF S, t
<1>3. h \in [1 .. Cardinality(S) -> Names]
  BY <1>1, <1>2, NextSpecIn
<1>4. h \in Seq(Names)
  BY <1>1, <1>3, SeqDef
<1>q. QED
  BY <1>4 DEF History, S, t

\* A step of run r that keeps the types of what is its own.
LEMMA RunTypedGoes ==
  ASSUME RunsTyped, NEW r \in Runs, SequenceGoesOn(r), RunTyped(run'[r], iterman'[r], runman'[r])
  PROVE  RunsTyped'
BY DEF RunsTyped, SequenceGoesOn, OnlyRun

LEMMA DiesTyped ==
  ASSUME RunsInv, SequencesInv, RunsTyped, NEW r \in Runs, Dies(r), UNCHANGED <<iterman, runman>>
  PROVE  RunsTyped'
<1>1. run'[r] = Off /\ RunTyped(run[r], iterman[r], runman[r])
  BY GoingFacts DEF Dies
<1>2. RunTyped(Off, iterman[r], runman[r])
  BY <1>1 DEF RunTyped, RunStates, Off
<1>q. QED
  BY <1>1, <1>2, DiesSequence, RunTypedGoes

LEMMA EntersTyped ==
  ASSUME RunsInv, SequencesInv, RunsTyped, NEW r \in Runs, NEW pc, Enters(r, pc),
         UNCHANGED <<iterman, runman>>,
         <<run[r].pc, pc>> \in {<<"collect", "train">>, <<"train", "evaluate">>}
  PROVE  RunsTyped'
<1>1. run'[r] = [run[r] EXCEPT !.pc = pc] /\ Going(run[r]) /\ RunShape(run[r])
      /\ RunTyped(run[r], iterman[r], runman[r])
  BY GoingFacts DEF Enters
<1>2. RunShape(run'[r]) /\ Going(run'[r]) /\ run'[r].pc \in {"train", "evaluate"}
  BY <1>1 DEF RunShape, Going
<1>3. RunTyped(run'[r], iterman[r], runman[r])
  BY <1>1, <1>2, GoingIs DEF RunTyped
<1>q. QED
  BY <1>3, EntersSequence, RunTypedGoes

LEMMA StartTyped ==
  ASSUME RunsInv, SequencesInv, TypesInv, CopyInv, NEW r \in Runs, Start(r)
  PROVE  RunsTyped'
<1> DEFINE ms == Prior(r)
           current == IF ms = <<>> THEN None ELSE NextSpec(Last(ms))
           pool == IF Mode(r) = "promote" THEN Specs(registry) ELSE History(ms)
<1>1. RunTyped(run[r], iterman[r], runman[r]) /\ r \in DOMAIN run
      /\ RunOk(r, run[r], iterman[r], runman[r]) /\ SequenceOk(run[r], iterman[r], runman[r])
  BY GoingFacts, SequenceFacts DEF TypesInv
<1>2. /\ Numbered(r, ms) /\ Chained(ms) /\ \A i \in DOMAIN ms : ms[i] \in Manifests
  BY <1>1 DEF Prior, RunOk, RunTyped, SequenceOk
<1>3. IsSeq(ms) /\ ms \in Seq(Manifests)
  BY <1>2, SeqIn DEF Numbered
<1>4. Len(ms) \in Nat /\ DOMAIN ms = 1 .. Len(ms) /\ (ms = <<>> <=> Len(ms) = 0)
  BY <1>3, SeqLen, LenZero
<1>5. FirstIteration(ms) \in Nat
  BY <1>2, <1>4 DEF FirstIteration, Last, Numbered
<1>6. NextSeed(ms) \in Nat /\ NextEvaluation(ms) \in Nat
  BY <1>2, NextSeedIs, NextEvaluationIs
<1>7. current \in Names \cup {None}
  <2>1. ms # <<>> => Last(ms) \in Manifests
    BY <1>3, InSeq DEF Last
  <2>q. QED
    BY <2>1, NextSpecIn
<1>8. pool \in Seq(Names)
  <2>1. Specs(registry) \in Seq(Names)
    BY ListedIn, SpecsIn DEF TypesInv
  <2>2. History(ms) \in Seq(Names)
    BY <1>2, <1>3, HistoryIn
  <2>q. QED
    BY <2>1, <2>2
<1>9. iterman' = iterman /\ runman' = runman
  BY DEF Start
<1>10. PICK size \in site.sizes : \E last \in FirstIteration(ms) .. site.goal[r] :
        run' = [run EXCEPT ![r] =
                [pc |-> "collect", first |-> FirstIteration(ms), iter |-> FirstIteration(ms),
                 last |-> last, games |-> size.games, evals |-> size.evals,
                 base |-> NextSeed(ms), eval |-> NextEvaluation(ms), current |-> current,
                 pool |-> pool, done |-> ms, m |-> None]]
  BY DEF Start
<1>11. PICK last \in FirstIteration(ms) .. site.goal[r] :
        run' = [run EXCEPT ![r] =
                [pc |-> "collect", first |-> FirstIteration(ms), iter |-> FirstIteration(ms),
                 last |-> last, games |-> size.games, evals |-> size.evals,
                 base |-> NextSeed(ms), eval |-> NextEvaluation(ms), current |-> current,
                 pool |-> pool, done |-> ms, m |-> None]]
  BY <1>10
<1>12. size.games \in Nat /\ size.evals \in Nat /\ site.goal[r] \in Nat
  <2>1. size \in [games : Nat, evals : Nat] /\ site.goal \in [Runs -> Nat]
    BY SitesAssumption DEF SequencesInv
  <2>q. QED
    BY <2>1
<1>13. last \in Nat
  BY <1>5, <1>12
<1> HIDE DEF ms, current, pool
<1> DEFINE s == run'[r]
<1>14. s = [pc |-> "collect", first |-> FirstIteration(ms), iter |-> FirstIteration(ms),
            last |-> last, games |-> size.games, evals |-> size.evals,
            base |-> NextSeed(ms), eval |-> NextEvaluation(ms), current |-> current,
            pool |-> pool, done |-> ms, m |-> None]
  BY <1>1, <1>11
<1> HIDE DEF s
<1>15. s \in RunStates
  BY <1>3, <1>5, <1>6, <1>7, <1>8, <1>12, <1>13, <1>14 DEF RunStates
<1>16. RunTyped(s, iterman[r], runman[r])
  BY <1>1, <1>14, <1>15 DEF RunTyped
<1>q. QED
  BY <1>9, <1>16, StartSequence, RunTypedGoes DEF s, TypesInv

\* A manifest that is put among typed ones, or after them.
LEMMA PutIn ==
  ASSUME NEW ms, \A i \in DOMAIN ms : ms[i] \in Manifests, NEW k, NEW m \in Manifests
  PROVE  \A i \in DOMAIN Put(ms, k, m) : Put(ms, k, m)[i] \in Manifests
BY DEF Put

LEMMA DoneIn ==
  ASSUME NEW ms \in Seq(Manifests), NEW m \in Manifests
  PROVE  Append(ms, m) \in Seq(Manifests) /\ \A i \in DOMAIN Append(ms, m) : Append(ms, m)[i] \in Manifests
<1>1. Append(ms, m) \in Seq(Manifests)
  BY AppendProperties
<1>q. QED
  BY <1>1, InSeq

LEMMA EvaluateTyped ==
  ASSUME RunsInv, SequencesInv, TypesInv, NEW r \in Runs, Evaluate(r) PROVE RunsTyped'
<1>1. /\ RunShape(run[r]) /\ Going(run[r]) /\ RunTyped(run[r], iterman[r], runman[r])
      /\ r \in DOMAIN run /\ r \in DOMAIN iterman /\ runman' = runman /\ run[r].pc = "evaluate"
      /\ RunOk(r, run[r], iterman[r], runman[r])
  BY GoingFacts, SequenceFacts DEF Evaluate, Pc, TypesInv
<1>2. CASE Dies(r) /\ UNCHANGED iterman
  BY <1>1, <1>2, DiesTyped DEF TypesInv
<1>3. CASE ~(Dies(r) /\ UNCHANGED iterman)
  <2>1. PICK measured \in MayMeasure(r), wins \in BOOLEAN :
          /\ ~(measured /\ ~Loadable(Incumbent(r)))
          /\ run' = [run EXCEPT ![r].pc = "publish",
                                ![r].m = IterationManifest(r, measured, wins),
                                ![r].eval = @ + IterationManifest(r, measured, wins).evals]
          /\ iterman' = [iterman EXCEPT
                          ![r] = Put(@, run[r].iter, IterationManifest(r, measured, wins))]
    BY <1>3 DEF Evaluate
  <2> DEFINE m == IterationManifest(r, measured, wins)
             s == run'[r]
  <2>2. /\ MShape(m) /\ m.n = run[r].iter /\ m.source = Source(r, run[r].iter)
        /\ m.current = run[r].current /\ m.bench = (IF measured THEN Bench(r) ELSE None)
        /\ m.wins = wins /\ m.advance = Advances(r, measured, wins) /\ m.accepted = None
        /\ m.promo = 0 /\ m.evals = (IF measured THEN run[r].evals ELSE 0)
    BY DEF IterationManifest, MShape
  <2>3. /\ run' = [run EXCEPT ![r].pc = "publish", ![r].m = m, ![r].eval = @ + m.evals]
        /\ iterman' = [iterman EXCEPT ![r] = Put(@, run[r].iter, m)]
    BY <2>1
  <2>4. Advances(r, measured, wins) \in BOOLEAN
    <3>1. measured \in BOOLEAN
      BY DEF MayMeasure
    <3>q. QED
      BY <3>1 DEF Advances
  <2>5. Bench(r) \in Ids \cup {None} \/ ~measured
    <3> DEFINE spec == Incumbent(r)
    <3>1. CASE measured /\ spec # None
      <4>1. spec \in DOMAIN files
        BY <2>1, <3>1 DEF Loadable
      <4>2. files[spec] \in Checkpoints
        BY <4>1 DEF TypesInv, FilesTyped
      <4>3. Id(files[spec]) \in Ids
        BY <4>2, SourceIn DEF Id, Checkpoints
      <4> HIDE DEF spec
      <4>q. QED
        BY <4>3 DEF Bench, spec
    <3>2. CASE spec = None
      BY <3>2 DEF Bench
    <3>q. QED
      BY <3>1, <3>2
  <2> HIDE DEF m
  <2>6. s = [run[r] EXCEPT !.pc = "publish", !.m = m, !.eval = @ + m.evals]
    BY <1>1, <2>3
  <2>7. /\ RunShape(s) /\ s.pc = "publish" /\ s.m = m /\ s.eval = run[r].eval + m.evals
        /\ s.first = run[r].first /\ s.iter = run[r].iter /\ s.last = run[r].last
        /\ s.games = run[r].games /\ s.evals = run[r].evals /\ s.base = run[r].base
        /\ s.current = run[r].current /\ s.pool = run[r].pool /\ s.done = run[r].done
    BY <1>1, <2>6 DEF RunShape
  <2> HIDE DEF s
  <2>8. SequenceGoesOn(r)
    BY EvaluateSequence
  <2>9. Fine(m)
    BY <2>7, <2>8 DEF SequenceGoesOn, SequenceOk, Follows, s
  <2>10. m \in Manifests
    <3>1. m.n \in Nat /\ m.source \in Names /\ m.current \in Names \cup {None}
      BY <1>1, <2>2, SourceIn DEF Going
    <3>2. m.bench \in Ids \cup {None}
      BY <2>2, <2>5
    <3>q. QED
      BY <2>2, <2>4, <2>9, <3>1, <3>2, ManifestIn
  <2>11. Going(s)
    <3>1. s.eval \in Nat
      BY <1>1, <2>7, <2>9 DEF Going, Fine
    <3>q. QED
      BY <1>1, <2>7, <2>10, <3>1 DEF Going
  <2>12. \A i \in DOMAIN iterman'[r] : iterman'[r][i] \in Manifests
    BY <1>1, <2>3, <2>10, PutIn DEF RunTyped
  <2>13. RunTyped(s, iterman'[r], runman'[r])
    BY <1>1, <2>7, <2>10, <2>11, <2>12, GoingIs DEF RunTyped
  <2>q. QED
    BY <2>8, <2>13, RunTypedGoes DEF s, TypesInv
<1>q. QED
  BY <1>2, <1>3

LEMMA WriteRunTyped ==
  ASSUME RunsInv, SequencesInv, RunsTyped, NEW r \in Runs, WriteRun(r) PROVE RunsTyped'
<1>1. /\ RunShape(run[r]) /\ Going(run[r]) /\ RunTyped(run[r], iterman[r], runman[r])
      /\ r \in DOMAIN run /\ r \in DOMAIN runman /\ iterman' = iterman /\ run[r].m \in Manifests
  BY GoingFacts DEF WriteRun, Pc
<1>2. PICK pc \in {"promote", "finish"} : Enters(r, pc)
  BY DEF WriteRun
<1>3. run'[r] = [run[r] EXCEPT !.pc = pc] /\ runman'[r] = Append(run[r].done, run[r].m)
  BY <1>1, <1>2 DEF Enters, WriteRun
<1>4. RunShape(run'[r]) /\ Going(run'[r]) /\ run'[r].pc = pc /\ run'[r].m = run[r].m
  BY <1>1, <1>3 DEF RunShape, Going
<1>5. \A i \in DOMAIN runman'[r] : runman'[r][i] \in Manifests
  BY <1>1, <1>3, DoneIn DEF Going
<1>6. RunTyped(run'[r], iterman'[r], runman'[r])
  BY <1>1, <1>4, <1>5, GoingIs DEF RunTyped
<1>q. QED
  BY <1>6, WriteRunSequence, RunTypedGoes

\* The decision names the entry that was recorded.
LEMMA DecideTyped ==
  ASSUME RunsInv, SequencesInv, TypesInv, CopyInv, NEW r \in Runs, Decide(r) PROVE RunsTyped'
<1> DEFINE recorded == rec[r].pc = "recorded"
           after == Append(rec[r].seen, rec[r].entry)
           accepted == IF recorded THEN Accepted(r) ELSE None
           promo == IF recorded THEN Len(after) ELSE 0
           pool == IF recorded THEN Specs(after) ELSE run[r].pool
           m == Decided(run[r].m, recorded, accepted, promo)
           s == run'[r]
<1>1. /\ RunShape(run[r]) /\ Going(run[r]) /\ RunTyped(run[r], iterman[r], runman[r])
      /\ r \in DOMAIN run /\ r \in DOMAIN iterman /\ run[r].m \in Manifests
      /\ SequenceOk(run[r], iterman[r], runman[r]) /\ run[r].pc = "promote"
  BY GoingFacts, SequenceFacts DEF Decide, Pc, TypesInv
<1>2. runman' = runman
  BY DEF Decide
<1>3. /\ iterman' = [iterman EXCEPT ![r] = Put(@, m.n, m)]
      /\ run' = [run EXCEPT ![r].pc = "finish", ![r].m = m,
                            ![r].pool = IF recorded THEN Specs(after) ELSE @]
  BY DEF Decide, Decided
<1>4. recorded => rec[r].entry \in Entries /\ rec[r].seen \in Seq(Entries)
  BY PromFacts DEF TypesInv, PromTyped, Promoters
<1>5. recorded => after \in Seq(Entries) /\ Len(after) \in Nat /\ Specs(after) \in Seq(Names)
  <2>1. recorded => after \in Seq(Entries)
    BY <1>4, AppendProperties
  <2> HIDE DEF after
  <2>q. QED
    BY <2>1, InSeq, SpecsIn
<1>6. accepted \in Names \cup {None} /\ promo \in Nat /\ pool \in Seq(Names)
  BY <1>1, <1>4, <1>5 DEF Accepted, Entries, Going
<1>7. m \in Manifests
  <2>1. recorded \in BOOLEAN
    OBVIOUS
  <2> HIDE DEF recorded, accepted, promo
  <2>q. QED
    BY <1>1, <1>6, <2>1 DEF Decided, Manifests
<1>8. s = [run[r] EXCEPT !.pc = "finish", !.m = m, !.pool = pool]
  BY <1>1, <1>3
<1> HIDE DEF m, pool, accepted, promo, recorded, after
<1>9. /\ RunShape(s) /\ s.pc = "finish" /\ s.m = m /\ s.eval = run[r].eval
      /\ s.first = run[r].first /\ s.iter = run[r].iter /\ s.last = run[r].last
      /\ s.games = run[r].games /\ s.evals = run[r].evals /\ s.base = run[r].base
      /\ s.current = run[r].current /\ s.pool = pool /\ s.done = run[r].done
  BY <1>1, <1>8 DEF RunShape
<1> HIDE DEF s
<1>10. Going(s)
  BY <1>1, <1>6, <1>7, <1>9 DEF Going
<1>11. \A i \in DOMAIN iterman'[r] : iterman'[r][i] \in Manifests
  BY <1>1, <1>3, <1>7, PutIn DEF RunTyped
<1>12. RunTyped(s, iterman'[r], runman'[r])
  BY <1>1, <1>2, <1>7, <1>9, <1>10, <1>11, GoingIs DEF RunTyped
<1>q. QED
  BY <1>12, DecideSequence, RunTypedGoes DEF s, TypesInv

LEMMA FinishTyped ==
  ASSUME RunsInv, SequencesInv, RunsTyped, NEW r \in Runs, Finish(r) PROVE RunsTyped'
<1> DEFINE done == Append(run[r].done, run[r].m)
           next == NextSpec(run[r].m)
           grows == Mode(r) # "promote" /\ run[r].m.advance
           pool == IF grows THEN Append(run[r].pool, next) ELSE run[r].pool
<1>1. /\ RunShape(run[r]) /\ Going(run[r]) /\ RunTyped(run[r], iterman[r], runman[r])
      /\ r \in DOMAIN run /\ r \in DOMAIN runman /\ iterman' = iterman /\ run[r].m \in Manifests
  BY GoingFacts DEF Finish, Pc
<1>2. runman'[r] = done
  BY <1>1 DEF Finish
<1>3. \/ run'[r] = Off
      \/ run'[r] = [run[r] EXCEPT !.pc = "collect", !.iter = @ + 1, !.current = next,
                                  !.pool = pool, !.done = done, !.m = None]
  BY <1>1 DEF Finish
<1>4. next \in Names \cup {None} /\ (grows => next \in Names)
  BY <1>1, NextSpecIn
<1>5. done \in Seq(Manifests) /\ \A i \in DOMAIN done : done[i] \in Manifests
  BY <1>1, DoneIn DEF Going
<1>6. pool \in Seq(Names)
  <2>1. run[r].pool \in Seq(Names)
    BY <1>1 DEF Going
  <2> HIDE DEF next, grows
  <2>q. QED
    BY <1>4, <2>1, AppendProperties
<1> HIDE DEF done, next, grows, pool
<1>7. CASE run'[r] = Off
  <2>1. RunTyped(Off, iterman[r], done)
    BY <1>1, <1>5 DEF RunTyped, RunStates, Off
  <2>q. QED
    BY <1>1, <1>2, <1>7, <2>1, FinishSequence, RunTypedGoes
<1>8. CASE run'[r] = [run[r] EXCEPT !.pc = "collect", !.iter = @ + 1, !.current = next,
                                    !.pool = pool, !.done = done, !.m = None]
  <2> DEFINE s == run'[r]
  <2>1. /\ RunShape(s) /\ s.pc = "collect" /\ s.m = None /\ s.eval = run[r].eval
        /\ s.first = run[r].first /\ s.iter = run[r].iter + 1 /\ s.last = run[r].last
        /\ s.games = run[r].games /\ s.evals = run[r].evals /\ s.base = run[r].base
        /\ s.current = next /\ s.pool = pool /\ s.done = done
    BY <1>1, <1>8 DEF RunShape
  <2> HIDE DEF s
  <2>2. Going(s)
    BY <1>1, <1>4, <1>5, <1>6, <2>1 DEF Going
  <2>3. RunTyped(s, iterman[r], done)
    BY <1>1, <1>5, <2>1, <2>2, GoingIs DEF RunTyped
  <2>q. QED
    BY <1>1, <1>2, <2>3, FinishSequence, RunTypedGoes DEF s
<1>q. QED
  BY <1>3, <1>7, <1>8

LEMMA NextRunsTyped ==
  ASSUME RunsInv, SequencesInv, CopyInv, TypesInv, [Next]_vars PROVE RunsTyped'
<1>0. RunsTyped
  BY DEF TypesInv
<1>1. CASE UNCHANGED <<run, iterman, runman>>
  BY <1>0, <1>1 DEF RunsTyped
<1>2. CASE \E r \in Runs : Start(r) \/ Evaluate(r) \/ WriteRun(r) \/ Decide(r) \/ Finish(r)
  BY <1>0, <1>2, StartTyped, EvaluateTyped, WriteRunTyped, DecideTyped, FinishTyped
<1>3. CASE \E r \in Runs : Collect(r) \/ Train(r)
  <2>1. PICK r \in Runs : Collect(r) \/ Train(r)
    BY <1>3
  <2>2. /\ UNCHANGED <<iterman, runman>>
        /\ \/ Enters(r, "train") /\ run[r].pc = "collect"
           \/ Enters(r, "evaluate") /\ run[r].pc = "train"
           \/ Dies(r)
    BY <2>1 DEF Collect, Train, Pc
  <2>q. QED
    BY <1>0, <2>2, EntersTyped, DiesTyped
<1>4. CASE \E r \in Runs : Dies(r) /\ UNCHANGED <<iterman, runman>>
  BY <1>0, <1>4, DiesTyped
<1>5. ASSUME NEW r \in Runs, RunStep(r)
      PROVE  \/ Collect(r) \/ Train(r) \/ Evaluate(r) \/ WriteRun(r) \/ Decide(r) \/ Finish(r)
             \/ Dies(r) /\ UNCHANGED <<iterman, runman>>
             \/ UNCHANGED <<run, iterman, runman>>
  BY <1>5 DEF RunStep, Promote, Raises, runVars
<1>6. ASSUME Crash
      PROVE  \/ \E r \in Runs : Dies(r) /\ UNCHANGED <<iterman, runman>>
             \/ UNCHANGED <<run, iterman, runman>>
  BY <1>6 DEF Crash
<1>7. ASSUME (\E o \in Operators : Command(o) \/ OperatorStep(o)) \/ Archiver \/ UNCHANGED vars
      PROVE  UNCHANGED <<run, iterman, runman>>
  BY <1>7 DEF Command, OperatorStep, Archiver, vars, runVars
<1>q. QED
  BY <1>1, <1>2, <1>3, <1>4, <1>5, <1>6, <1>7 DEF Next

LEMMA NextDirs ==
  ASSUME TypesInv, [Next]_vars PROVE dir' \in [Runs -> BOOLEAN]
<1>0. dir \in [Runs -> BOOLEAN]
  BY DEF TypesInv
<1>1. ASSUME NEW r \in Runs, Collect(r) PROVE dir' \in [Runs -> BOOLEAN]
  BY <1>0, <1>1 DEF Collect
<1>2. ASSUME NEW r \in Runs, RunStep(r), ~Collect(r) PROVE dir' = dir
  BY <1>2 DEF RunStep, Train, Evaluate, WriteRun, Promote, Decide, Raises, Finish, runVars
<1>3. ASSUME NEW r \in Runs, Start(r) PROVE dir' = dir
  BY <1>3 DEF Start
<1>4. ASSUME (\E o \in Operators : Command(o) \/ OperatorStep(o)) \/ Archiver \/ Crash \/ UNCHANGED vars
      PROVE  dir' = dir
  BY <1>4 DEF Command, OperatorStep, Archiver, Crash, vars, runVars
<1>q. QED
  BY <1>0, <1>1, <1>2, <1>3, <1>4 DEF Next

\* Every variable keeps its type, whatever runs together: seeds stay numbers, files keep
\* their names, and the manifests and the registry their entries.
THEOREM TypeCorrect == Spec => []TypeOK
<1> DEFINE Inv == RunsInv /\ SequencesInv /\ CopyInv /\ TypesInv
<1>1. Init => Inv
  BY InitRuns, InitSequences, InitCopies, InitTypes
<1>2. Inv /\ [Next]_vars => Inv'
  <2> SUFFICES ASSUME Inv, [Next]_vars PROVE Inv'
    OBVIOUS
  <2>1. RunsInv' /\ SequencesInv' /\ CopyInv'
    BY NextRuns, NextSequences, NextCopies
  <2>2. TypesInv'
    BY NextFiles, NextPromoters, NextBatches, NextRunsTyped, NextDirs DEF TypesInv
  <2>q. QED
    BY <2>1, <2>2
<1>3. Inv => TypeOK
  <2> SUFFICES ASSUME Inv PROVE TypeOK
    OBVIOUS
  <2>1. /\ registry \in Seq(Entries) /\ tmp \subseteq Seq(Entries)
        /\ lock \subseteq Promoters /\ arch \in Batches
        /\ DOMAIN files \subseteq Names /\ \A f \in DOMAIN files : files[f] \in Checkpoints
        /\ dir \in [Runs -> BOOLEAN]
    BY ListedIn DEF TypesInv, FilesTyped
  <2>2. DOMAIN rec = Promoters /\ \A p \in Promoters : rec[p] \in Promotings
    BY DEF TypesInv, PromTyped, CopyInv, HeldInv, LockInv
  <2>3. /\ DOMAIN run = Runs /\ \A r \in Runs : run[r] \in RunStates
        /\ \A r \in Runs : \A i \in DOMAIN iterman[r] : iterman[r][i] \in Manifests
    BY DEF RunsInv, TypesInv, RunsTyped, RunTyped
  <2>4. \A r \in Runs : runman[r] \in Seq(Manifests)
    <3> SUFFICES ASSUME NEW r \in Runs PROVE runman[r] \in Seq(Manifests)
      OBVIOUS
    <3>1. IsSeq(runman[r]) /\ \A i \in DOMAIN runman[r] : runman[r][i] \in Manifests
      BY GoingFacts DEF TypesInv, RunsTyped, RunTyped
    <3>q. QED
      BY <3>1, SeqIn
  <2>q. QED
    BY <2>1, <2>2, <2>3, <2>4 DEF TypeOK
<1>q. QED
  BY <1>1, <1>2, <1>3, PTL DEF Spec

--------------------------------------------------------------------------------
(* The opponents of a run that alone promotes beside an archiver.  A list  *)
(* of names is usable while the files of its last PoolSize + 1 are there,  *)
(* or all of them if nothing is copied, and no job of the archiver is      *)
(* about those.                                                            *)

JobsOf(a) == Elements(a.todo) \cup Elements(a.moved)
Placed(a) == \A job \in JobsOf(a) : job.seq \in Nat /\ job.from.key[1] = job.seq

Usable(w, a, list) ==
  /\ IsSeq(list)
  /\ w.managed => \A i \in DOMAIN list :
       list[i].key[1] = i /\ (i + PoolSize >= Len(list) => list[i] \in DOMAIN w.fs)
  /\ ~w.managed => \A i \in DOMAIN list : list[i].at = "run" /\ list[i] \in DOMAIN w.fs
  /\ \A job \in JobsOf(a) : job.seq + PoolSize < Len(list)

\* The pool of the run s, or what its promotion c will make of it.
Memory(s, c) ==
  IF c.pc = "keep" THEN Specs(c.seen)
  ELSE IF c.pc \in {"write", "replace", "recorded"} THEN Specs(Coming(c)) ELSE s.pool

Remembers(r) == Mode(r) = "promote" /\ run[r].pc # "off" /\ rec[r].pc # "raised"
MemoryOk(r) ==
  Remembers(r) => /\ Usable(World, arch, Memory(run[r], rec[r]))
                  /\ Len(registry) <= Len(Memory(run[r], rec[r]))

\* Whose contents the temporary file has.
OfArchiver(c, a) == a.pc = "replace" /\ Len(c) = Len(a.seen)
OfRun(c, ps) == \E r \in Runs : ps[r].pc = "replace" /\ c = Coming(ps[r])

BatchPools ==
  arch.pc \in {"write", "replace"} =>
    Usable(World, arch, Specs(arch.seen)) /\ Len(arch.seen) <= Len(registry)

PoolsInv ==
  /\ Usable(World, arch, Specs(registry)) /\ Placed(arch) /\ BatchPools
  /\ \A c \in tmp : Usable(World, arch, Specs(c)) /\ (OfArchiver(c, arch) \/ OfRun(c, rec))
  /\ \A r \in Runs : MemoryOk(r) /\ (rec[r].pc # "idle" => run[r].pc = "promote")

\* What a step leaves usable.
UsableStays == \A list : Usable(World, arch, list) => Usable(World', arch', list)

LEMMA SpecsIs ==
  ASSUME NEW es, IsSeq(es)
  PROVE  /\ IsSeq(Specs(es)) /\ Len(Specs(es)) = Len(es) /\ DOMAIN Specs(es) = DOMAIN es
         /\ \A i \in DOMAIN es : Specs(es)[i] = es[i].file
<1>1. Len(es) \in Nat /\ DOMAIN es = 1 .. Len(es)
  BY SeqLen
<1>2. Specs(es) = [i \in 1 .. Len(es) |-> Specs(es)[i]] /\ \A i \in DOMAIN es : Specs(es)[i] = es[i].file
  BY <1>1 DEF Specs
<1>q. QED
  BY <1>1, <1>2, FunIs

LEMMA ComingSpecs ==
  ASSUME NEW es, NEW e, IsSeq(es)
  PROVE  LET list == Specs(Append(es, e))
         IN  /\ IsSeq(list) /\ Len(list) = Len(es) + 1 /\ DOMAIN list = DOMAIN es \cup {Len(es) + 1}
             /\ \A i \in DOMAIN es : list[i] = es[i].file
             /\ list[Len(es) + 1] = e.file
             /\ IsSeq(Append(es, e)) /\ Len(Append(es, e)) = Len(es) + 1
<1>1. IsSeq(Append(es, e)) /\ Len(Append(es, e)) = Len(es) + 1
  BY AppendIs
<1>2. /\ DOMAIN Append(es, e) = DOMAIN es \cup {Len(es) + 1}
      /\ \A i \in DOMAIN es : Append(es, e)[i] = es[i]
      /\ Append(es, e)[Len(es) + 1] = e
  BY AppendDomain
<1> HIDE DEF Specs
<1>3. Len(es) + 1 \in DOMAIN Append(es, e) /\ \A i \in DOMAIN es : i \in DOMAIN Append(es, e)
  BY <1>2
<1>q. QED
  BY <1>1, <1>2, <1>3, SpecsIs

\* A file disappears only because the archiver has a job about it, and then it is a copy.
LEMMA MovedLoses ==
  ASSUME NEW job \in JobsOf(arch), JobOk(World, job), NEW x \in {job.from, Archived(job.from)},
         NEW y, files' = Moved(files, x, y), NEW f \in DOMAIN files, f \notin DOMAIN files'
  PROVE  f.at # "run" /\ \E j \in JobsOf(arch) : f.key = j.from.key
<1>1. f = x
  BY DEF Moved
<1>2. x \in CopyNames(job.from.key)
  BY ArchivedIs
<1>3. x.at # "run" /\ x.key = job.from.key
  BY <1>2 DEF CopyNames
<1>q. QED
  BY <1>1, <1>3

LEMMA JobsAre ==
  ASSUME CopyInv
  PROVE  /\ \A job \in JobsOf(arch) : JobOk(World, job)
         /\ arch.todo # <<>> => Head(arch.todo) \in JobsOf(arch)
         /\ Len(arch.moved) # 0 => arch.moved[Len(arch.moved)] \in JobsOf(arch)
<1>1. JobsOk(World, arch.todo) /\ JobsOk(World, arch.moved)
  BY BatchFacts
<1>2. \A job \in JobsOf(arch) : JobOk(World, job)
  BY <1>1 DEF JobsOk, JobsOf, Elements
<1>3. arch.todo # <<>> => Head(arch.todo) = arch.todo[1] /\ 1 \in DOMAIN arch.todo
  BY <1>1, JobsHeadTail
<1>4. Len(arch.moved) # 0 => Len(arch.moved) \in DOMAIN arch.moved
  <2>1. Len(arch.moved) \in Nat /\ DOMAIN arch.moved = 1 .. Len(arch.moved)
    BY <1>1, SeqLen DEF JobsOk
  <2>q. QED
    BY <2>1
<1>q. QED
  BY <1>2, <1>3, <1>4 DEF JobsOf, Elements

LEMMA FilesLost ==
  ASSUME CopyInv, [Next]_vars, NEW f \in DOMAIN files, f \notin DOMAIN files'
  PROVE  f.at # "run" /\ \E job \in JobsOf(arch) : f.key = job.from.key
<1>1. ASSUME NEW r \in Runs PROVE ~Train(r)
  BY DEF Train, Put
<1>2. ASSUME NEW p \in Promoters PROVE ~Keep(p, site.managed)
  BY DEF Keep, Put
<1>3. files' # files
  OBVIOUS
<1>4. ASSUME NEW p \in Promoters
      PROVE  ~(Begin(p) \/ Lock(p) \/ WriteTmp(p) \/ Replace(p) \/ Leave(p))
  BY <1>3 DEF Begin, Lock, WriteTmp, Replace, Leave
<1>5. ASSUME NEW p \in Promoters, NEW r \in Runs PROVE ~Judge(p, r)
  BY <1>3 DEF Judge, Gate
<1>6. ~(Plan \/ Reread \/ Rewrite \/ Publish \/ ArchiverDies)
  BY <1>3 DEF Plan, Reread, Rewrite, Publish, ArchiverDies
<1>7. ~UNCHANGED promotionVars
  BY <1>3 DEF promotionVars
<1>8. Move \/ Rollback
  BY <1>1, <1>2, <1>4, <1>5, <1>6, <1>7, Steps DEF Archive
<1>9. CASE Move
  <2> DEFINE job == Head(arch.todo)
  <2>1. arch.todo # <<>> /\ files' = Moved(files, job.from, Archived(job.from))
    BY <1>3, <1>9 DEF Move
  <2>2. job \in JobsOf(arch) /\ JobOk(World, job)
    BY <2>1, JobsAre
  <2> HIDE DEF job
  <2>q. QED
    BY <2>1, <2>2, MovedLoses
<1>10. CASE Rollback
  <2> DEFINE job == arch.moved[Len(arch.moved)]
  <2>1. Len(arch.moved) # 0 /\ files' = Restored(job)
    BY <1>3, <1>10 DEF Rollback
  <2>2. job \in JobsOf(arch) /\ JobOk(World, job)
    BY <2>1, JobsAre
  <2> HIDE DEF job
  <2>3. files' = Moved(files, Archived(job.from), job.from)
    BY <1>3, <2>1 DEF Restored
  <2>q. QED
    BY <2>2, <2>3, MovedLoses
<1>q. QED
  BY <1>8, <1>9, <1>10

LEMMA ElementsIn ==
  ASSUME NEW S, NEW s \in Seq(S) PROVE Elements(s) \subseteq S
BY InSeq DEF Elements

LEMMA ShortensElements ==
  ASSUME NEW s, IsSeq(s)
  PROVE  /\ s # <<>> => Elements(Tail(s)) \subseteq Elements(s) /\ Head(s) \in Elements(s)
         /\ Len(s) # 0 => Elements(SubSeq(s, 1, Len(s) - 1)) \subseteq Elements(s)
         /\ \A x : Elements(Append(s, x)) \subseteq Elements(s) \cup {x}
<1>1. s \in Seq(Elements(s)) /\ Len(s) \in Nat /\ DOMAIN s = 1 .. Len(s)
  BY SeqLen DEF IsSeq
<1>2. s # <<>> => Elements(Tail(s)) \subseteq Elements(s) /\ Head(s) \in Elements(s)
  BY <1>1, HeadTailProperties, ElementsIn
<1>3. Len(s) # 0 => Elements(SubSeq(s, 1, Len(s) - 1)) \subseteq Elements(s)
  <2> DEFINE n == Len(s) - 1
  <2>1. SUFFICES ASSUME Len(s) # 0 PROVE SubSeq(s, 1, n) \in Seq(Elements(s))
    BY ElementsIn
  <2>2. n \in Int /\ 1 \in Int /\ \A i \in 1 .. n : s[i] \in Elements(s)
    BY <1>1 DEF Elements
  <2> HIDE DEF n
  <2>q. QED
    BY <2>2, SubSeqProperties
<1>4. ASSUME NEW x PROVE Elements(Append(s, x)) \subseteq Elements(s) \cup {x}
  BY AppendDomain DEF Elements
<1>q. QED
  BY <1>2, <1>3, <1>4

LEMMA NoJobs == JobsOf(NoBatch) = {}
  BY EmptyIs DEF JobsOf, NoBatch, Elements

\* The batch after a step of the archiver other than Plan.
LEMMA BatchAfter ==
  ASSUME CopyInv, Move \/ Reread \/ Rewrite \/ Publish \/ Rollback
  PROVE  /\ JobsOf(arch') \subseteq JobsOf(arch)
         /\ rec' = rec
         /\ \/ arch' = NoBatch
            \/ arch'.seen = arch.seen /\ arch'.pc \in {"move", "replace", "rollback"}
            \/ Reread /\ arch'.seen = registry /\ arch'.pc = "write"
<1>1. /\ arch = [pc |-> arch.pc, todo |-> arch.todo, moved |-> arch.moved, seen |-> arch.seen]
      /\ IsSeq(arch.todo) /\ IsSeq(arch.moved)
  BY BatchFacts DEF JobsOk
<1>2. CASE Move
  <2>1. /\ arch.pc = "move" /\ arch.todo # <<>> /\ rec' = rec
        /\ \/ arch' = [arch EXCEPT !.todo = Tail(@), !.moved = Append(@, Head(arch.todo))]
           \/ arch' = [arch EXCEPT !.pc = "rollback"]
    BY <1>2 DEF Move
  <2>2. CASE arch' = [arch EXCEPT !.pc = "rollback"]
    BY <1>1, <2>1, <2>2 DEF JobsOf
  <2>3. CASE arch' = [arch EXCEPT !.todo = Tail(@), !.moved = Append(@, Head(arch.todo))]
    <3>1. arch' = [pc |-> "move", todo |-> Tail(arch.todo),
                   moved |-> Append(arch.moved, Head(arch.todo)), seen |-> arch.seen]
      BY <1>1, <2>1, <2>3
    <3>2. /\ Elements(Tail(arch.todo)) \subseteq Elements(arch.todo)
          /\ Head(arch.todo) \in Elements(arch.todo)
          /\ Elements(Append(arch.moved, Head(arch.todo))) \subseteq Elements(arch.moved) \cup {Head(arch.todo)}
      BY <1>1, <2>1, ShortensElements
    <3>q. QED
      BY <2>1, <3>1, <3>2 DEF JobsOf
  <2>q. QED
    BY <2>1, <2>2, <2>3
<1>3. CASE Reread
  <2>1. rec' = rec /\ (arch' = NoBatch \/ arch' = [arch EXCEPT !.pc = "write", !.seen = registry])
    BY <1>3 DEF Reread
  <2>q. QED
    BY <1>1, <1>3, <2>1, NoJobs DEF JobsOf
<1>4. CASE Rewrite \/ Publish
  <2>1. rec' = rec /\ \/ arch' = NoBatch
                      \/ \E pc \in {"replace", "rollback"} : arch' = [arch EXCEPT !.pc = pc]
    BY <1>4 DEF Rewrite, Publish
  <2>q. QED
    BY <1>1, <2>1, NoJobs DEF JobsOf
<1>5. CASE Rollback
  <2> DEFINE n == Len(arch.moved)
  <2>1. arch.pc = "rollback" /\ rec' = rec /\ (n = 0 => arch' = NoBatch)
        /\ (n # 0 => arch' = [arch EXCEPT !.moved = SubSeq(arch.moved, 1, n - 1)])
    BY <1>5 DEF Rollback
  <2>2. CASE n = 0
    BY <2>1, <2>2, NoJobs
  <2>3. CASE n # 0
    <3>1. arch' = [pc |-> "rollback", todo |-> arch.todo, moved |-> SubSeq(arch.moved, 1, n - 1),
                   seen |-> arch.seen]
      BY <1>1, <2>1, <2>3
    <3>2. Elements(SubSeq(arch.moved, 1, n - 1)) \subseteq Elements(arch.moved)
      BY <1>1, <2>3, ShortensElements
    <3>q. QED
      BY <2>1, <3>1, <3>2 DEF JobsOf
  <2>q. QED
    BY <2>2, <2>3
<1>q. QED
  BY <1>2, <1>3, <1>4, <1>5

\* A list stays usable if no job is added.
LEMMA UsableGoes ==
  ASSUME CopyInv, Placed(arch), [Next]_vars, JobsOf(arch') \subseteq JobsOf(arch)
  PROVE  UsableStays /\ Placed(arch')
<1>1. site' = site /\ World.managed = site.managed /\ World'.managed = site'.managed
      /\ World.fs = files /\ World'.fs = files'
  BY SiteStays, WorldIs
<1>2. ASSUME NEW list, Usable(World, arch, list) PROVE Usable(World', arch', list)
  <2>0. IsSeq(list) /\ Len(list) \in Nat /\ DOMAIN list = 1 .. Len(list) /\ PoolSize \in Nat
    BY <1>2, SeqLen, PromotionAssumption DEF Usable
  <2>1. ASSUME site.managed, NEW i \in DOMAIN list, i + PoolSize >= Len(list)
        PROVE  list[i] \in DOMAIN files'
    <3>1. list[i] \in DOMAIN files /\ list[i].key[1] = i
      BY <1>1, <1>2, <2>1 DEF Usable
    <3>2. ASSUME NEW job \in JobsOf(arch), list[i].key = job.from.key PROVE FALSE
      <4>1. job.seq = i /\ job.seq + PoolSize < Len(list)
        BY <1>2, <3>1, <3>2 DEF Usable, Placed
      <4>q. QED
        BY <2>0, <2>1, <4>1
    <3>q. QED
      BY <3>1, <3>2, FilesLost
  <2>2. ASSUME ~site.managed, NEW i \in DOMAIN list
        PROVE  list[i].at = "run" /\ list[i] \in DOMAIN files'
    BY <1>1, <1>2, <2>2, FilesLost DEF Usable
  <2>q. QED
    BY <1>1, <1>2, <2>1, <2>2 DEF Usable
<1>q. QED
  BY <1>2 DEF UsableStays, Placed

\* Only one run remembers anything.
LEMMA OneRemembers ==
  ASSUME Lone, GoalsInv, NEW r \in Runs, NEW q \in Runs,
         run[r].pc # "off", run[q].pc # "off", Mode(r) = "promote", Mode(q) = "promote"
  PROVE  q = r
BY DEF Lone, GoalsInv, Promotes

\* Steps of run r that leave the registry and the archiver alone.
RunMoves(r) ==
  /\ site' = site /\ UNCHANGED <<registry, arch>>
  /\ \A q \in Runs : q # r => run'[q] = run[q] /\ rec'[q] = rec[q]

LEMMA RunPools ==
  ASSUME PoolsInv, UsableStays, Placed(arch'), NEW r \in Runs, RunMoves(r),
         MemoryOk(r)', rec'[r].pc # "idle" => run'[r].pc = "promote",
         \/ tmp' = tmp /\ rec[r].pc # "replace"
         \/ \A c \in tmp' :
              Usable(World', arch', Specs(c)) /\ (OfArchiver(c, arch') \/ OfRun(c, rec'))
  PROVE  PoolsInv'
<1>1. Usable(World', arch', Specs(registry')) /\ BatchPools'
  BY DEF PoolsInv, UsableStays, RunMoves, BatchPools
<1>2. ASSUME NEW q \in Runs PROVE MemoryOk(q)' /\ (rec'[q].pc # "idle" => run'[q].pc = "promote")
  <2>1. CASE q = r
    BY <2>1
  <2>2. CASE q # r
    <3>1. /\ run'[q] = run[q] /\ rec'[q] = rec[q] /\ registry' = registry
          /\ Mode(q)' = Mode(q)
      BY <2>2 DEF RunMoves, Mode
    <3>2. MemoryOk(q) /\ (rec[q].pc # "idle" => run[q].pc = "promote")
      BY DEF PoolsInv
    <3>q. QED
      BY <3>1, <3>2 DEF MemoryOk, Remembers, UsableStays
  <2>q. QED
    BY <2>1, <2>2
<1>3. ASSUME NEW c \in tmp'
      PROVE  Usable(World', arch', Specs(c)) /\ (OfArchiver(c, arch') \/ OfRun(c, rec'))
  <2>1. CASE tmp' = tmp /\ rec[r].pc # "replace"
    <3>1. Usable(World, arch, Specs(c)) /\ (OfArchiver(c, arch) \/ OfRun(c, rec))
      BY <2>1 DEF PoolsInv
    <3>2. OfRun(c, rec) => OfRun(c, rec')
      BY <2>1 DEF OfRun, RunMoves
    <3>q. QED
      BY <3>1, <3>2 DEF UsableStays, RunMoves
  <2>q. QED
    BY <2>1
<1>q. QED
  BY <1>1, <1>2, <1>3 DEF PoolsInv

\* While a run does not promote it remembers its pool.
LEMMA IdlePools ==
  ASSUME CopyInv, PoolsInv, UsableStays, Placed(arch'), NEW r \in Runs, RunMoves(r),
         run[r].pc # "promote", UNCHANGED <<tmp, rec>>,
         \/ run'[r].pc = "off" \/ Mode(r) # "promote"
         \/ run[r].pc # "off" /\ run'[r].pool = run[r].pool
         \/ run'[r].pool = Specs(registry)
  PROVE  PoolsInv'
<1>1. rec'[r].pc = "idle" /\ rec[r].pc = "idle"
  BY DEF PoolsInv
<1>2. Memory(run'[r], rec'[r]) = run'[r].pool /\ Memory(run[r], rec[r]) = run[r].pool
  BY <1>1 DEF Memory
<1>3. MemoryOk(r)'
  <2>1. SUFFICES ASSUME Mode(r) = "promote", run'[r].pc # "off"
                 PROVE  Usable(World', arch', run'[r].pool) /\ Len(registry) <= Len(run'[r].pool)
    BY <1>2 DEF MemoryOk, Remembers, RunMoves, Mode
  <2>2. CASE run[r].pc # "off" /\ run'[r].pool = run[r].pool
    <3>1. Usable(World, arch, run[r].pool) /\ Len(registry) <= Len(run[r].pool)
      BY <1>1, <1>2, <2>1, <2>2 DEF PoolsInv, MemoryOk, Remembers
    <3>q. QED
      BY <2>2, <3>1 DEF UsableStays
  <2>3. CASE run'[r].pool = Specs(registry)
    <3>1. IsSeq(registry) /\ Usable(World, arch, Specs(registry))
      BY BatchFacts DEF PoolsInv, ListOk
    <3>2. Len(Specs(registry)) = Len(registry) /\ Len(registry) \in Nat
      BY <3>1, SpecsIs, SeqLen
    <3>q. QED
      BY <2>3, <3>1, <3>2 DEF UsableStays
  <2>q. QED
    BY <2>1, <2>2, <2>3
<1>q. QED
  BY <1>1, <1>3, RunPools

LEMMA WorkPools ==
  ASSUME RunsInv, CopyInv, PoolsInv, UsableStays, Placed(arch'), NEW r \in Runs, site' = site,
         Start(r) \/ Collect(r) \/ Train(r) \/ Evaluate(r) \/ WriteRun(r) \/ Finish(r)
  PROVE  PoolsInv'
<1>1. r \in DOMAIN run /\ RunShape(run[r]) /\ DOMAIN run = Runs
  BY DEF RunsInv, RunInv, RunOk
<1>2. UNCHANGED <<registry, tmp, rec, arch>> /\ run[r].pc # "promote"
  BY DEF Start, Collect, Train, Evaluate, WriteRun, Finish, promotionVars, Pc
<1>3. ASSUME NEW x, run' = [run EXCEPT ![r] = x] PROVE RunMoves(r) /\ run'[r] = x
  BY <1>1, <1>2, <1>3 DEF RunMoves
<1>4. CASE Dies(r)
  <2>1. run'[r].pc = "off" /\ RunMoves(r)
    BY <1>3, <1>4 DEF Dies, Off
  <2>q. QED
    BY <1>2, <2>1, IdlePools
<1>5. ASSUME NEW pc, Enters(r, pc), run[r].pc # "off" PROVE PoolsInv'
  <2>1. RunMoves(r) /\ run'[r] = [run[r] EXCEPT !.pc = pc]
    BY <1>3, <1>5 DEF Enters
  <2>2. run'[r].pool = run[r].pool
    BY <1>1, <2>1 DEF RunShape
  <2>q. QED
    BY <1>2, <1>5, <2>1, <2>2, IdlePools
<1>6. CASE Start(r)
  <2> DEFINE ms == Prior(r)
             current == IF ms = <<>> THEN None ELSE NextSpec(Last(ms))
             Made(size, last) ==
               [pc |-> "collect", first |-> FirstIteration(ms), iter |-> FirstIteration(ms),
                last |-> last, games |-> size.games, evals |-> size.evals,
                base |-> NextSeed(ms), eval |-> NextEvaluation(ms), current |-> current,
                pool |-> IF Mode(r) = "promote" THEN Specs(registry) ELSE History(ms),
                done |-> ms, m |-> None]
  <2>0. PICK size, last : run' = [run EXCEPT ![r] = Made(size, last)]
    BY <1>6 DEF Start
  <2>1. Mode(r) = "promote" => Made(size, last).pool = Specs(registry)
    OBVIOUS
  <2> HIDE DEF Made
  <2>2. RunMoves(r) /\ (Mode(r) = "promote" => run'[r].pool = Specs(registry))
    BY <1>3, <2>0, <2>1
  <2>q. QED
    BY <1>2, <2>2, IdlePools
<1>7. CASE Collect(r) \/ Train(r) \/ WriteRun(r)
  BY <1>4, <1>5, <1>7 DEF Collect, Train, WriteRun, Pc
<1>8. CASE Evaluate(r)
  <2>1. ASSUME NEW m, NEW eval,
               run' = [run EXCEPT ![r].pc = "publish", ![r].m = m, ![r].eval = eval]
        PROVE  PoolsInv'
    <3>1. RunMoves(r) /\ run'[r] = [run[r] EXCEPT !.pc = "publish", !.m = m, !.eval = eval]
      BY <1>1, <1>2, <2>1 DEF RunMoves
    <3>2. run'[r].pool = run[r].pool /\ run[r].pc # "off"
      BY <1>1, <1>8, <3>1 DEF RunShape, Evaluate, Pc
    <3>q. QED
      BY <1>2, <3>1, <3>2, IdlePools
  <2>2. ASSUME NEW measured, NEW wins, NEW eval,
               run' = [run EXCEPT ![r].pc = "publish",
                                  ![r].m = IterationManifest(r, measured, wins),
                                  ![r].eval = eval]
        PROVE  PoolsInv'
    BY <2>1, <2>2
  <2>3. CASE ~Dies(r)
    <3>1. PICK measured, wins, eval :
            /\ run' = [run EXCEPT ![r].pc = "publish",
                                 ![r].m = IterationManifest(r, measured, wins),
                                 ![r].eval = eval]
            /\ iterman' = [iterman EXCEPT
                            ![r] = Put(@, run[r].iter, IterationManifest(r, measured, wins))]
      BY <1>8, <2>3, EvaluateEffect
    <3>q. QED
      BY <2>2, <3>1
  <2>q. QED
    BY <1>4, <2>3
<1>9. CASE Finish(r)
  <2> DEFINE s == run[r]
             next == NextSpec(s.m)
             on == [s EXCEPT !.pc = "collect", !.iter = @ + 1, !.current = next,
                       !.pool = IF Mode(r) # "promote" /\ s.m.advance THEN Append(@, next) ELSE @,
                       !.done = Append(@, s.m), !.m = None]
  <2>1. run[r].pc = "finish" /\ run' = [run EXCEPT ![r] = IF s.iter = s.last THEN Off ELSE on]
    BY <1>9 DEF Finish, Pc
  <2>2. Mode(r) = "promote" => on.pool = run[r].pool
    BY <1>1 DEF RunShape
  <2> HIDE DEF s, on
  <2>3. RunMoves(r) /\ run'[r] \in {Off, on}
    BY <1>3, <2>1
  <2>4. run'[r] = Off => run'[r].pc = "off"
    BY DEF Off
  <2>q. QED
    BY <1>2, <2>1, <2>2, <2>3, <2>4, IdlePools
<1>q. QED
  BY <1>6, <1>7, <1>8, <1>9

\* The steps of a promotion.
LEMMA OutsidePools ==
  ASSUME CopyInv, PoolsInv, UsableStays, Placed(arch'), NEW r \in Runs, site' = site,
         run[r].pc = "promote", run' = run, Begin(r) \/ Judge(r, r)
  PROVE  PoolsInv'
<1>1. r \in Promoters /\ rec'[r].pc \in {"gate", "lock", "failed", "idle"}
  BY OutsidePc DEF Promoters
<1>2. /\ UNCHANGED <<registry, tmp, arch>> /\ rec[r].pc \in {"idle", "gate"}
      /\ \A q \in Runs : q # r => rec'[q] = rec[q]
  BY <1>1, CopyFacts DEF Begin, Judge, Gate, At, Promoters
<1>3. RunMoves(r)
  BY <1>2 DEF RunMoves
<1>4. Memory(run'[r], rec'[r]) = run[r].pool /\ Memory(run[r], rec[r]) = run[r].pool
  BY <1>1, <1>2 DEF Memory
<1>5. MemoryOk(r) /\ Remembers(r) <=> MemoryOk(r) /\ Mode(r) = "promote"
  BY <1>2 DEF Remembers
<1>6. MemoryOk(r)'
  BY <1>2, <1>3, <1>4, <1>5 DEF MemoryOk, Remembers, PoolsInv, UsableStays, RunMoves, Mode
<1>q. QED
  BY <1>2, <1>3, <1>6, RunPools

LEMMA LockPools ==
  ASSUME CopyInv, PoolsInv, UsableStays, Placed(arch'), NEW r \in Runs, site' = site,
         run[r].pc = "promote", run' = run, Lock(r)
  PROVE  PoolsInv'
<1>1. r \in Promoters /\ PromShape(rec[r]) /\ DOMAIN rec = Promoters /\ Runs \subseteq Promoters
  BY CopyFacts DEF Promoters
<1>2. /\ UNCHANGED <<registry, tmp, arch>> /\ rec[r].pc = "lock"
      /\ \A q \in Runs : q # r => rec'[q] = rec[q]
      /\ \/ rec'[r] = [rec[r] EXCEPT !.pc = "raised"]
         \/ rec'[r] = [rec[r] EXCEPT !.pc = "keep", !.seen = registry]
  BY <1>1 DEF Lock, At, To
<1>3. RunMoves(r)
  BY <1>2 DEF RunMoves
<1>4. rec'[r].pc = "raised" \/ (rec'[r].pc = "keep" /\ rec'[r].seen = registry)
  BY <1>1, <1>2 DEF PromShape
<1>5. IsSeq(registry) /\ Len(Specs(registry)) = Len(registry) /\ Len(registry) \in Nat
  BY BatchFacts, SpecsIs, SeqLen DEF ListOk
<1>6. MemoryOk(r)'
  <2>1. SUFFICES ASSUME rec'[r].pc = "keep", rec'[r].seen = registry PROVE MemoryOk(r)'
    BY <1>4 DEF MemoryOk, Remembers
  <2>2. Memory(run'[r], rec'[r]) = Specs(registry)
    BY <2>1 DEF Memory
  <2>q. QED
    BY <1>2, <1>5, <2>2 DEF MemoryOk, PoolsInv, UsableStays
<1>q. QED
  BY <1>2, <1>3, <1>6, RunPools

\* A list that grows by a file that is there stays usable.
LEMMA LongerUsable ==
  ASSUME NEW w, NEW a, Placed(a), NEW es, NEW e, IsSeq(es), Usable(w, a, Specs(es)),
         e.file \in DOMAIN w.fs, w.managed => e.file.key[1] = Len(es) + 1,
         ~w.managed => e.file.at = "run"
  PROVE  Usable(w, a, Specs(Append(es, e))) /\ Len(Specs(Append(es, e))) = Len(es) + 1
<1> DEFINE list == Specs(Append(es, e))
           old == Specs(es)
<1>1. /\ IsSeq(list) /\ Len(list) = Len(es) + 1 /\ DOMAIN list = DOMAIN es \cup {Len(es) + 1}
      /\ \A i \in DOMAIN es : list[i] = es[i].file
      /\ list[Len(es) + 1] = e.file
  BY ComingSpecs
<1>2. /\ Len(old) = Len(es) /\ DOMAIN old = DOMAIN es /\ \A i \in DOMAIN es : old[i] = es[i].file
      /\ Len(es) \in Nat /\ DOMAIN es = 1 .. Len(es) /\ PoolSize \in Nat
  BY SpecsIs, SeqLen, PromotionAssumption
<1> HIDE DEF list, old
<1>3. Usable(w, a, old)
  BY DEF old
<1>4. ASSUME w.managed, NEW i \in DOMAIN list
      PROVE  list[i].key[1] = i /\ (i + PoolSize >= Len(list) => list[i] \in DOMAIN w.fs)
  <2>1. CASE i \in DOMAIN es
    <3>1. old[i].key[1] = i /\ (i + PoolSize >= Len(es) => old[i] \in DOMAIN w.fs)
      BY <1>2, <1>3, <1>4, <2>1 DEF Usable
    <3>2. i \in Nat /\ (i + PoolSize >= Len(es) + 1 => i + PoolSize >= Len(es))
      BY <1>2, <2>1
    <3>q. QED
      BY <1>1, <1>2, <2>1, <3>1, <3>2
  <2>2. CASE i = Len(es) + 1
    BY <1>1, <1>4, <2>2
  <2>q. QED
    BY <1>1, <2>1, <2>2
<1>5. ASSUME ~w.managed, NEW i \in DOMAIN list PROVE list[i].at = "run" /\ list[i] \in DOMAIN w.fs
  BY <1>1, <1>2, <1>3, <1>5 DEF Usable
<1>6. ASSUME NEW job \in JobsOf(a) PROVE job.seq + PoolSize < Len(list)
  <2>1. job.seq \in Nat /\ job.seq + PoolSize < Len(es)
    BY <1>2, <1>3 DEF Usable, Placed
  <2>q. QED
    BY <1>1, <1>2, <2>1
<1>q. QED
  BY <1>1, <1>4, <1>5, <1>6 DEF Usable, list

LEMMA KeepPools ==
  ASSUME CopyInv, PoolsInv, UsableStays, Placed(arch'), NEW r \in Runs, site' = site,
         run[r].pc = "promote", run' = run, Keep(r, site.managed)
  PROVE  PoolsInv'
<1> DEFINE s == rec[r]
           source == s.entry.source
           name == IF site.managed THEN Managed(Len(s.seen) + 1, s.entry.id) ELSE source
           t == rec'[r]
<1>1. r \in Promoters /\ PromShape(s) /\ PromOk(World, s) /\ DOMAIN rec = Promoters
      /\ Runs \subseteq Promoters
  BY CopyFacts DEF Promoters
<1>2. /\ s.pc = "keep" /\ UNCHANGED <<registry, tmp, arch>>
      /\ source \in DOMAIN files /\ files' = Put(files, name, files[source])
      /\ \A q \in Runs : q # r => rec'[q] = rec[q]
      /\ t = Kept(s, name, files[source])
  BY <1>1 DEF Keep, At, Kept
<1>3. RunMoves(r)
  BY <1>2 DEF RunMoves
<1>4. IsSeq(s.seen) /\ Origin(World, source, s.entry.id)
  BY <1>1, <1>2 DEF PromOk, ListOk
<1>5. site.managed => name.key[1] = Len(s.seen) + 1
  BY DEF Managed
<1>6. ~site.managed => name.at = "run"
  BY <1>4 DEF Origin, Source
<1>7. name \in DOMAIN files'
  <2> HIDE DEF name, source
  <2>q. QED
    BY <1>2 DEF Put
<1>8. World'.managed = site.managed /\ World'.fs = files'
  BY WorldIs
<1>9. Memory(run[r], s) = Specs(s.seen) /\ (Mode(r) = "promote" /\ run[r].pc # "off" => Remembers(r))
  BY <1>2 DEF Memory, Remembers
<1>10. Len(Specs(s.seen)) = Len(s.seen) /\ Len(s.seen) \in Nat
  BY <1>4, SpecsIs, SeqLen
<1>11. Mode(r) = "promote" /\ run[r].pc # "off" =>
         Usable(World', arch', Specs(s.seen)) /\ Len(registry) <= Len(s.seen)
  BY <1>9, <1>10 DEF PoolsInv, MemoryOk, UsableStays
<1> HIDE DEF s, name, source, t
<1>12. t.pc = "write" /\ t.seen = s.seen /\ t.entry.file = name
  BY <1>1, <1>2, KeptShape
<1>13. Memory(run'[r], t) = Specs(Append(s.seen, t.entry))
  BY <1>12 DEF Memory, Coming
<1>14. MemoryOk(r)'
  <2>1. SUFFICES ASSUME Mode(r) = "promote", run[r].pc # "off"
                 PROVE  /\ Usable(World', arch', Specs(Append(s.seen, t.entry)))
                        /\ Len(registry) <= Len(Specs(Append(s.seen, t.entry)))
    BY <1>3, <1>13 DEF MemoryOk, Remembers, RunMoves, Mode, t
  <2>2. /\ Usable(World', arch', Specs(Append(s.seen, t.entry)))
        /\ Len(Specs(Append(s.seen, t.entry))) = Len(s.seen) + 1
    <3>1. /\ Usable(World', arch', Specs(s.seen)) /\ IsSeq(s.seen)
          /\ t.entry.file \in DOMAIN World'.fs
          /\ World'.managed => t.entry.file.key[1] = Len(s.seen) + 1
          /\ ~World'.managed => t.entry.file.at = "run"
      BY <1>4, <1>5, <1>6, <1>7, <1>8, <1>11, <1>12, <2>1
    <3>q. QED
      BY <3>1, LongerUsable
  <2>3. Len(registry) \in Nat
    BY BatchFacts, SeqLen DEF ListOk
  <2>q. QED
    BY <1>10, <1>11, <2>1, <2>2, <2>3
<1>q. QED
  BY <1>2, <1>3, <1>14, RunPools DEF s

LEMMA WriteTmpPools ==
  ASSUME CopyInv, GoalsInv, PoolsInv, UsableStays, Placed(arch'), NEW r \in Runs, site' = site,
         run[r].pc = "promote", run' = run, WriteTmp(r)
  PROVE  PoolsInv'
<1>1. r \in Promoters /\ PromShape(rec[r]) /\ DOMAIN rec = Promoters /\ Runs \subseteq Promoters
  BY CopyFacts DEF Promoters
<1>2. /\ rec[r].pc = "write" /\ UNCHANGED <<registry, arch>> /\ tmp' = {Coming(rec[r])}
      /\ \A q \in Runs : q # r => rec'[q] = rec[q]
      /\ rec'[r] = [rec[r] EXCEPT !.pc = "replace"]
  BY <1>1 DEF WriteTmp, At, To, Coming
<1>3. rec'[r].pc = "replace" /\ rec'[r].seen = rec[r].seen /\ rec'[r].entry = rec[r].entry
  BY <1>1, <1>2 DEF PromShape
<1>4. Coming(rec'[r]) = Coming(rec[r])
  BY <1>3 DEF Coming
<1>5. RunMoves(r) /\ Mode(r) = "promote"
  BY <1>2 DEF RunMoves, GoalsInv
<1>6. Memory(run[r], rec[r]) = Specs(Coming(rec[r])) /\ Memory(run'[r], rec'[r]) = Specs(Coming(rec[r]))
  BY <1>2, <1>3, <1>4 DEF Memory
<1>7. Usable(World', arch', Specs(Coming(rec[r]))) /\ Len(registry) <= Len(Specs(Coming(rec[r])))
  BY <1>2, <1>5, <1>6 DEF PoolsInv, MemoryOk, Remembers, UsableStays
<1>8. MemoryOk(r)'
  BY <1>2, <1>6, <1>7 DEF MemoryOk
<1>9. OfRun(Coming(rec[r]), rec')
  BY <1>3, <1>4 DEF OfRun
<1>q. QED
  BY <1>2, <1>5, <1>7, <1>8, <1>9, RunPools

\* What replaces the registry is no longer than what a run remembers of it.
LEMMA TmpLens ==
  ASSUME CopyInv, GoalsInv, PoolsInv, Lone, NEW c \in tmp
  PROVE  /\ Len(c) \in Nat /\ Len(Specs(c)) = Len(c) /\ Len(registry) \in Nat
         /\ \A r \in Runs :
              Remembers(r) =>
                /\ Len(c) <= Len(Memory(run[r], rec[r]))
                /\ arch.pc \in {"write", "replace"} => Len(arch.seen) <= Len(c)
<1>1. IsSeq(c) /\ IsSeq(registry) /\ (arch.pc \in {"write", "replace"} => IsSeq(arch.seen))
  BY BatchFacts DEF ListOk, BatchOk
<1>2. /\ Len(c) \in Nat /\ Len(Specs(c)) = Len(c) /\ Len(registry) \in Nat
      /\ arch.pc \in {"write", "replace"} => Len(arch.seen) \in Nat
  BY <1>1, SeqLen, SpecsIs
<1>3. ASSUME NEW r \in Runs, Remembers(r)
      PROVE  /\ Len(c) <= Len(Memory(run[r], rec[r]))
             /\ arch.pc \in {"write", "replace"} => Len(arch.seen) <= Len(c)
  <2>1. Usable(World, arch, Memory(run[r], rec[r])) /\ Len(registry) <= Len(Memory(run[r], rec[r]))
    BY <1>3 DEF PoolsInv, MemoryOk
  <2>2. Len(Memory(run[r], rec[r])) \in Nat
    BY <2>1, SeqLen DEF Usable
  <2>3. arch.pc \in {"write", "replace"} => Len(arch.seen) <= Len(registry)
    BY DEF PoolsInv, BatchPools
  <2>4. CASE OfArchiver(c, arch)
    BY <1>2, <2>1, <2>2, <2>3, <2>4 DEF OfArchiver
  <2>5. CASE OfRun(c, rec)
    <3>1. PICK q \in Runs : rec[q].pc = "replace" /\ c = Coming(rec[q])
      BY <2>5 DEF OfRun
    <3>2. run[q].pc = "promote" /\ Mode(q) = "promote"
      BY <3>1 DEF PoolsInv, GoalsInv
    <3>3. q = r
      BY <1>3, <3>2, OneRemembers DEF Remembers
    <3>4. Memory(run[r], rec[r]) = Specs(c)
      BY <3>1, <3>3 DEF Memory
    <3>q. QED
      BY <1>2, <2>1, <2>3, <3>4
  <2>q. QED
    BY <2>4, <2>5 DEF PoolsInv
<1>q. QED
  BY <1>2, <1>3

LEMMA ReplacePools ==
  ASSUME CopyInv, GoalsInv, PoolsInv, Lone, UsableStays, Placed(arch'), NEW r \in Runs,
         site' = site, run[r].pc = "promote", run' = run, Replace(r)
  PROVE  PoolsInv'
<1>1. /\ r \in Promoters /\ PromShape(rec[r]) /\ DOMAIN rec = Promoters /\ Runs \subseteq Promoters
      /\ Mode(r) = "promote"
  BY CopyFacts DEF Promoters, GoalsInv
<1>2. rec[r].pc = "replace" /\ arch' = arch
  BY DEF Replace, At
<1>3. CASE tmp = {} /\ To(r, "raised") /\ UNCHANGED <<registry, tmp>>
  <2>1. rec'[r] = [rec[r] EXCEPT !.pc = "raised"] /\ \A q \in Runs : q # r => rec'[q] = rec[q]
    BY <1>1, <1>3 DEF To
  <2>2. rec'[r].pc = "raised" /\ RunMoves(r)
    BY <1>1, <1>2, <1>3, <2>1 DEF PromShape, RunMoves
  <2>3. MemoryOk(r)'
    BY <2>2 DEF MemoryOk, Remembers
  <2>q. QED
    BY <1>3, <2>2, <2>3, RunPools
<1>4. ASSUME NEW c \in tmp, registry' = c, tmp' = {}, To(r, "recorded") PROVE PoolsInv'
  <2>1. /\ rec'[r] = [rec[r] EXCEPT !.pc = "recorded"]
        /\ \A q \in Runs : q # r => rec'[q] = rec[q]
    BY <1>1, <1>4 DEF To
  <2>2. /\ rec'[r].pc = "recorded" /\ rec'[r].seen = rec[r].seen /\ rec'[r].entry = rec[r].entry
    BY <1>1, <2>1 DEF PromShape
  <2>3. Remembers(r) /\ Memory(run'[r], rec'[r]) = Memory(run[r], rec[r])
    BY <1>1, <1>2, <2>2 DEF Remembers, Memory, Coming
  <2>4. /\ Len(c) <= Len(Memory(run[r], rec[r]))
        /\ arch.pc \in {"write", "replace"} => Len(arch.seen) <= Len(c)
    BY <1>4, <2>3, TmpLens
  <2>5. Usable(World', arch', Memory(run[r], rec[r])) /\ Usable(World', arch', Specs(c))
    BY <2>3 DEF PoolsInv, MemoryOk, UsableStays
  <2>6. ASSUME NEW q \in Runs
        PROVE  MemoryOk(q)' /\ (rec'[q].pc # "idle" => run'[q].pc = "promote")
    <3>1. CASE q = r
      BY <1>4, <2>3, <2>4, <2>5, <3>1 DEF MemoryOk
    <3>2. CASE q # r
      <4>1. ~Remembers(q)
        BY <1>1, <3>2, OneRemembers DEF Remembers
      <4>2. ~Remembers(q)' /\ rec'[q] = rec[q]
        BY <2>1, <3>2, <4>1 DEF Remembers, Mode
      <4>q. QED
        BY <4>2 DEF MemoryOk, PoolsInv
    <3>q. QED
      BY <3>1, <3>2
  <2>7. BatchPools'
    BY <1>2, <1>4, <2>4 DEF PoolsInv, BatchPools, UsableStays
  <2>q. QED
    BY <1>4, <2>5, <2>6, <2>7 DEF PoolsInv
<1>q. QED
  BY <1>3, <1>4 DEF Replace

\* A promotion ends, and the run remembers what came of it.
LEMMA DecidePools ==
  ASSUME RunsInv, CopyInv, PoolsInv, UsableStays, Placed(arch'), NEW r \in Runs, site' = site,
         Decide(r) \/ Raises(r)
  PROVE  PoolsInv'
<1>1. /\ r \in Promoters /\ DOMAIN rec = Promoters /\ Runs \subseteq Promoters
      /\ r \in DOMAIN run /\ DOMAIN run = Runs /\ RunShape(run[r])
  BY CopyFacts DEF Promoters, RunsInv, RunInv, RunOk
<1>2. /\ UNCHANGED <<registry, tmp, arch>> /\ rec[r].pc \in {"recorded", "failed", "raised"}
      /\ rec' = [rec EXCEPT ![r] = Idle] /\ run[r].pc = "promote"
  BY DEF Decide, Raises, Leave, At, Pc
<1>3. rec'[r].pc = "idle" /\ \A q \in Runs : q # r => rec'[q] = rec[q]
  BY <1>1, <1>2 DEF Idle
<1>4. Memory(run'[r], rec'[r]) = run'[r].pool
  BY <1>3 DEF Memory
<1>5. CASE Raises(r)
  <2>1. run'[r].pc = "off" /\ RunMoves(r)
    BY <1>1, <1>2, <1>3, <1>5 DEF Raises, Dies, Off, RunMoves
  <2>2. MemoryOk(r)'
    BY <2>1 DEF MemoryOk, Remembers
  <2>q. QED
    BY <1>2, <1>3, <2>1, <2>2, RunPools
<1>6. CASE Decide(r)
  <2> DEFINE s == rec[r]
             recorded == s.pc = "recorded"
             after == Append(s.seen, s.entry)
             m == [run[r].m EXCEPT !.advance = recorded,
                    !.accepted = IF recorded THEN Accepted(r) ELSE None,
                    !.promo = IF recorded THEN Len(after) ELSE 0]
  <2>1. /\ s.pc \in {"recorded", "failed"}
        /\ run' = [run EXCEPT ![r].pc = "finish", ![r].m = m,
                              ![r].pool = IF recorded THEN Specs(after) ELSE @]
    BY <1>6 DEF Decide
  <2> HIDE DEF m
  <2>2. /\ run'[r] = [run[r] EXCEPT !.pc = "finish", !.m = m,
                                    !.pool = IF recorded THEN Specs(after) ELSE @]
        /\ RunMoves(r)
    BY <1>1, <1>2, <1>3, <2>1 DEF RunMoves
  <2>3. run'[r].pool = IF recorded THEN Specs(after) ELSE run[r].pool
    BY <1>1, <2>2 DEF RunShape
  <2>4. run'[r].pool = Memory(run[r], rec[r])
    BY <2>1, <2>3 DEF Memory, Coming
  <2>5. Mode(r) = "promote" => Remembers(r)
    BY <1>2, <2>1 DEF Remembers
  <2>6. MemoryOk(r)'
    BY <1>2, <1>4, <2>2, <2>4, <2>5 DEF MemoryOk, Remembers, PoolsInv, UsableStays, RunMoves, Mode
  <2>q. QED
    BY <1>2, <1>3, <2>1, <2>2, <2>6, RunPools
<1>q. QED
  BY <1>5, <1>6

\* Steps of the archiver.
LEMMA ArchiverPools ==
  ASSUME PoolsInv, UsableStays, Placed(arch'), UNCHANGED <<run, rec, site>>,
         Usable(World', arch', Specs(registry')), BatchPools',
         \A c \in tmp' : Usable(World', arch', Specs(c)) /\ (OfArchiver(c, arch') \/ OfRun(c, rec)),
         \A r \in Runs : Remembers(r) => Len(registry') <= Len(Memory(run[r], rec[r]))
  PROVE  PoolsInv'
<1>1. ASSUME NEW r \in Runs PROVE MemoryOk(r)' /\ (rec'[r].pc # "idle" => run'[r].pc = "promote")
  <2>1. Remembers(r)' <=> Remembers(r)
    BY DEF Remembers, Mode
  <2>2. MemoryOk(r) /\ (rec[r].pc # "idle" => run[r].pc = "promote")
    BY DEF PoolsInv
  <2>q. QED
    BY <2>1, <2>2 DEF MemoryOk, UsableStays
<1>q. QED
  BY <1>1 DEF PoolsInv

\* The archiver plans for entries that are beyond the opponents of the registry, and so
\* of any longer list.
LEMMA PlanPools ==
  ASSUME WorldGoes, CopiesOk(World'), CopyInv, GoalsInv, PoolsInv, Lone, Plan,
         UNCHANGED <<run, runman, site>>
  PROVE  PoolsInv'
<1>1. arch.pc = "idle" /\ UNCHANGED <<registry, tmp, rec, files>>
  BY DEF Plan
<1>2. /\ arch'.pc = "move" /\ arch'.moved = <<>>
      /\ \A k \in DOMAIN arch'.todo :
           /\ arch'.todo[k].seq \in Stale
           /\ arch'.todo[k].from = registry[arch'.todo[k].seq].file
  BY PlanCopies
<1>3. IsSeq(registry) /\ Len(registry) \in Nat /\ DOMAIN registry = 1 .. Len(registry)
      /\ Len(Specs(registry)) = Len(registry) /\ DOMAIN Specs(registry) = DOMAIN registry
      /\ \A i \in DOMAIN registry : Specs(registry)[i] = registry[i].file
  BY BatchFacts, SeqLen, SpecsIs DEF ListOk
<1>4. ASSUME NEW i \in Stale
      PROVE  i \in Nat /\ i + PoolSize < Len(registry) /\ registry[i].file.key[1] = i
  <2>1. i \in DOMAIN registry /\ ~(i + PoolSize >= Len(registry))
        /\ registry[i].file # registry[i].source
    BY DEF Stale, Retained
  <2>2. World.managed
    BY <2>1, BatchFacts DEF ListOk, EntryOk
  <2>3. Specs(registry)[i].key[1] = i
    BY <1>3, <2>1, <2>2 DEF PoolsInv, Usable
  <2>q. QED
    BY <1>3, <2>1, <2>3, PromotionAssumption
<1>5. ASSUME NEW job \in JobsOf(arch')
      PROVE  job.seq \in Nat /\ job.seq + PoolSize < Len(registry) /\ job.from.key[1] = job.seq
  <2>1. PICK k \in DOMAIN arch'.todo : job = arch'.todo[k]
    BY <1>2, EmptyIs DEF JobsOf, Elements
  <2>q. QED
    BY <1>2, <1>4, <2>1
<1>6. World'.managed = World.managed /\ World'.fs = World.fs
  BY <1>1, WorldIs
<1>7. ASSUME NEW list, Usable(World, arch, list), Len(registry) <= Len(list)
      PROVE  Usable(World', arch', list)
  <2>1. Len(list) \in Nat /\ PoolSize \in Nat
    BY <1>7, SeqLen, PromotionAssumption DEF Usable
  <2>2. \A job \in JobsOf(arch') : job.seq + PoolSize < Len(list)
    BY <1>3, <1>5, <1>7, <2>1
  <2>q. QED
    BY <1>6, <1>7, <2>2 DEF Usable
<1>8. Placed(arch') /\ BatchPools'
  BY <1>2, <1>5 DEF Placed, BatchPools
<1>9. Usable(World', arch', Specs(registry'))
  BY <1>1, <1>3, <1>7 DEF PoolsInv
<1>10. ASSUME NEW c \in tmp'
       PROVE  Usable(World', arch', Specs(c)) /\ OfRun(c, rec)
  <2>1. c \in tmp /\ Usable(World, arch, Specs(c)) /\ (OfArchiver(c, arch) \/ OfRun(c, rec))
    BY <1>1 DEF PoolsInv
  <2>2. OfRun(c, rec)
    BY <1>1, <2>1 DEF OfArchiver
  <2>3. PICK r \in Runs : rec[r].pc = "replace" /\ c = Coming(rec[r])
    BY <2>2 DEF OfRun
  <2>4. Remembers(r) /\ Memory(run[r], rec[r]) = Specs(c)
    BY <2>3 DEF Remembers, Memory, PoolsInv, GoalsInv
  <2>5. Len(registry) <= Len(Specs(c))
    BY <2>4 DEF PoolsInv, MemoryOk
  <2>q. QED
    BY <1>7, <2>1, <2>2, <2>5
<1>11. ASSUME NEW r \in Runs PROVE MemoryOk(r)' /\ (rec'[r].pc # "idle" => run'[r].pc = "promote")
  <2>1. Remembers(r)' <=> Remembers(r)
    BY <1>1 DEF Remembers, Mode
  <2>2. MemoryOk(r) /\ (rec[r].pc # "idle" => run[r].pc = "promote")
    BY DEF PoolsInv
  <2>q. QED
    BY <1>1, <1>7, <2>1, <2>2 DEF MemoryOk
<1>12. \A c \in tmp' :
         Usable(World', arch', Specs(c)) /\ (OfArchiver(c, arch') \/ OfRun(c, rec'))
  BY <1>1, <1>10
<1>q. QED
  BY <1>8, <1>9, <1>11, <1>12 DEF PoolsInv

\* What the archiver writes is as usable as what it read: the files it moved were not of
\* the opponents of that list.
LEMMA MovedToFiles ==
  ASSUME NEW w, NEW es, NEW jobs, ListOk(w, es), JobsOk(w, jobs),
         \A i \in DOMAIN es :
           es[i].file.key[1] = i /\ (i + PoolSize >= Len(es) => es[i].file \in DOMAIN w.fs),
         \A k \in DOMAIN jobs :
           /\ jobs[k].seq \in Nat /\ jobs[k].from.key[1] = jobs[k].seq
           /\ jobs[k].seq + PoolSize < Len(es)
  PROVE  \A i \in DOMAIN es :
           LET f == MovedTo(es, jobs)[i].file
           IN  f.key[1] = i /\ (i + PoolSize >= Len(es) => f \in DOMAIN w.fs)
<1> DEFINE new == MovedTo(es, jobs)
           Good(i) == /\ new[i].file.key[1] = i
                      /\ i + PoolSize >= Len(es) => new[i].file \in DOMAIN w.fs
<1> SUFFICES ASSUME NEW i \in DOMAIN es PROVE Good(i)
  OBVIOUS
<1>1. \/ MovedTo(es, jobs)[i] = es[i]
      \/ \E k \in DOMAIN jobs : jobs[k].seq = i
           /\ MovedTo(es, jobs)[i] = [es[i] EXCEPT !.file = Archived(jobs[k].from)]
  BY MovedToIs
<1>2. new[i] = es[i] \/ \E k \in DOMAIN jobs : jobs[k].seq = i
                          /\ new[i] = [es[i] EXCEPT !.file = Archived(jobs[k].from)]
  BY <1>1
<1> HIDE DEF new
<1>3. ASSUME NEW k \in DOMAIN jobs, jobs[k].seq = i,
             new[i] = [es[i] EXCEPT !.file = Archived(jobs[k].from)]
      PROVE  Good(i)
  <2>1. es[i] = [source |-> es[i].source, id |-> es[i].id, file |-> es[i].file,
                 sum |-> es[i].sum]
    BY DEF ListOk, EntryOk
  <2>2. new[i].file = Archived(jobs[k].from)
    BY <1>3, <2>1
  <2>3. Archived(jobs[k].from).key = jobs[k].from.key
    BY ArchivedIs DEF JobsOk
  <2>4. ~(i + PoolSize >= Len(es))
    <3>1. Len(es) \in Nat /\ i \in Nat /\ i + PoolSize < Len(es)
      BY <1>3, SeqLen DEF ListOk
    <3>q. QED
      BY <3>1, PromotionAssumption
  <2>q. QED
    BY <1>3, <2>2, <2>3, <2>4
<1>4. ASSUME new[i] = es[i] PROVE Good(i)
  BY <1>4
<1>q. QED
  BY <1>2, <1>3, <1>4

LEMMA MovedToUsable ==
  ASSUME NEW w, NEW a, NEW es, w.managed, ListOk(w, es), JobsOk(w, a.moved), Placed(a),
         Usable(w, a, Specs(es))
  PROVE  /\ Usable(w, a, Specs(MovedTo(es, a.moved)))
         /\ Len(MovedTo(es, a.moved)) = Len(es)
<1> DEFINE new == MovedTo(es, a.moved)
           Good(f, i) == f.key[1] = i /\ (i + PoolSize >= Len(es) => f \in DOMAIN w.fs)
<1>1. DOMAIN new = DOMAIN es /\ IsSeq(new) /\ Len(new) = Len(es)
  BY MovedToIs
<1>2. IsSeq(es) /\ Len(es) \in Nat /\ Len(Specs(es)) = Len(es) /\ DOMAIN Specs(es) = DOMAIN es
      /\ \A i \in DOMAIN es : Specs(es)[i] = es[i].file
  BY SpecsIs, SeqLen DEF ListOk
<1>3. /\ \A i \in DOMAIN es : Good(es[i].file, i)
      /\ \A job \in JobsOf(a) : job.seq + PoolSize < Len(es)
  BY <1>2 DEF Usable
<1>4. \A k \in DOMAIN a.moved :
        /\ a.moved[k].seq \in Nat /\ a.moved[k].from.key[1] = a.moved[k].seq
        /\ a.moved[k].seq + PoolSize < Len(es)
  BY <1>3 DEF Placed, JobsOf, Elements
<1>5. \A i \in DOMAIN es : Good(new[i].file, i)
  BY <1>3, <1>4, MovedToFiles
<1> HIDE DEF new
<1>6. /\ IsSeq(Specs(new)) /\ Len(Specs(new)) = Len(es) /\ DOMAIN Specs(new) = DOMAIN es
      /\ \A i \in DOMAIN es : Specs(new)[i] = new[i].file
  BY <1>1, SpecsIs
<1> HIDE DEF Specs
<1>7. Usable(w, a, Specs(new))
  BY <1>3, <1>5, <1>6 DEF Usable
<1>q. QED
  BY <1>1, <1>7 DEF new

LEMMA ArchivePools ==
  ASSUME RunsInv, CopyInv, GoalsInv, PoolsInv, Lone, [Next]_vars, Archiver
  PROVE  PoolsInv'
<1>1. RunsInv' /\ RunsGrow /\ UNCHANGED <<run, runman, site>>
  BY NextRuns DEF Archiver, runVars
<1>2. CASE Plan
  <2>1. files' = files
    BY <1>2 DEF Plan
  <2>2. WorldGoes /\ CopiesOk(World')
    BY <1>1, <2>1, SameFiles DEF CopyInv
  <2>q. QED
    BY <1>1, <1>2, <2>2, PlanPools
<1>3. ASSUME Move \/ Reread \/ Rewrite \/ Publish \/ Rollback PROVE PoolsInv'
  <2>1. /\ JobsOf(arch') \subseteq JobsOf(arch) /\ rec' = rec
        /\ \/ arch' = NoBatch
           \/ arch'.seen = arch.seen /\ arch'.pc \in {"move", "replace", "rollback"}
           \/ Reread /\ arch'.seen = registry /\ arch'.pc = "write"
    BY <1>3, BatchAfter
  <2>2. UsableStays /\ Placed(arch')
    BY <2>1, UsableGoes DEF PoolsInv
  <2>3. Usable(World', arch', Specs(registry)) /\ \A c \in tmp : Usable(World', arch', Specs(c))
    BY <2>2 DEF PoolsInv, UsableStays
  <2>4. /\ IsSeq(registry) /\ Len(registry) \in Nat
        /\ \A r \in Runs : Remembers(r) => Len(registry) <= Len(Memory(run[r], rec[r]))
    BY BatchFacts, SeqLen DEF ListOk, PoolsInv, MemoryOk
  <2>5. ASSUME UNCHANGED <<registry, tmp>>, arch.pc # "replace", BatchPools' PROVE PoolsInv'
    <3>1. \A c \in tmp : OfRun(c, rec)
      BY <2>5 DEF PoolsInv, OfArchiver
    <3>q. QED
      BY <1>1, <2>1, <2>2, <2>3, <2>4, <2>5, <3>1, ArchiverPools
  <2>6. CASE Move \/ Rollback
    <3>1. UNCHANGED <<registry, tmp>> /\ arch.pc \in {"move", "rollback"}
      BY <2>6 DEF Move, Rollback
    <3>2. arch' = NoBatch \/ arch'.pc \in {"move", "rollback"}
      BY <2>6, BatchFacts DEF Move, Rollback
    <3>3. BatchPools'
      BY <3>2 DEF BatchPools, NoBatch
    <3>q. QED
      BY <2>5, <3>1, <3>3
  <2>7. CASE Reread
    <3>1. UNCHANGED <<registry, tmp>> /\ arch.pc = "move"
      BY <2>7 DEF Reread
    <3>2. arch' = NoBatch \/ arch'.seen = registry
      BY <2>7, BatchFacts DEF Reread
    <3>3. BatchPools'
      BY <2>3, <2>4, <3>1, <3>2 DEF BatchPools, NoBatch
    <3>q. QED
      BY <2>5, <3>1, <3>3
  <2>8. CASE Rewrite
    <3>1. /\ arch.pc = "write" /\ registry' = registry /\ tmp' = {MovedTo(arch.seen, arch.moved)}
          /\ arch' = [arch EXCEPT !.pc = "replace"]
      BY <2>8 DEF Rewrite
    <3>2. arch'.pc = "replace" /\ arch'.seen = arch.seen
      BY <3>1, BatchFacts
    <3>3. /\ Usable(World, arch, Specs(arch.seen)) /\ Len(arch.seen) <= Len(registry)
          /\ ListOk(World, arch.seen) /\ JobsOk(World, arch.moved) /\ World.managed
      BY <3>1, BatchFacts DEF PoolsInv, BatchPools, BatchOk
    <3>4. /\ Usable(World, arch, Specs(MovedTo(arch.seen, arch.moved)))
          /\ Len(MovedTo(arch.seen, arch.moved)) = Len(arch.seen)
      BY <3>3, MovedToUsable DEF PoolsInv
    <3>5. \A c \in tmp' : Usable(World', arch', Specs(c)) /\ OfArchiver(c, arch')
      BY <2>2, <3>1, <3>2, <3>4 DEF UsableStays, OfArchiver
    <3>6. BatchPools'
      BY <2>2, <3>1, <3>2, <3>3 DEF BatchPools, UsableStays
    <3>q. QED
      BY <1>1, <2>1, <2>2, <2>3, <2>4, <3>1, <3>5, <3>6, ArchiverPools
  <2>9. CASE Publish
    <3>1. ASSUME NEW c \in tmp, registry' = c, tmp' = {}, arch' = NoBatch PROVE PoolsInv'
      <4>1. \A r \in Runs : Remembers(r) => Len(registry') <= Len(Memory(run[r], rec[r]))
        BY <3>1, TmpLens
      <4>2. BatchPools'
        BY <3>1 DEF BatchPools, NoBatch
      <4>q. QED
        BY <1>1, <2>1, <2>2, <2>3, <3>1, <4>1, <4>2, ArchiverPools
    <3>2. CASE tmp = {} /\ arch' = [arch EXCEPT !.pc = "rollback"] /\ UNCHANGED <<registry, tmp>>
      <4>1. arch'.pc = "rollback"
        BY <3>2, BatchFacts
      <4>2. BatchPools'
        BY <4>1 DEF BatchPools
      <4>q. QED
        BY <1>1, <2>1, <2>2, <2>3, <2>4, <3>2, <4>2, ArchiverPools
    <3>q. QED
      BY <2>9, <3>1, <3>2 DEF Publish
  <2>q. QED
    BY <1>3, <2>6, <2>7, <2>8, <2>9
<1>q. QED
  BY <1>2, <1>3 DEF Archiver, Archive

\* The invariant, at sites where one run promotes and nobody dies.
LEMMA InitPools == Init => PoolsInv
<1> SUFFICES ASSUME Init PROVE PoolsInv
  OBVIOUS
<1>1. /\ registry = <<>> /\ tmp = {} /\ arch = NoBatch
      /\ \A r \in Runs : run[r] = Off /\ rec[r].pc = "idle"
  BY DEF Init, PromotionInit, Promoters, Idle
<1>2. IsSeq(Specs(<<>>)) /\ DOMAIN Specs(<<>>) = {}
  BY EmptyIs, SpecsIs
<1>3. Usable(World, NoBatch, Specs(<<>>))
  BY <1>2, NoJobs DEF Usable
<1>4. Placed(arch) /\ BatchPools
  BY <1>1, NoJobs DEF Placed, BatchPools, NoBatch
<1>q. QED
  BY <1>1, <1>3, <1>4 DEF PoolsInv, MemoryOk, Remembers, Off

LEMMA NextPools ==
  ASSUME RunsInv, CopyInv, GoalsInv, OperatorsRest, PoolsInv, Lone, budget.crashes = 0,
         [Next]_vars
  PROVE  PoolsInv'
<1>1. site' = site
  BY SiteStays
<1>2. ASSUME arch' = arch PROVE UsableStays /\ Placed(arch')
  BY <1>2, UsableGoes DEF PoolsInv
<1>3. ASSUME NEW o \in Operators PROVE ~Command(o) /\ ~OperatorStep(o)
  <2>1. ~Command(o)
    BY DEF Command, OperatorsRest
  <2>2. ~OperatorStep(o)
    BY DEF OperatorStep, OperatorsRest, Judge, Gate, Lock, Keep, WriteTmp, Replace, At, Outcomes
  <2>q. QED
    BY <2>1, <2>2
<1>4. ~Crash
  BY DEF Crash, OneCrash
<1>5. CASE UNCHANGED vars
  <2>1. UNCHANGED <<registry, tmp, rec, arch, run, site>>
    BY <1>5 DEF vars, promotionVars, runVars
  <2>2. UsableStays /\ Placed(arch')
    BY <1>2, <2>1
  <2>3. Usable(World', arch', Specs(registry)) /\ \A c \in tmp : Usable(World', arch', Specs(c))
    BY <2>2 DEF PoolsInv, UsableStays
  <2>4. BatchPools'
    BY <2>1, <2>2 DEF PoolsInv, BatchPools, UsableStays
  <2>5. /\ \A c \in tmp : OfArchiver(c, arch) \/ OfRun(c, rec)
        /\ \A r \in Runs : Remembers(r) => Len(registry) <= Len(Memory(run[r], rec[r]))
    BY DEF PoolsInv, MemoryOk
  <2>q. QED
    BY <2>1, <2>2, <2>3, <2>4, <2>5, ArchiverPools
<1>6. ASSUME NEW r \in Runs,
             Start(r) \/ Collect(r) \/ Train(r) \/ Evaluate(r) \/ WriteRun(r) \/ Finish(r)
      PROVE  PoolsInv'
  <2>1. arch' = arch
    BY <1>6 DEF Start, Collect, Train, Evaluate, WriteRun, Finish, promotionVars
  <2>q. QED
    BY <1>1, <1>2, <1>6, <2>1, WorkPools
<1>7. ASSUME NEW r \in Runs, Decide(r) \/ Raises(r) PROVE PoolsInv'
  <2>1. arch' = arch
    BY <1>7 DEF Decide, Raises, Leave
  <2>q. QED
    BY <1>1, <1>2, <1>7, <2>1, DecidePools
<1>8. ASSUME NEW r \in Runs, Promote(r) PROVE PoolsInv'
  <2>1. /\ run[r].pc = "promote" /\ run' = run
        /\ Begin(r) \/ Judge(r, r) \/ Lock(r) \/ Keep(r, site.managed) \/ WriteTmp(r) \/ Replace(r)
    BY <1>8 DEF Promote, Pc, runVars
  <2>2. arch' = arch
    BY <2>1 DEF Begin, Judge, Gate, Lock, Keep, WriteTmp, Replace
  <2>3. UsableStays /\ Placed(arch')
    BY <1>2, <2>2
  <2>4. CASE Begin(r) \/ Judge(r, r)
    BY <1>1, <2>1, <2>3, <2>4, OutsidePools
  <2>5. CASE Lock(r)
    BY <1>1, <2>1, <2>3, <2>5, LockPools
  <2>6. CASE Keep(r, site.managed)
    BY <1>1, <2>1, <2>3, <2>6, KeepPools
  <2>7. CASE WriteTmp(r)
    BY <1>1, <2>1, <2>3, <2>7, WriteTmpPools
  <2>8. CASE Replace(r)
    BY <1>1, <2>1, <2>3, <2>8, ReplacePools
  <2>q. QED
    BY <2>1, <2>4, <2>5, <2>6, <2>7, <2>8
<1>q. QED
  BY <1>3, <1>4, <1>5, <1>6, <1>7, <1>8, ArchivePools DEF Next, RunStep

--------------------------------------------------------------------------------
(* The opponents of a run that does not promote are checkpoints it trained. *)

Plain(m, fs) == m.accepted = None /\ m.source.at = "run" /\ m.source \in DOMAIN fs

\* The process s of run r and its manifests, beside the files fs.
PlainRun(r, s, im, rm, fs) ==
  /\ \A i \in DOMAIN im : Plain(im[i], fs)
  /\ \A i \in DOMAIN rm : Plain(rm[i], fs)
  /\ s.pc # "off" =>
       /\ \A i \in DOMAIN s.done : Plain(s.done[i], fs)
       /\ \A i \in DOMAIN s.pool : s.pool[i].at = "run" /\ s.pool[i] \in DOMAIN fs
  /\ s.pc = "evaluate" => Source(r, s.iter) \in DOMAIN fs
  /\ s.pc \in {"publish", "finish"} => Plain(s.m, fs)

PlainOk(r) == Mode(r) # "promote" => PlainRun(r, run[r], iterman[r], runman[r], files)
PlainInv == \A r \in Runs : PlainOk(r)

LEMMA SourceAt == ASSUME NEW r, NEW n PROVE Source(r, n).at = "run"
  BY DEF Source

LEMMA PlainGoes ==
  ASSUME NEW fs, NEW gs, \A f \in DOMAIN fs : f.at = "run" => f \in DOMAIN gs,
         NEW r, NEW s, NEW im, NEW rm, PlainRun(r, s, im, rm, fs)
  PROVE  PlainRun(r, s, im, rm, gs)
<1>1. \A m : Plain(m, fs) => Plain(m, gs)
  BY DEF Plain
<1>2. s.pc = "evaluate" => Source(r, s.iter) \in DOMAIN gs
  BY SourceAt DEF PlainRun
<1>q. QED
  BY <1>1, <1>2 DEF PlainRun

LEMMA RunFilesStay ==
  ASSUME CopyInv, [Next]_vars PROVE \A f \in DOMAIN files : f.at = "run" => f \in DOMAIN files'
BY FilesLost

LEMMA OffPlain ==
  ASSUME NEW r, NEW s, NEW im, NEW rm, NEW fs, PlainRun(r, s, im, rm, fs)
  PROVE  PlainRun(r, Off, im, rm, fs)
BY DEF PlainRun, Off

\* A resumption without promotion plays the advanced iterations of its manifests.
LEMMA HistoryPlain ==
  ASSUME NEW ms, NEW fs, IsSeq(ms), \A i \in DOMAIN ms : Plain(ms[i], fs)
  PROVE  \A k \in DOMAIN History(ms) : History(ms)[k].at = "run" /\ History(ms)[k] \in DOMAIN fs
<1> DEFINE S == {i \in DOMAIN ms : ms[i].advance}
           t == Select(ms, S)
<1>1. /\ DOMAIN t = 1 .. Cardinality(S)
      /\ \A k \in 1 .. Cardinality(S) : Ascending(S)[k] \in S /\ t[k] = ms[Ascending(S)[k]]
  BY SelectIs
<1>2. \A k \in DOMAIN t : t[k].advance /\ Plain(t[k], fs)
  <2> HIDE DEF t
  <2>q. QED
    BY <1>1
<1>3. History(ms) = [k \in DOMAIN t |-> NextSpec(t[k])]
  BY DEF History
<1> HIDE DEF S, t
<1>q. QED
  BY <1>2, <1>3 DEF NextSpec, Plain

LEMMA StartPlain ==
  ASSUME RunsInv, NEW r \in Runs, Start(r), Mode(r) # "promote", PlainOk(r)
  PROVE  PlainRun(r, run'[r], iterman'[r], runman'[r], files)
<1> DEFINE ms == Prior(r)
<1>1. r \in DOMAIN run /\ IsSeq(iterman[r]) /\ IsSeq(runman[r])
      /\ PlainRun(r, run[r], iterman[r], runman[r], files)
  BY DEF RunsInv, RunInv, RunOk, Numbered, PlainOk
<1>2. IsSeq(ms) /\ \A i \in DOMAIN ms : Plain(ms[i], files)
  BY <1>1 DEF Prior, PlainRun
<1>3. /\ run'[r].pc = "collect" /\ run'[r].pool = History(ms) /\ run'[r].done = ms
      /\ iterman' = iterman /\ runman' = runman
  BY <1>1 DEF Start
<1> HIDE DEF ms
<1>4. \A k \in DOMAIN History(ms) : History(ms)[k].at = "run" /\ History(ms)[k] \in DOMAIN files
  BY <1>2, HistoryPlain
<1>q. QED
  BY <1>1, <1>2, <1>3, <1>4 DEF PlainRun

LEMMA EvaluatePlain ==
  ASSUME RunsInv, NEW r \in Runs, Evaluate(r), Mode(r) # "promote", PlainOk(r)
  PROVE  PlainRun(r, run'[r], iterman'[r], runman'[r], files)
<1>1. /\ r \in DOMAIN run /\ r \in DOMAIN iterman /\ run[r].pc = "evaluate" /\ runman' = runman
      /\ RunShape(run[r]) /\ PlainRun(r, run[r], iterman[r], runman[r], files)
  BY DEF RunsInv, RunInv, RunOk, PlainOk, Evaluate, Pc
<1>2. CASE Dies(r) /\ UNCHANGED iterman
  BY <1>1, <1>2, OffPlain DEF Dies
<1>3. ASSUME NEW measured, NEW wins, NEW eval,
             run' = [run EXCEPT ![r].pc = "publish",
                                ![r].m = IterationManifest(r, measured, wins),
                                ![r].eval = eval],
             iterman' = [iterman EXCEPT
                          ![r] = Put(@, run[r].iter, IterationManifest(r, measured, wins))]
      PROVE  PlainRun(r, run'[r], iterman'[r], runman'[r], files)
  <2> DEFINE m == IterationManifest(r, measured, wins)
  <2>1. Plain(m, files)
    BY <1>1, SourceAt DEF IterationManifest, Plain, PlainRun
  <2> HIDE DEF m
  <2>2. run'[r] = [run[r] EXCEPT !.pc = "publish", !.m = m, !.eval = eval]
        /\ iterman'[r] = Put(iterman[r], run[r].iter, m)
    BY <1>1, <1>3 DEF m
  <2>3. run'[r].pc = "publish" /\ run'[r].m = m /\ run'[r].done = run[r].done
        /\ run'[r].pool = run[r].pool
    BY <1>1, <2>2 DEF RunShape
  <2>4. \A i \in DOMAIN iterman'[r] : Plain(iterman'[r][i], files)
    BY <1>1, <2>1, <2>2 DEF Put, PlainRun
  <2>q. QED
    BY <1>1, <2>1, <2>3, <2>4 DEF PlainRun
<1>4. CASE ~(Dies(r) /\ UNCHANGED iterman)
  <2>1. PICK measured, wins, eval :
          /\ run' = [run EXCEPT ![r].pc = "publish",
                                ![r].m = IterationManifest(r, measured, wins),
                                ![r].eval = eval]
          /\ iterman' = [iterman EXCEPT
                          ![r] = Put(@, run[r].iter, IterationManifest(r, measured, wins))]
    BY <1>4, EvaluateEffect
  <2>q. QED
    BY <1>3, <2>1
<1>q. QED
  BY <1>2, <1>4

LEMMA AppendPlain ==
  ASSUME NEW ms, NEW m, NEW fs, IsSeq(ms), \A i \in DOMAIN ms : Plain(ms[i], fs), Plain(m, fs)
  PROVE  \A i \in DOMAIN Append(ms, m) : Plain(Append(ms, m)[i], fs)
BY AppendDomain

LEMMA PublishPlain ==
  ASSUME RunsInv, GoalsInv, RunsTyped, SequencesInv, NEW r \in Runs, WriteRun(r) \/ Finish(r),
         Mode(r) # "promote", PlainOk(r)
  PROVE  PlainRun(r, run'[r], iterman'[r], runman'[r], files)
<1> DEFINE m == run[r].m
           done == Append(run[r].done, m)
           pool == IF m.advance THEN Append(run[r].pool, NextSpec(m)) ELSE run[r].pool
<1>1. /\ r \in DOMAIN run /\ r \in DOMAIN runman /\ run[r].pc \in {"publish", "finish"}
      /\ iterman' = iterman /\ runman'[r] = done
      /\ RunShape(run[r]) /\ PlainRun(r, run[r], iterman[r], runman[r], files)
  BY DEF RunsInv, RunInv, RunOk, PlainOk, WriteRun, Finish, Pc
<1>2. IsSeq(run[r].done) /\ IsSeq(run[r].pool)
  <2>1. Going(run[r])
    BY <1>1, GoingFacts
  <2>q. QED
    BY <2>1, InSeq DEF Going
<1>3. Plain(m, files) /\ \A i \in DOMAIN run[r].done : Plain(run[r].done[i], files)
  BY <1>1 DEF PlainRun
<1>4. \A i \in DOMAIN done : Plain(done[i], files)
  BY <1>2, <1>3, AppendPlain
<1>5. \A i \in DOMAIN pool : pool[i].at = "run" /\ pool[i] \in DOMAIN files
  <2>1. \A i \in DOMAIN run[r].pool : run[r].pool[i].at = "run" /\ run[r].pool[i] \in DOMAIN files
    BY <1>1 DEF PlainRun
  <2>2. m.advance => NextSpec(m).at = "run" /\ NextSpec(m) \in DOMAIN files
    BY <1>3 DEF NextSpec, Plain
  <2> HIDE DEF m
  <2>q. QED
    BY <1>2, <2>1, <2>2, AppendDomain
<1>6. CASE WriteRun(r)
  <2>1. run'[r] = [run[r] EXCEPT !.pc = "finish"]
    BY <1>1, <1>6 DEF WriteRun, Enters
  <2>2. run'[r].pc = "finish" /\ run'[r].m = m /\ run'[r].done = run[r].done
        /\ run'[r].pool = run[r].pool
    BY <1>1, <2>1 DEF RunShape
  <2> HIDE DEF m, done, pool
  <2>q. QED
    BY <1>1, <1>3, <1>4, <2>2 DEF PlainRun
<1>7. CASE Finish(r)
  <2>1. \/ run'[r] = Off
        \/ run'[r] = [run[r] EXCEPT !.pc = "collect", !.iter = @ + 1, !.current = NextSpec(m),
                                    !.pool = pool, !.done = done, !.m = None]
    BY <1>1, <1>7 DEF Finish
  <2>2. CASE run'[r] = Off
    BY <1>1, <1>4, <2>2 DEF PlainRun, Off
  <2>3. CASE run'[r] = [run[r] EXCEPT !.pc = "collect", !.iter = @ + 1, !.current = NextSpec(m),
                                      !.pool = pool, !.done = done, !.m = None]
    <3> HIDE DEF m, done, pool
    <3>1. run'[r].pc = "collect" /\ run'[r].done = done /\ run'[r].pool = pool
      BY <1>1, <2>3 DEF RunShape
    <3>q. QED
      BY <1>1, <1>4, <1>5, <3>1 DEF PlainRun
  <2>q. QED
    BY <2>1, <2>2, <2>3
<1>q. QED
  BY <1>6, <1>7

\* A step of run r itself, and of anybody else.
LEMMA WorkPlain ==
  ASSUME RunsInv, GoalsInv, RunsTyped, SequencesInv, NEW r \in Runs, Start(r) \/ RunStep(r),
         Mode(r) # "promote", PlainOk(r),
         \A f \in DOMAIN files : f.at = "run" => f \in DOMAIN files'
  PROVE  PlainRun(r, run'[r], iterman'[r], runman'[r], files')
<1>1. /\ r \in DOMAIN run /\ RunShape(run[r]) /\ PlainRun(r, run[r], iterman[r], runman[r], files)
      /\ run[r].pc # "promote"
  BY DEF RunsInv, RunInv, RunOk, PlainOk, GoalsInv
<1>2. PlainRun(r, run[r], iterman[r], runman[r], files')
  BY <1>1, PlainGoes
<1>3. ASSUME NEW s, s.pc = "train", s.done = run[r].done, s.pool = run[r].pool,
             run[r].pc = "collect"
      PROVE  PlainRun(r, s, iterman[r], runman[r], files')
  BY <1>2, <1>3 DEF PlainRun
<1>4. CASE Start(r) \/ Evaluate(r) \/ WriteRun(r) \/ Finish(r)
  <2>1. PlainRun(r, run'[r], iterman'[r], runman'[r], files)
    BY <1>4, StartPlain, EvaluatePlain, PublishPlain
  <2>q. QED
    BY <2>1, PlainGoes
<1>5. CASE Collect(r)
  <2>1. /\ iterman' = iterman /\ runman' = runman /\ run[r].pc = "collect"
        /\ Enters(r, "train") \/ Dies(r)
    BY <1>5 DEF Collect, Pc
  <2>2. CASE Dies(r)
    BY <1>1, <1>2, <2>1, <2>2, OffPlain DEF Dies
  <2>3. CASE Enters(r, "train")
    <3>1. run'[r] = [run[r] EXCEPT !.pc = "train"]
      BY <1>1, <2>3 DEF Enters
    <3>2. run'[r].pc = "train" /\ run'[r].done = run[r].done /\ run'[r].pool = run[r].pool
      BY <1>1, <3>1 DEF RunShape
    <3>q. QED
      BY <1>3, <2>1, <3>2
  <2>q. QED
    BY <2>1, <2>2, <2>3
<1>6. CASE Train(r)
  <2>1. /\ iterman' = iterman /\ runman' = runman /\ run[r].pc = "train"
        /\ run'[r] = [run[r] EXCEPT !.pc = "evaluate"]
        /\ Source(r, run[r].iter) \in DOMAIN files'
    BY <1>1, <1>6 DEF Train, Pc, Enters, Put
  <2>2. run'[r].pc = "evaluate" /\ run'[r].done = run[r].done /\ run'[r].pool = run[r].pool
        /\ run'[r].iter = run[r].iter
    BY <1>1, <2>1 DEF RunShape
  <2>q. QED
    BY <1>2, <2>1, <2>2 DEF PlainRun
<1>7. ~(Promote(r) \/ Decide(r) \/ Raises(r))
  BY <1>1 DEF Promote, Decide, Raises, Pc
<1>q. QED
  BY <1>4, <1>5, <1>6, <1>7 DEF RunStep

LEMMA InitPlain == Init => PlainInv
<1> SUFFICES ASSUME Init, NEW r \in Runs PROVE PlainOk(r)
  BY DEF PlainInv
<1>1. run[r] = Off /\ iterman[r] = <<>> /\ runman[r] = <<>>
  BY DEF Init
<1>q. QED
  BY <1>1, EmptyIs DEF PlainOk, PlainRun, Off

LEMMA NextPlain ==
  ASSUME RunsInv, GoalsInv, CopyInv, RunsTyped, SequencesInv, PlainInv, [Next]_vars
  PROVE  PlainInv'
<1> SUFFICES ASSUME NEW r \in Runs, Mode(r)' # "promote"
             PROVE  PlainRun(r, run'[r], iterman'[r], runman'[r], files')
  BY DEF PlainInv, PlainOk
<1>1. /\ Mode(r) # "promote" /\ PlainOk(r)
      /\ \A f \in DOMAIN files : f.at = "run" => f \in DOMAIN files'
  BY SiteStays, RunFilesStay DEF Mode, PlainInv
<1>2. r \in DOMAIN run /\ r \in DOMAIN iterman /\ r \in DOMAIN runman
  BY DEF RunsInv
<1>3. PlainRun(r, run[r], iterman[r], runman[r], files')
  BY <1>1, PlainGoes DEF PlainOk
<1>4. ASSUME NEW q \in Runs, Start(q) \/ RunStep(q), SequenceGoesOn(q)
      PROVE  PlainRun(r, run'[r], iterman'[r], runman'[r], files')
  <2>1. CASE q = r
    BY <1>1, <1>4, <2>1, WorkPlain
  <2>2. CASE q # r
    BY <1>3, <1>4, <2>2 DEF SequenceGoesOn, OnlyRun
  <2>q. QED
    BY <2>1, <2>2
<1>5. CASE UNCHANGED <<run, iterman, runman>>
  BY <1>3, <1>5
<1>6. CASE \E q \in Runs : Start(q) \/ Evaluate(q) \/ WriteRun(q) \/ Decide(q) \/ Finish(q)
  <2>1. PICK q \in Runs : Start(q) \/ Evaluate(q) \/ WriteRun(q) \/ Decide(q) \/ Finish(q)
    BY <1>6
  <2>2. SequenceGoesOn(q)
    BY <2>1, StartSequence, EvaluateSequence, WriteRunSequence, DecideSequence, FinishSequence
  <2>q. QED
    BY <1>4, <2>1, <2>2 DEF RunStep
<1>7. CASE \E q \in Runs : Collect(q) \/ Train(q)
  <2>1. PICK q \in Runs : Collect(q) \/ Train(q)
    BY <1>7
  <2>2. /\ UNCHANGED <<iterman, runman>>
        /\ \/ Enters(q, "train") /\ run[q].pc = "collect"
           \/ Enters(q, "evaluate") /\ run[q].pc = "train"
           \/ Dies(q)
    BY <2>1 DEF Collect, Train, Pc
  <2>3. SequenceGoesOn(q)
    BY <2>2, EntersSequence, DiesSequence
  <2>q. QED
    BY <1>4, <2>1, <2>3 DEF RunStep
<1>8. CASE \E q \in Runs : Dies(q) /\ UNCHANGED <<iterman, runman>>
  <2>1. PICK q \in Runs : run' = [run EXCEPT ![q] = Off] /\ UNCHANGED <<iterman, runman>>
    BY <1>8 DEF Dies
  <2>2. run'[r] = Off \/ run'[r] = run[r]
    BY <1>2, <2>1
  <2>q. QED
    BY <1>3, <2>1, <2>2, OffPlain
<1>9. ASSUME NEW q \in Runs, RunStep(q)
      PROVE  \/ Collect(q) \/ Train(q) \/ Evaluate(q) \/ WriteRun(q) \/ Decide(q) \/ Finish(q)
             \/ Dies(q) /\ UNCHANGED <<iterman, runman>>
             \/ UNCHANGED <<run, iterman, runman>>
  BY <1>9 DEF RunStep, Promote, Raises, runVars
<1>10. ASSUME Crash
       PROVE  \/ \E q \in Runs : Dies(q) /\ UNCHANGED <<iterman, runman>>
              \/ UNCHANGED <<run, iterman, runman>>
  BY <1>10 DEF Crash
<1>11. ASSUME (\E o \in Operators : Command(o) \/ OperatorStep(o)) \/ Archiver \/ UNCHANGED vars
       PROVE  UNCHANGED <<run, iterman, runman>>
  BY <1>11 DEF Command, OperatorStep, Archiver, vars, runVars
<1>q. QED
  BY <1>5, <1>6, <1>7, <1>8, <1>9, <1>10, <1>11 DEF Next

--------------------------------------------------------------------------------
(* The opponents are the last of the pool but for one position at most, so *)
(* they are among its last PoolSize + 1.                                   *)

LEMMA CountBack ==
  ASSUME NEW n \in Nat, NEW S \in SUBSET (1 .. n), NEW q, \A i \in 1 .. n : i # q => i \in S,
         NEW p \in S
  PROVE  n - p <= Cardinality(S) - Cardinality(UpTo(S, p)) + 1
<1> DEFINE U == UpTo(S, p)
           T == (p + 1 .. n) \ {q}
<1>1. p \in Nat /\ 1 <= p /\ p <= n
  OBVIOUS
<1>2. IsFiniteSet(S) /\ Cardinality(S) \in Nat
  <2>1. IsFiniteSet(1 .. n)
    BY FS_Interval
  <2>q. QED
    BY <2>1, FS_Subset, FS_CardinalityType
<1>3. /\ IsFiniteSet(T) /\ Cardinality(T) \in Nat /\ Cardinality(T) >= n - p - 1
  <2>1. IsFiniteSet(p + 1 .. n) /\ Cardinality(p + 1 .. n) = n - p
    <3>1. p + 1 \in Int /\ n \in Int
      BY <1>1
    <3>2. IsFiniteSet(p + 1 .. n)
          /\ Cardinality(p + 1 .. n) = IF p + 1 > n THEN 0 ELSE n - (p + 1) + 1
      BY <3>1, FS_Interval
    <3>q. QED
      BY <1>1, <3>2
  <2> DEFINE I == p + 1 .. n
  <2>2. /\ IsFiniteSet(I \ {q})
        /\ Cardinality(I \ {q}) = IF q \in I THEN Cardinality(I) - 1 ELSE Cardinality(I)
    BY <2>1, FS_RemoveElement
  <2> HIDE DEF I
  <2>3. Cardinality(I \ {q}) \in Nat
    BY <2>2, FS_CardinalityType
  <2>q. QED
    BY <1>1, <2>1, <2>2, <2>3 DEF I
<1>4. /\ IsFiniteSet(U) /\ Cardinality(U) \in Nat
  <2>1. U \in SUBSET S
    BY DEF UpTo
  <2>q. QED
    BY <1>2, <2>1, FS_Subset, FS_CardinalityType
<1>5. T \cup U \in SUBSET S /\ T \cap U = {}
  <2>1. T \subseteq S
    BY <1>1
  <2>2. ASSUME NEW j \in T PROVE ~(j <= p)
    BY <1>1
  <2>q. QED
    BY <2>1, <2>2 DEF UpTo
<1> HIDE DEF T, U
<1>6. Cardinality(T \cup U) = Cardinality(T) + Cardinality(U)
  <2>1. Cardinality(T \cup U) = Cardinality(T) + Cardinality(U) - Cardinality(T \cap U)
    BY <1>3, <1>4, FS_Union
  <2>2. Cardinality(T \cap U) = 0
    BY <1>5, FS_EmptySet
  <2>q. QED
    BY <1>3, <1>4, <2>1, <2>2
<1>7. Cardinality(T \cup U) <= Cardinality(S)
  BY <1>2, <1>5, FS_Subset
<1>8. n - p <= Cardinality(S) - Cardinality(U) + 1
  BY <1>1, <1>2, <1>3, <1>4, <1>6, <1>7
<1>q. QED
  BY <1>8 DEF U

\* Recent returns the last k elements.
LEMMA RecentIs ==
  ASSUME NEW s, IsSeq(s), NEW k \in Nat, NEW i \in DOMAIN Recent(s, k)
  PROVE  \E j \in 1 .. Len(s) : j + k > Len(s) /\ Recent(s, k)[i] = s[j]
<1> DEFINE n == Len(s)
           lo == IF n > k THEN n - k + 1 ELSE 1
           t == SubSeq(s, lo, n)
<1>1. n \in Nat /\ DOMAIN s = 1 .. n
  BY SeqLen
<1>2. lo \in Int /\ n \in Int /\ 1 <= lo /\ lo + k > n
  BY <1>1
<1>3. t = Recent(s, k)
  BY DEF Recent
<1> HIDE DEF lo
<1>4. \A j \in lo .. n : s[j] \in Elements(s)
  BY <1>1, <1>2 DEF Elements
<1>5. /\ t \in Seq(Elements(s)) /\ Len(t) = (IF lo <= n THEN n - lo + 1 ELSE 0)
      /\ \A j \in 1 .. n - lo + 1 : t[j] = s[lo + j - 1]
  BY <1>2, <1>4, SubSeqProperties
<1> HIDE DEF t, n
<1>6. i \in 1 .. Len(t)
  BY <1>3, <1>5, InSeq
<1>7. lo <= n /\ i \in 1 .. n - lo + 1
  BY <1>1, <1>2, <1>5, <1>6
<1>8. lo + i - 1 \in 1 .. n /\ lo + i - 1 + k > n
  BY <1>1, <1>2, <1>7
<1>q. QED
  BY <1>3, <1>5, <1>7, <1>8 DEF n

\* An opponent is at a position of the pool, and how many are after it.
LEMMA OpponentIs ==
  ASSUME NEW r, IsSeq(run[r].pool), NEW i \in DOMAIN Opponents(r)
  PROVE  LET pool == run[r].pool
             S == {p \in DOMAIN pool : pool[p] # run[r].current}
         IN  \E p \in S : /\ Opponents(r)[i] = pool[p]
                          /\ Cardinality(UpTo(S, p)) + MaxHistorical > Cardinality(S)
<1> DEFINE pool == run[r].pool
           S == {p \in DOMAIN pool : pool[p] # run[r].current}
           t == Select(pool, S)
<1>1. S \subseteq DOMAIN pool /\ Opponents(r) = Recent(t, MaxHistorical)
  BY DEF Opponents
<1>2. Len(pool) \in Nat /\ S \in SUBSET (1 .. Len(pool))
  BY <1>1, SeqLen
<1> HIDE DEF S, t
<1>3. /\ IsSeq(t) /\ Len(t) = Cardinality(S)
      /\ \A k \in 1 .. Cardinality(S) : Ascending(S)[k] \in S /\ t[k] = pool[Ascending(S)[k]]
  BY <1>1, SelectIs DEF t
<1>4. MaxHistorical \in Nat
  BY SitesAssumption
<1>5. PICK k \in 1 .. Len(t) : k + MaxHistorical > Len(t)
                               /\ Recent(t, MaxHistorical)[i] = t[k]
  BY <1>1, <1>3, <1>4, RecentIs
<1>6. Cardinality(UpTo(S, Ascending(S)[k])) = k
  BY <1>2, <1>3, <1>5, AscendingIn
<1>7. Ascending(S)[k] \in S /\ t[k] = pool[Ascending(S)[k]]
  BY <1>3, <1>5
<1>8. \E p \in S : Opponents(r)[i] = pool[p]
                   /\ Cardinality(UpTo(S, p)) + MaxHistorical > Cardinality(S)
  BY <1>1, <1>3, <1>5, <1>6, <1>7
<1>q. QED
  BY <1>8 DEF S

OpponentsLoad(r) ==
  /\ run[r].pool # <<>> /\ run[r].current = Last(run[r].pool) => Loadable(run[r].current)
  /\ \A i \in DOMAIN Opponents(r) : Loadable(Opponents(r)[i])

LEMMA PlainLoad ==
  ASSUME NEW r, IsSeq(run[r].pool), \A p \in DOMAIN run[r].pool : run[r].pool[p] \in DOMAIN files
  PROVE  OpponentsLoad(r)
<1>1. run[r].pool # <<>> => Len(run[r].pool) \in DOMAIN run[r].pool
  BY SeqLen, LenZero
<1>q. QED
  BY <1>1, OpponentIs DEF OpponentsLoad, Last, Loadable

LEMMA UsableLoad ==
  ASSUME NEW r, Usable(World, arch, run[r].pool), MaxHistorical <= PoolSize PROVE OpponentsLoad(r)
<1> DEFINE pool == run[r].pool
           n == Len(pool)
           S == {p \in DOMAIN pool : pool[p] # run[r].current}
<1>1. IsSeq(pool) /\ n \in Nat /\ DOMAIN pool = 1 .. n /\ (pool # <<>> => n # 0)
      /\ PoolSize \in Nat /\ MaxHistorical \in Nat
  BY SeqLen, LenZero, PromotionAssumption, SitesAssumption DEF Usable
<1>2. CASE ~site.managed
  BY <1>1, <1>2, WorldIs, PlainLoad DEF Usable
<1>3. CASE site.managed
  <2>1. \A p \in 1 .. n : pool[p].key[1] = p /\ (p + PoolSize >= n => pool[p] \in DOMAIN files)
    BY <1>1, <1>3, WorldIs DEF Usable
  <2>2. pool # <<>> => Last(pool) \in DOMAIN files
    <3>1. pool # <<>> => n \in 1 .. n /\ n + PoolSize >= n
      BY <1>1
    <3> HIDE DEF pool
    <3>q. QED
      BY <2>1, <3>1 DEF Last
  <2>3. ASSUME NEW p \in S, Cardinality(UpTo(S, p)) + MaxHistorical > Cardinality(S)
        PROVE  pool[p] \in DOMAIN files
    <3>1. PICK q : \A j \in 1 .. n : j # q => pool[j] # run[r].current
      <4>1. CASE \E q \in 1 .. n : pool[q] = run[r].current
        <5>1. PICK q \in 1 .. n : pool[q] = run[r].current
          BY <4>1
        <5>2. \A j \in 1 .. n : j # q => pool[j] # run[r].current
          BY <2>1, <5>1
        <5>q. QED
          BY <5>2
      <4>2. CASE ~\E q \in 1 .. n : pool[q] = run[r].current
        BY <4>2
      <4>q. QED
        BY <4>1, <4>2
    <3>2. \A j \in 1 .. n : j # q => j \in S
      BY <1>1, <3>1
    <3>3. S \in SUBSET (1 .. n) /\ p \in 1 .. n
      BY <1>1
    <3> HIDE DEF S, n, pool
    <3>4. Cardinality(S) \in Nat /\ Cardinality(UpTo(S, p)) \in Nat
      <4>1. n \in Nat /\ p \in Nat
        BY <1>1, <3>3
      <4>2. UpTo(S, n) = S /\ \A m \in Nat : Cardinality(UpTo(S, m)) \in Nat
        BY <3>3, <4>1, UpToFacts
      <4>3. Cardinality(UpTo(S, n)) \in Nat /\ Cardinality(UpTo(S, p)) \in Nat
        BY <4>1, <4>2
      <4>q. QED
        BY <4>2, <4>3
    <3>5. n - p <= Cardinality(S) - Cardinality(UpTo(S, p)) + 1
      BY <1>1, <2>3, <3>2, <3>3, CountBack
    <3>6. p + PoolSize >= n
      BY <1>1, <2>3, <3>3, <3>4, <3>5
    <3>q. QED
      BY <2>1, <3>3, <3>6
  <2>q. QED
    BY <1>1, <2>2, <2>3, OpponentIs DEF OpponentsLoad, Loadable
<1>q. QED
  BY <1>2, <1>3

\* A run that alone promotes beside an archiver plays, if neither dies, only opponents whose
\* files are there, and from a champion whose file is there: what the archiver moves is
\* further back in its registry than the opponents of any list the run remembers.  A run
\* that does not promote plays what it trained itself, whoever dies.
THEOREM OpponentsAreThereHolds == Spec => []OpponentsAreThere
<1> DEFINE Safe == Lone /\ site.crashes = 0
           Inv == /\ RunsInv /\ SequencesInv /\ GoalsInv /\ CopyInv /\ TypesInv /\ PlainInv
                  /\ site.crashes = 0 => Unharmed
                  /\ Lone => OperatorsRest
                  /\ Safe => PoolsInv
<1>1. Init => Inv
  <2> SUFFICES ASSUME Init PROVE Inv
    OBVIOUS
  <2>1. RunsInv /\ SequencesInv /\ CopyInv /\ TypesInv /\ PlainInv /\ PoolsInv
    BY InitRuns, InitSequences, InitCopies, InitTypes, InitPlain, InitPools
  <2>2. GoalsInv
    BY DEF Init, GoalsInv, Off
  <2>3. site.crashes = 0 => Unharmed
    BY DEF Init, Unharmed
  <2>4. Lone => OperatorsRest
    BY InitGate DEF Lone, GateInv
  <2>q. QED
    BY <2>1, <2>2, <2>3, <2>4
<1>2. Inv /\ [Next]_vars => Inv'
  <2> SUFFICES ASSUME Inv, [Next]_vars PROVE Inv'
    OBVIOUS
  <2>1. site' = site /\ (Lone' <=> Lone)
    BY SiteStays DEF Lone, Promotes, Mode
  <2>2. RunsInv' /\ SequencesInv' /\ GoalsInv' /\ CopyInv'
    BY NextRuns, NextSequences, NextGoals, NextCopies
  <2>3. TypesInv'
    BY NextFiles, NextPromoters, NextBatches, NextRunsTyped, NextDirs DEF TypesInv
  <2>4. PlainInv'
    BY NextPlain DEF TypesInv
  <2>5. site.crashes = 0 => Unharmed'
    BY NextUnharmed
  <2>6. Lone => OperatorsRest'
    BY NextOperators DEF CopyInv, HeldInv
  <2>7. ASSUME Safe PROVE PoolsInv'
    <3>1. OperatorsRest /\ PoolsInv /\ budget.crashes = 0
      BY <2>7 DEF Unharmed
    <3>q. QED
      BY <2>7, <3>1, NextPools
  <2>q. QED
    BY <2>1, <2>2, <2>3, <2>4, <2>5, <2>6, <2>7
<1>3. Inv => OpponentsAreThere
  <2> SUFFICES ASSUME Inv, NEW r \in Runs, Pc(r, "collect"),
                      Mode(r) = "promote" => Sheltered
               PROVE  OpponentsLoad(r)
    BY DEF OpponentsAreThere, OpponentsLoad
  <2>2. CASE Mode(r) = "promote"
    <3>0. PoolsInv /\ MaxHistorical <= PoolSize
      BY <2>2 DEF Sheltered
    <3>1. MemoryOk(r) /\ rec[r].pc = "idle" /\ run[r].pc # "off"
      BY <3>0 DEF PoolsInv, Pc
    <3>2. Usable(World, arch, run[r].pool)
      BY <2>2, <3>1 DEF MemoryOk, Memory, Remembers
    <3>q. QED
      BY <3>0, <3>2, UsableLoad
  <2>3. CASE Mode(r) # "promote"
    <3>1. \A p \in DOMAIN run[r].pool : run[r].pool[p] \in DOMAIN files
      BY <2>3 DEF PlainInv, PlainOk, PlainRun, Pc
    <3>2. IsSeq(run[r].pool)
      <4>1. Going(run[r])
        BY GoingFacts DEF TypesInv, Pc
      <4>q. QED
        BY <4>1, InSeq DEF Going
    <3>q. QED
      BY <3>1, <3>2, PlainLoad
  <2>q. QED
    BY <2>2, <2>3
<1>q. QED
  BY <1>1, <1>2, <1>3, PTL DEF Spec

================================================================================
