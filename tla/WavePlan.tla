------------------------------ MODULE WavePlan ------------------------------
(***************************************************************************)
(* selectTaskWave of src/src/domain/plan.ts: which ready tasks of a plan   *)
(* start together.  A task is a number (the order of the numbers is the    *)
(* order of the task ids); batch key 0 stands for no batchKey; overlap is  *)
(* the relation pathsMayOverlap between the owned paths of two tasks.      *)
(***************************************************************************)
EXTENDS Naturals, Sequences, FiniteSets, SequencesExt

\* Mutant of Ready: a dependency that was started counts as completed.
ReadyOnceStarted(deps, completed, started) ==
  {t \in DOMAIN deps : t \notin started /\ deps[t] \subseteq completed \union started}

\* Not started yet, and every dependency is completed.
Ready(deps, completed, started) ==
  {t \in DOMAIN deps : t \notin started /\ deps[t] \subseteq completed}

\* The comparison of the sort: keyed tasks first, grouped by key, then by id.
Before(batch, s, t) ==
  \/ batch[s] # 0 /\ batch[t] = 0
  \/ batch[s] # 0 /\ batch[t] # 0 /\ batch[s] < batch[t]
  \/ batch[s] = batch[t] /\ s < t

\* The candidate that the sorted list has first.
First(batch, left) == CHOOSE t \in left : \A u \in left \ {t} : Before(batch, t, u)

\* Mutant of Disjoint: a task is compared with itself only.
DisjointFromItself(overlap, wave, t) == \A s \in ToSet(wave) : s = t => <<s, t>> \notin overlap

Disjoint(overlap, wave, t) == \A s \in ToSet(wave) : <<s, t>> \notin overlap

\* The first pass prefers to finish the batch of the task it started with.
OtherBatch(batch, wave, t) ==
  /\ wave # <<>>
  /\ batch[wave[1]] # 0
  /\ batch[t] \notin {0, batch[wave[1]]}

\* The body of the loops over the candidates: the first one left is taken or not.
Consider(batch, overlap, maxParallel, anyBatch, s) ==
  LET t == First(batch, s.left)
      taken == /\ Len(s.wave) < maxParallel
               /\ t \notin ToSet(s.wave)
               /\ anyBatch \/ ~ OtherBatch(batch, s.wave, t)
               /\ Disjoint(overlap, s.wave, t)
  IN  IF s.left = {} THEN s
      ELSE [left |-> s.left \ {t}, wave |-> IF taken THEN Append(s.wave, t) ELSE s.wave]

\* One loop over the candidates, that adds to a wave.
Pass(batch, overlap, maxParallel, anyBatch, ready, wave) ==
  LET step == [s \in [left : SUBSET ready, wave : Seq(ready)] |->
                 Consider(batch, overlap, maxParallel, anyBatch, s)]
      after[n \in Nat] == IF n = 0 THEN [left |-> ready, wave |-> wave] ELSE step[after[n - 1]]
  IN  after[Cardinality(ready)].wave

SelectWave(deps, batch, overlap, completed, started, maxParallel) ==
  LET ready == Ready(deps, completed, started)
      first == Pass(batch, overlap, maxParallel, FALSE, ready, <<>>)
      both == Pass(batch, overlap, maxParallel, TRUE, ready, first)
  IN  IF both = <<>> /\ ready # {} THEN <<First(batch, ready)>> ELSE both
=============================================================================
