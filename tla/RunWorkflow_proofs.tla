------------------------- MODULE RunWorkflow_proofs -------------------------
(***************************************************************************)
(* What one run of the workflow keeps for every plan, every number of      *)
(* tasks, attempts, aborts and crashes: first the recursion of             *)
(* selectTaskWave, then the inductive invariant with a lemma per action,   *)
(* and what follows from it.                                               *)
(***************************************************************************)
EXTENDS RunWorkflow, FiniteSetTheorems, SequenceTheorems, WellFoundedInduction, TLAPS

\* A set of numbers has a least one: what the inductions below rest on.
LEMMA LeastNatural ==
  ASSUME NEW T \in SUBSET Nat, T # {}
  PROVE  \E m \in T : \A k \in T : m <= k
<1> DEFINE R == OpToRel(<, Nat)
<1>1. IsWellFoundedOn(R, Nat)
  BY NatLessThanWellFounded
<1> HIDE DEF R
<1>2. \E m \in T : \A k \in T : <<k, m>> \notin R
  BY <1>1, WFMin, Zenon
<1>3. ASSUME NEW k \in Nat, NEW m \in Nat, <<k, m>> \notin R
      PROVE  m <= k
  <2>1. k < m => <<k, m>> \in R
    BY DEF R, OpToRel
  <2> QED
    BY <1>3, <2>1
<1> QED
  BY <1>2, <1>3

\* Induction over the numbers, with the set of those a claim is true of.
LEMMA EveryNatural ==
  ASSUME NEW T, 0 \in T, \A n \in Nat : n \in T => n + 1 \in T
  PROVE  Nat \subseteq T
<1> DEFINE Rest == Nat \ T
<1>1. Rest \in SUBSET Nat
  OBVIOUS
<1>2. \A m \in Rest : m - 1 \in Rest /\ m - 1 < m
  OBVIOUS
<1>3. Rest = {}
  <2> HIDE DEF Rest
  <2> SUFFICES ASSUME Rest # {} PROVE FALSE
    OBVIOUS
  <2>1. PICK m \in Rest : \A k \in Rest : m <= k
    BY <1>1, LeastNatural
  <2> QED
    BY <1>1, <1>2, <2>1
<1> QED
  BY <1>3

\* A function can be applied over and over: a recursion over the numbers has a solution.
LEMMA Iterated ==
  ASSUME NEW V, NEW v \in V, NEW g \in [V -> V]
  PROVE  \E f \in [Nat -> V] : f[0] = v /\ \A n \in Nat : f[n + 1] = g[f[n]]
<1> DEFINE Upto(n) == {h \in [0 .. n -> V] : h[0] = v /\ \A i \in 0 .. n : i < n => h[i + 1] = g[h[i]]}
           Solved == {n \in Nat : \E h : h \in Upto(n)}
<1>1. 0 \in Solved
  <2>1. [i \in 0 .. 0 |-> v] \in Upto(0)
    OBVIOUS
  <2> QED
    BY <2>1
<1>2. ASSUME NEW m \in Nat, m \in Solved PROVE m + 1 \in Solved
  <2>1. PICK h : h \in Upto(m)
    BY <1>2
  <2> DEFINE e == [i \in 0 .. m + 1 |-> IF i = m + 1 THEN g[h[m]] ELSE h[i]]
  <2>2. e \in [0 .. m + 1 -> V] /\ e[0] = v
    BY <2>1
  <2>3. \A i \in 0 .. m + 1 : i < m + 1 => e[i + 1] = g[e[i]]
    BY <2>1
  <2>4. e \in Upto(m + 1)
    BY <2>2, <2>3
  <2> QED
    BY <2>4
<1>3. \A n \in Nat : \E h : h \in Upto(n)
  <2>1. Nat \subseteq Solved
    <3> HIDE DEF Solved
    <3> QED
      BY <1>1, <1>2, EveryNatural
  <2> QED
    BY <2>1
<1>4. ASSUME NEW n \in Nat, NEW h \in Upto(n), NEW e \in Upto(n + 1)
      PROVE  h[n] = e[n]
  <2> DEFINE Same == {i \in Nat : i <= n => h[i] = e[i]}
  <2>1. 0 \in Same
    BY <1>4
  <2>2. \A i \in Nat : i \in Same => i + 1 \in Same
    BY <1>4
  <2>3. Nat \subseteq Same
    <3> HIDE DEF Same
    <3> QED
      BY <2>1, <2>2, EveryNatural
  <2> QED
    BY <2>3
<1> DEFINE H(n) == CHOOSE h : h \in Upto(n)
           f == [n \in Nat |-> H(n)[n]]
<1>5. \A n \in Nat : H(n) \in Upto(n)
  BY <1>3
<1> HIDE DEF H
<1>6. f \in [Nat -> V] /\ f[0] = v
  BY <1>5
<1>7. ASSUME NEW n \in Nat PROVE f[n + 1] = g[f[n]]
  <2>1. H(n)[n] = H(n + 1)[n]
    <3> HIDE DEF Upto
    <3> QED
      BY <1>4, <1>5
  <2>2. H(n + 1)[n + 1] = g[H(n + 1)[n]]
    BY <1>5
  <2> QED
    BY <2>1, <2>2
<1> QED
  BY <1>6, <1>7

Unfolded(v, g) == CHOOSE f : f = [n \in Nat |-> f[n]] /\ f[0] = v /\ \A n \in Nat : f[n + 1] = g[f[n]]

\* What the recursion computes stays where each of its steps stays.
LEMMA UnfoldedInto ==
  ASSUME NEW V, NEW v, NEW g, v \in V, g \in [V -> V]
  PROVE  /\ Unfolded(v, g) = [n \in Nat |-> Unfolded(v, g)[n]]
         /\ \A n \in Nat : Unfolded(v, g)[n] \in V
         /\ Unfolded(v, g)[0] = v
         /\ \A n \in Nat : Unfolded(v, g)[n + 1] = g[Unfolded(v, g)[n]]
<1>1. PICK h \in [Nat -> V] : h[0] = v /\ \A n \in Nat : h[n + 1] = g[h[n]]
  BY Iterated
<1>2. /\ Unfolded(v, g) = [n \in Nat |-> Unfolded(v, g)[n]]
      /\ Unfolded(v, g)[0] = v
      /\ \A n \in Nat : Unfolded(v, g)[n + 1] = g[Unfolded(v, g)[n]]
  BY <1>1 DEF Unfolded
<1> DEFINE T == {n \in Nat : Unfolded(v, g)[n] \in V}
<1>3. 0 \in T /\ \A n \in Nat : n \in T => n + 1 \in T
  BY <1>2
<1>4. Nat \subseteq T
  <2> HIDE DEF T
  <2> QED
    BY <1>3, EveryNatural
<1> QED
  BY <1>2, <1>4

-----------------------------------------------------------------------------
\* The sort has a first candidate, whatever the keys and the ids are.
LEMMA FirstIsCandidate ==
  ASSUME NEW S \in SUBSET Nat, S # {}, NEW batch, \A t \in S : batch[t] \in Nat
  PROVE  First(batch, S) \in S
<1> DEFINE Keys == {batch[t] : t \in S} \ {0}
<1>1. ASSUME NEW k \in Nat, \E t \in S : batch[t] = k,
             \A t \in S : batch[t] # k => \/ k # 0 /\ batch[t] = 0
                                          \/ k # 0 /\ batch[t] # 0 /\ k < batch[t]
      PROVE  \E t \in S : \A u \in S \ {t} : Before(batch, t, u)
  <2> DEFINE Ids == {t \in S : batch[t] = k}
  <2>1. Ids \in SUBSET Nat /\ Ids # {}
    BY <1>1
  <2>2. \E t \in Ids : \A u \in Ids : t <= u
    <3> HIDE DEF Ids
    <3> QED
      BY <2>1, LeastNatural
  <2>3. PICK t \in Ids : \A u \in Ids : t <= u
    BY <2>2
  <2>4. ASSUME NEW u \in S \ {t} PROVE Before(batch, t, u)
    <3>1. CASE batch[u] = k
      BY <2>3, <3>1 DEF Before
    <3>2. CASE batch[u] # k
      BY <1>1, <2>3, <3>2 DEF Before
    <3> QED
      BY <3>1, <3>2
  <2> QED
    BY <2>3, <2>4
<1>2. \E t \in S : \A u \in S \ {t} : Before(batch, t, u)
  <2>1. CASE Keys = {}
    <3>1. \A t \in S : batch[t] = 0
      BY <2>1
    <3> QED
      BY <1>1, <3>1
  <2>2. CASE Keys # {}
    <3>1. Keys \in SUBSET Nat
      OBVIOUS
    <3>2. \E k \in Keys : \A n \in Keys : k <= n
      <4> HIDE DEF Keys
      <4> QED
        BY <2>2, <3>1, LeastNatural
    <3>3. PICK k \in Keys : \A n \in Keys : k <= n
      BY <3>2
    <3>4. \A t \in S : batch[t] # k => \/ k # 0 /\ batch[t] = 0
                                       \/ k # 0 /\ batch[t] # 0 /\ k < batch[t]
      <4> SUFFICES ASSUME NEW t \in S, batch[t] # k, batch[t] # 0
                   PROVE  k # 0 /\ k < batch[t]
        BY <3>1, <3>3
      <4>1. batch[t] \in Keys /\ batch[t] \in Nat /\ k \in Nat /\ k # 0
        BY <3>1
      <4>2. k <= batch[t]
        BY <3>3, <4>1
      <4> QED
        BY <4>1, <4>2
    <3> QED
      BY <1>1, <3>1, <3>3, <3>4
  <2> QED
    BY <2>1, <2>2
<1> QED
  BY <1>2 DEF First

\* The waves that a plan allows: ready tasks, no two of them on the same paths.
Waves(ready, overlap) ==
  {w \in Seq(ready) : \A i, j \in DOMAIN w : i < j => w[i] # w[j] /\ <<w[i], w[j]>> \notin overlap}

LEMMA AppendToWave ==
  ASSUME NEW ready, NEW overlap, NEW w \in Waves(ready, overlap), NEW t \in ready,
         t \notin ToSet(w), Disjoint(overlap, w, t)
  PROVE  Append(w, t) \in Waves(ready, overlap)
<1> DEFINE x == Append(w, t)
<1>1. w \in Seq(ready) /\ Len(w) \in Nat /\ DOMAIN w = 1 .. Len(w)
  BY DEF Waves
<1>2. x \in Seq(ready) /\ DOMAIN x = 1 .. (Len(w) + 1)
  BY <1>1
<1>3. x[Len(w) + 1] = t /\ \A i \in 1 .. Len(w) : x[i] = w[i]
  BY <1>1
<1> HIDE DEF x
<1>4. \A i \in 1 .. Len(w) : w[i] # t /\ <<w[i], t>> \notin overlap
  BY <1>1 DEF Disjoint, ToSet
<1>5. \A i, j \in DOMAIN x : i < j => x[i] # x[j] /\ <<x[i], x[j]>> \notin overlap
  <2> SUFFICES ASSUME NEW i \in DOMAIN x, NEW j \in DOMAIN x, i < j
               PROVE  x[i] # x[j] /\ <<x[i], x[j]>> \notin overlap
    OBVIOUS
  <2>1. CASE j = Len(w) + 1
    BY <1>1, <1>2, <1>3, <1>4, <2>1
  <2>2. CASE j # Len(w) + 1
    <3>1. i \in DOMAIN w /\ j \in DOMAIN w
      BY <1>1, <1>2, <2>2
    <3>2. w[i] # w[j] /\ <<w[i], w[j]>> \notin overlap
      BY <3>1 DEF Waves
    <3> QED
      BY <1>1, <1>3, <3>1, <3>2
  <2> QED
    BY <2>1, <2>2
<1>6. x \in Waves(ready, overlap)
  BY <1>2, <1>5 DEF Waves
<1> QED
  BY <1>6 DEF x

\* A loop over the candidates makes an allowed wave of an allowed wave.
LEMMA PassAllowed ==
  ASSUME NEW ready \in SUBSET Nat, IsFiniteSet(ready), NEW overlap, NEW maxParallel,
         NEW batch, \A t \in ready : batch[t] \in Nat,
         NEW anyBatch \in BOOLEAN, NEW w \in Waves(ready, overlap)
  PROVE  Pass(batch, overlap, maxParallel, anyBatch, ready, w) \in Waves(ready, overlap)
<1> DEFINE V == [left : SUBSET ready, wave : Waves(ready, overlap)]
           Body(s) == Consider(batch, overlap, maxParallel, anyBatch, s)
           one == [s \in [left : SUBSET ready, wave : Seq(ready)] |-> Body(s)]
           after[n \in Nat] == IF n = 0 THEN [left |-> ready, wave |-> w] ELSE one[after[n - 1]]
<1>1. ASSUME NEW s \in V PROVE Body(s) \in V
  <2>1. CASE s.left = {}
    BY <2>1 DEF Consider
  <2>2. CASE s.left # {}
    <3> DEFINE t == First(batch, s.left)
    <3>1. t \in s.left /\ t \in ready
      BY <2>2, FirstIsCandidate
    <3> HIDE DEF t
    <3>2. t \notin ToSet(s.wave) /\ Disjoint(overlap, s.wave, t)
            => Append(s.wave, t) \in Waves(ready, overlap)
      BY <3>1, AppendToWave
    <3> USE DEF t
    <3>3. Body(s).left = s.left \ {t} /\ Body(s) = [left |-> s.left \ {t}, wave |-> Body(s).wave]
      BY <2>2 DEF Consider
    <3>4. \/ Body(s).wave = s.wave
          \/ /\ t \notin ToSet(s.wave) /\ Disjoint(overlap, s.wave, t)
             /\ Body(s).wave = Append(s.wave, t)
      BY <2>2 DEF Consider
    <3> HIDE DEF Body, t
    <3> QED
      BY <3>1, <3>2, <3>3, <3>4
  <2> QED
    BY <2>1, <2>2
<1> HIDE DEF Body
<1>2. \A s \in V : one[s] = Body(s)
  BY DEF Waves
<1> HIDE DEF one
<1> DEFINE v == [left |-> ready, wave |-> w]
           g == [s \in V |-> Body(s)]
           f == Unfolded(v, g)
<1>3. v \in V /\ g \in [V -> V]
  BY <1>1
<1>4. /\ f = [n \in Nat |-> f[n]]
      /\ \A n \in Nat : f[n] \in V
      /\ f[0] = v
      /\ \A n \in Nat : f[n + 1] = g[f[n]]
  <2> HIDE DEF V, g, v
  <2> QED
    BY <1>3, UnfoldedInto
<1> HIDE DEF f
<1>5. f = [n \in Nat |-> IF n = 0 THEN v ELSE one[f[n - 1]]]
  <2>1. \A n \in Nat : f[n] = IF n = 0 THEN v ELSE one[f[n - 1]]
    <3> SUFFICES ASSUME NEW n \in Nat, n # 0 PROVE f[n] = one[f[n - 1]]
      BY <1>4
    <3>1. n - 1 \in Nat /\ (n - 1) + 1 = n
      OBVIOUS
    <3> HIDE DEF V
    <3> QED
      BY <1>2, <1>4, <3>1
  <2> HIDE DEF v
  <2> QED
    BY <1>4, <2>1
<1>6. after = [n \in Nat |-> IF n = 0 THEN v ELSE one[after[n - 1]]]
  BY <1>5
<1> HIDE DEF after
<1> HIDE DEF V
<1>7. after[0] \in V
  BY <1>3, <1>6
<1>8. ASSUME NEW n \in Nat, after[n] \in V PROVE after[n + 1] \in V
  <2>1. after[n + 1] = one[after[n]]
    BY <1>6
  <2> QED
    BY <1>1, <1>2, <1>8, <2>1
<1>9. \A n \in Nat : after[n] \in V
  <2> DEFINE T == {n \in Nat : after[n] \in V}
  <2>1. 0 \in T /\ \A n \in Nat : n \in T => n + 1 \in T
    BY <1>7, <1>8
  <2>2. Nat \subseteq T
    <3> HIDE DEF T
    <3> QED
      BY <2>1, EveryNatural
  <2> QED
    BY <2>2
<1>10. Cardinality(ready) \in Nat
  BY FS_CardinalityType
<1>11. after[Cardinality(ready)].wave \in Waves(ready, overlap)
  BY <1>9, <1>10 DEF V
<1> QED
  BY <1>11 DEF Pass, after, one, Body

\* selectTaskWave returns an allowed wave of ready tasks.
LEMMA SelectedAllowed ==
  ASSUME NEW deps, NEW completed, NEW started, NEW overlap, NEW maxParallel, NEW batch,
         DOMAIN deps \in SUBSET Nat, IsFiniteSet(DOMAIN deps), \A t \in DOMAIN deps : batch[t] \in Nat
  PROVE  SelectWave(deps, batch, overlap, completed, started, maxParallel)
           \in Waves(Ready(deps, completed, started), overlap)
<1> DEFINE ready == Ready(deps, completed, started)
           first == Pass(batch, overlap, maxParallel, FALSE, ready, <<>>)
           both == Pass(batch, overlap, maxParallel, TRUE, ready, first)
<1>1. ready \in SUBSET Nat /\ IsFiniteSet(ready) /\ \A t \in ready : batch[t] \in Nat
  <2>1. ready \in SUBSET (DOMAIN deps)
    BY DEF Ready
  <2> QED
    BY <2>1, FS_Subset
<1> HIDE DEF ready
<1>2. <<>> \in Waves(ready, overlap)
  BY DEF Waves
<1>3. first \in Waves(ready, overlap)
  BY <1>1, <1>2, PassAllowed
<1>4. both \in Waves(ready, overlap)
  <2> HIDE DEF first
  <2> QED
    BY <1>1, <1>3, PassAllowed
<1>5. ready # {} => <<First(batch, ready)>> \in Waves(ready, overlap)
  <2> SUFFICES ASSUME ready # {} PROVE <<First(batch, ready)>> \in Waves(ready, overlap)
    OBVIOUS
  <2>1. First(batch, ready) \in ready
    BY <1>1, FirstIsCandidate
  <2> QED
    BY <2>1 DEF Waves
<1>6. SelectWave(deps, batch, overlap, completed, started, maxParallel)
        = IF both = <<>> /\ ready # {} THEN <<First(batch, ready)>> ELSE both
  BY DEF SelectWave, ready
<1> HIDE DEF first, both
<1>7. SelectWave(deps, batch, overlap, completed, started, maxParallel) \in Waves(ready, overlap)
  BY <1>4, <1>5, <1>6
<1> QED
  BY <1>7 DEF ready

-----------------------------------------------------------------------------
\* The wave that executeTasks starts: of tasks of the plan, ready and on disjoint paths.
LEMMA NextWaveAllowed ==
  /\ NextWave \in Seq(Task)
  /\ \A t \in ToSet(NextWave) :
       /\ t \notin Completed \union WithStatus({"blocked"})
       /\ DependsOn[t] \subseteq Completed
       /\ \A u \in ToSet(NextWave) \ {t} : <<t, u>> \notin Overlap
<1> DEFINE started == Completed \union WithStatus({"blocked"})
           ready == Ready(DependsOn, Completed, started)
           w == NextWave
<1>1. DOMAIN DependsOn = Task /\ Task \in SUBSET Nat /\ IsFiniteSet(Task)
      /\ \A t \in Task : BatchKey[t] \in Nat
  BY PlanAssumption
<1>2. w \in Waves(ready, Overlap)
  BY <1>1, SelectedAllowed DEF NextWave
<1>3. \A t \in ready : t \in Task /\ t \notin started /\ DependsOn[t] \subseteq Completed
  BY <1>1 DEF Ready
<1> HIDE DEF ready, started, w
<1>4. w \in Seq(ready) /\ DOMAIN w = 1 .. Len(w) /\ Len(w) \in Nat
  BY <1>2 DEF Waves
<1>5. \A i \in DOMAIN w : w[i] \in ready
  BY <1>4
<1>6. w \in Seq(Task)
  BY <1>3, <1>4, SeqMonotonic
<1>7. ASSUME NEW t \in ToSet(w), NEW u \in ToSet(w), t # u PROVE <<t, u>> \notin Overlap
  <2>1. PICK i \in DOMAIN w, j \in DOMAIN w : t = w[i] /\ u = w[j]
    BY DEF ToSet
  <2>2. i < j \/ j < i
    BY <1>4, <1>7, <2>1
  <2>3. <<t, u>> \notin Overlap \/ <<u, t>> \notin Overlap
    BY <1>2, <2>1, <2>2 DEF Waves
  <2>4. t \in Task /\ u \in Task
    BY <1>3, <1>5, <2>1
  <2> QED
    BY <2>3, <2>4, PlanAssumption
<1>8. \A t \in ToSet(w) : t \in ready
  BY <1>5 DEF ToSet
<1> QED
  BY <1>3, <1>6, <1>7, <1>8 DEF w, started

-----------------------------------------------------------------------------
(***************************************************************************)
(* The inductive invariant.  A copy of the run, in memory or on disk,      *)
(* agrees with the integration branch: what it has as merged is merged,    *)
(* what is merged it has as merged or as about to be, a commit was made    *)
(* after the merges it depends on, and the checkpoint is a prefix.         *)
(***************************************************************************)
MergedPrefix(n) == {log[i].task : i \in 1 .. n}

Coherent(r) ==
  /\ \A t \in Task :
       LET s == r.task[t]
       IN  /\ s.merging => s.status = "passed" /\ s.commit
           /\ s.commit => DependsOn[t] \subseteq MergedIn(log)
           /\ s.status = "merged" => t \in MergedIn(log)
           /\ t \in MergedIn(log) => s.status = "merged" \/ s.merging
  /\ r.head <= Len(log)
  /\ r.done = MergedPrefix(r.head)
  /\ \A t \in r.done : r.task[t].status = "merged"

LogDistinct == \A i, j \in DOMAIN log : log[i].task = log[j].task => i = j

SameHeader(a, b) ==
  /\ a.status = b.status /\ a.stage = b.stage /\ a.head = b.head /\ a.done = b.done
  /\ a.resumes = b.resumes /\ a.checked = b.checked /\ a.asked = b.asked

\* The copies differ in tasks of the wave only, until a failure is settled.
CopiesAgree ==
  /\ SameHeader(mem, disk)
  /\ flow \notin {"wave", "failing"} => mem.task = disk.task
  /\ flow = "wave" => \A t \in Task \ ToSet(wave) : mem.task[t] = disk.task[t]

\* Every resume that counts was paid for by an abort or a crash.
BreaksCounted ==
  /\ mem.resumes + (IF mem.status = "interrupted" \/ flow = "down" THEN 1 ELSE 0)
       + (IF abort # "none" /\ flow \notin {"off", "down", "cleanTrees", "cleanBranches"} THEN 1 ELSE 0)
     <= breaks
  /\ flow = "down" => abort = "none"
  /\ flow \in {"validate", "prepare"} => mem.status = "interrupted"

\* Where the workflow is when no merge of its own is under way.
Calm ==
  {"mergePassed", "loop", "wave", "intent", "checkpoint", "settle", "tasksDone", "final", "decide",
   "approve", "prepare"}

MergingOnlyNext ==
  /\ flow \in Calm => \A t \in Task : ~ mem.task[t].merging /\ ~ disk.task[t].merging
  /\ flow \in {"git", "note"} => \A t \in Task : mem.task[t].merging <=> t = NextMerge

QueueReady ==
  /\ flow \in {"intent", "git", "note"} =>
       /\ queue # {}
       /\ \A t \in queue : /\ mem.task[t].status = "passed"
                           /\ mem.task[t].commit /\ mem.task[t].slot # 0
  /\ flow = "git" => NextMerge \notin MergedIn(log)
  /\ flow = "note" => NextMerge \in MergedIn(log)

WaveFits ==
  /\ flow # "wave" => wave = <<>>
  /\ \A t \in Task : step[t] = "off" <=> t \notin ToSet(wave)
  /\ \A t \in ToSet(wave) :
       /\ t \notin MergedIn(log)
       /\ DependsOn[t] \subseteq MergedIn(log)
       /\ \A u \in ToSet(wave) \ {t} : <<t, u>> \notin Overlap

\* What a step of a task can rely on.
StepsBacked ==
  \A t \in Task :
    /\ step[t] \notin {"off", "begin"} => mem.task[t].slot # 0
    /\ step[t] \in {"leftover", "commitLeftover", "review", "commit"} => tree[PlaceOf(t)] # "clean"
    /\ step[t] = "passed" => mem.task[t].status = "passed" /\ mem.task[t].commit

\* What the request of the approval can rely on.
OfferBacked ==
  /\ dirty => flow \in {"failing", "cleanTrees", "cleanBranches", "off", "down", "validate"}
  /\ flow = "decide" => mem.checked = Len(log)
  /\ flow = "approve" => mem.stage = "local-gates-passed"
  /\ mem.stage = "local-gates-passed" =>
       /\ flow \in {"approve", "off", "down"}
       /\ mem.checked = Len(log) /\ mem.head = Len(log) /\ ~ dirty
       /\ \A t \in Task : ~ mem.task[t].merging
       /\ flow = "off" => mem.asked
  /\ mem.asked =>
       mem.stage = "local-gates-passed" /\ mem.status = "awaiting-human" /\ flow \in {"off", "down"}

IInv ==
  /\ TypeOK /\ BreaksCounted /\ CopiesAgree /\ Coherent(mem) /\ Coherent(disk) /\ LogDistinct
  /\ MergingOnlyNext /\ QueueReady /\ WaveFits /\ StepsBacked /\ OfferBacked

-----------------------------------------------------------------------------
\* A change of one task leaves the rest of the run alone.
LEMMA SetTask ==
  ASSUME NEW r \in Run, NEW t \in Task, NEW s \in TaskState, NEW n, n = [r EXCEPT !.task[t] = s]
  PROVE  /\ n \in Run /\ SameHeader(n, r)
         /\ n.task[t] = s /\ \A u \in Task \ {t} : n.task[u] = r.task[u]
<1>1. r.task \in [Task -> TaskState]
  BY DEF Run
<1>2. [r.task EXCEPT ![t] = s] \in [Task -> TaskState]
  BY <1>1
<1>3. n = [r EXCEPT !.task = [r.task EXCEPT ![t] = s]]
  BY DEF Run
<1>4. n \in Run /\ n.task = [r.task EXCEPT ![t] = s]
  BY <1>2, <1>3 DEF Run
<1>5. SameHeader(n, r)
  BY <1>3 DEF Run, SameHeader
<1> QED
  BY <1>1, <1>4, <1>5

LEMMA RunFields ==
  ASSUME NEW r \in Run
  PROVE  /\ r.task \in [Task -> TaskState] /\ r.status \in RunStatus /\ r.stage \in Stage
         /\ r.head \in Nat /\ r.checked \in Nat /\ r.done \subseteq Task
         /\ r.resumes \in 0 .. MaxBreaks /\ r.asked \in BOOLEAN
         /\ \A t \in Task : r.task[t].slot \in Slot \union {0}
BY DEF Run, TaskState

\* What a step of a task of the wave may change.
TaskChange(t) ==
  /\ flow = "wave" /\ t \in Task /\ t \in ToSet(wave)
  /\ mem' \in Run /\ SameHeader(mem', mem) /\ \A u \in Task \ {t} : mem'.task[u] = mem.task[u]
  /\ mem'.task[t].status # "merged" /\ ~ mem'.task[t].merging
  /\ disk' \in {disk, mem, mem'}
  /\ step' \in [Task -> {"off"} \union WaveSteps \union EndSteps]
  /\ step'[t] # "off" /\ \A u \in Task \ {t} : step'[u] = step[u]
  /\ tree' \in [Place -> TreeState] /\ branch' \in [Place -> BranchState]
  /\ \A p \in Place : p[1] # t => tree'[p] = tree[p]
  /\ step'[t] # "begin" => mem'.task[t].slot # 0
  /\ step'[t] \in {"leftover", "commitLeftover", "review", "commit"} => tree'[<<t, mem'.task[t].slot>>] # "clean"
  /\ step'[t] = "passed" => mem'.task[t].status = "passed" /\ mem'.task[t].commit
  /\ UNCHANGED <<flow, wave, queue, abort, failure, breaks, log, dirty>>

LEMMA TaskChangeKeeps ==
  ASSUME IInv, NEW t \in Task, TaskChange(t)
  PROVE  IInv'
<1> USE DEF IInv
<1>1. TypeOK'
  BY DEF TypeOK, TaskChange
<1>2. BreaksCounted' /\ OfferBacked'
  BY DEF TaskChange, SameHeader, BreaksCounted, OfferBacked
<1>3. CopiesAgree'
  BY DEF TaskChange, SameHeader, CopiesAgree, TypeOK
<1>4. MergedIn(log)' = MergedIn(log) /\ \A n : MergedPrefix(n)' = MergedPrefix(n)
  BY DEF TaskChange, MergedIn, MergedPrefix
<1>5. t \notin MergedIn(log) /\ DependsOn[t] \subseteq MergedIn(log)
  BY DEF TaskChange, WaveFits
<1>6. Coherent(mem)'
  <2>1. mem'.head = mem.head /\ mem'.done = mem.done /\ log' = log /\ mem.done \subseteq Task
    BY RunFields DEF TaskChange, SameHeader, TypeOK
  <2>2. ASSUME NEW u \in Task, u # t
        PROVE  mem'.task[u] = mem.task[u]
    BY <2>2 DEF TaskChange
  <2>3. \A u \in mem.done : u # t
    BY <1>5, <2>1 DEF Coherent
  <2> QED
    BY <1>4, <1>5, <2>1, <2>2, <2>3 DEF TaskChange, Coherent
<1>7. Coherent(disk)'
  BY <1>4, <1>6 DEF TaskChange, Coherent
<1>8. LogDistinct'
  BY DEF TaskChange, LogDistinct
<1>9. MergingOnlyNext'
  BY DEF TaskChange, MergingOnlyNext, Calm
<1>10. QueueReady' 
  BY DEF TaskChange, QueueReady
<1>11. WaveFits'
  BY <1>4 DEF TaskChange, WaveFits
<1>12. StepsBacked'
  <2> SUFFICES ASSUME NEW u \in Task, u # t
               PROVE  /\ step'[u] \notin {"off", "begin"} => mem'.task[u].slot # 0
                      /\ step'[u] \in {"leftover", "commitLeftover", "review", "commit"}
                           => tree'[<<u, mem'.task[u].slot>>] # "clean"
                      /\ step'[u] = "passed" => mem'.task[u].status = "passed" /\ mem'.task[u].commit
    BY DEF TaskChange, StepsBacked, PlaceOf
  <2>1. mem'.task[u] = mem.task[u] /\ step'[u] = step[u]
    BY DEF TaskChange
  <2>2. mem.task[u].slot # 0 => <<u, mem.task[u].slot>> \in Place
    BY RunFields DEF TypeOK, Place
  <2>3. mem.task[u].slot # 0 => tree'[<<u, mem.task[u].slot>>] = tree[<<u, mem.task[u].slot>>]
    BY <2>2 DEF TaskChange
  <2> QED
    BY <2>1, <2>3 DEF StepsBacked, PlaceOf
<1> QED
  BY <1>1, <1>2, <1>3, <1>6, <1>7, <1>8, <1>9, <1>10, <1>11, <1>12

-----------------------------------------------------------------------------
\* A task that is at a step is a task of the wave, and not merged.
LEMMA AtWork ==
  ASSUME IInv, NEW t \in Task, flow = "wave", step[t] # "off"
  PROVE  /\ t \in ToSet(wave) /\ mem \in Run /\ mem.task[t] \in TaskState
         /\ mem.task[t].status # "merged" /\ ~ mem.task[t].merging
         /\ step \in [Task -> {"off"} \union WaveSteps \union EndSteps]
         /\ tree \in [Place -> TreeState] /\ branch \in [Place -> BranchState]
         /\ mem.task[t].slot # 0 => PlaceOf(t) \in Place
         /\ PlaceOf(t) = <<t, mem.task[t].slot>>
<1>1. t \in ToSet(wave)
  BY DEF IInv, WaveFits
<1>2. mem \in Run /\ mem.task[t] \in TaskState
  BY RunFields DEF IInv, TypeOK
<1>3. t \notin MergedIn(log)
  BY <1>1 DEF IInv, WaveFits
<1>4. mem.task[t].status # "merged"
  BY <1>3 DEF IInv, Coherent
<1>5. ~ mem.task[t].merging
  BY DEF IInv, MergingOnlyNext, Calm
<1>6. mem.task[t].slot # 0 => PlaceOf(t) \in Place
  BY <1>2, RunFields DEF PlaceOf, Place
<1> QED
  BY <1>1, <1>2, <1>4, <1>5, <1>6 DEF IInv, TypeOK, PlaceOf

\* A step that leaves memory alone; it may save.
LEMMA KeptInMemory ==
  ASSUME IInv, NEW t \in Task, flow = "wave", step[t] # "off",
         NEW a \in WaveSteps \union EndSteps, step' = [step EXCEPT ![t] = a],
         mem' = mem, disk' \in {disk, mem}, InWave,
         tree' \in [Place -> TreeState], branch' \in [Place -> BranchState],
         \A p \in Place : p[1] # t => tree'[p] = tree[p],
         a # "begin" => mem.task[t].slot # 0,
         a \in {"leftover", "commitLeftover", "review", "commit"} => tree'[PlaceOf(t)] # "clean",
         a = "passed" => mem.task[t].status = "passed" /\ mem.task[t].commit
  PROVE  TaskChange(t)
<1>1. step' \in [Task -> {"off"} \union WaveSteps \union EndSteps]
      /\ step'[t] = a /\ a # "off" /\ \A u \in Task \ {t} : step'[u] = step[u]
  BY AtWork DEF WaveSteps, EndSteps
<1>2. SameHeader(mem', mem)
  BY DEF SameHeader
<1> QED
  BY <1>1, <1>2, AtWork DEF TaskChange, InWave

\* A step that changes its task in memory; it may save.
LEMMA SetInMemory ==
  ASSUME IInv, NEW t \in Task, flow = "wave", step[t] # "off",
         NEW a \in WaveSteps \union EndSteps, step' = [step EXCEPT ![t] = a],
         NEW s \in TaskState, Set(t, s), disk' \in {disk, mem, mem'}, InWave,
         tree' \in [Place -> TreeState], branch' \in [Place -> BranchState],
         \A p \in Place : p[1] # t => tree'[p] = tree[p],
         s.status # "merged", ~ s.merging, a # "begin" => s.slot # 0,
         a \in {"leftover", "commitLeftover", "review", "commit"} => tree'[<<t, s.slot>>] # "clean",
         a = "passed" => s.status = "passed" /\ s.commit
  PROVE  TaskChange(t)
<1>1. step' \in [Task -> {"off"} \union WaveSteps \union EndSteps]
      /\ step'[t] = a /\ a # "off" /\ \A u \in Task \ {t} : step'[u] = step[u]
  BY AtWork DEF WaveSteps, EndSteps
<1>2. /\ mem' \in Run /\ SameHeader(mem', mem)
      /\ mem'.task[t] = s /\ \A u \in Task \ {t} : mem'.task[u] = mem.task[u]
  BY AtWork, SetTask DEF Set
<1> QED
  BY <1>1, <1>2, AtWork DEF TaskChange, InWave

\* The same for the steps that leave the worktree and the branch alone.
LEMMA KeptWithGit ==
  ASSUME IInv, NEW t \in Task, flow = "wave", step[t] # "off",
         NEW a \in WaveSteps \union EndSteps, step' = [step EXCEPT ![t] = a],
         mem' = mem, disk' \in {disk, mem}, InWave, SameGit,
         a # "begin" => mem.task[t].slot # 0,
         a \in {"leftover", "commitLeftover", "review", "commit"} => tree[PlaceOf(t)] # "clean",
         a = "passed" => mem.task[t].status = "passed" /\ mem.task[t].commit
  PROVE  TaskChange(t)
<1>1. /\ tree' \in [Place -> TreeState] /\ branch' \in [Place -> BranchState]
      /\ \A p \in Place : p[1] # t => tree'[p] = tree[p]
      /\ tree'[PlaceOf(t)] = tree[PlaceOf(t)]
  BY AtWork DEF SameGit
<1> QED
  BY <1>1, KeptInMemory

\* A commit is made of a worktree with a change, and leaves it clean.
LEMMA CommitMade ==
  ASSUME IInv, NEW t \in Task, flow = "wave", step[t] # "off", DoCommit(t)
  PROVE  /\ tree' \in [Place -> TreeState] /\ branch' \in [Place -> BranchState]
         /\ \A p \in Place : p[1] # t => tree'[p] = tree[p]
<1>1. mem.task[t].slot # 0 /\ tree[PlaceOf(t)] # "clean"
  BY DEF DoCommit, IInv, StepsBacked
<1> QED
  BY <1>1, AtWork DEF DoCommit, TreeState, BranchState

LEMMA SetWithGit ==
  ASSUME IInv, NEW t \in Task, flow = "wave", step[t] # "off",
         NEW a \in WaveSteps \union EndSteps, step' = [step EXCEPT ![t] = a],
         NEW s \in TaskState, Set(t, s), disk' \in {disk, mem, mem'}, InWave, SameGit,
         s.status # "merged", ~ s.merging, a # "begin" => s.slot # 0,
         a \in {"leftover", "commitLeftover", "review", "commit"}
           => s.slot = mem.task[t].slot /\ tree[PlaceOf(t)] # "clean",
         a = "passed" => s.status = "passed" /\ s.commit
  PROVE  TaskChange(t)
<1>1. /\ tree' \in [Place -> TreeState] /\ branch' \in [Place -> BranchState]
      /\ \A p \in Place : p[1] # t => tree'[p] = tree[p]
  BY AtWork DEF SameGit
<1>2. a \in {"leftover", "commitLeftover", "review", "commit"} => tree'[<<t, s.slot>>] # "clean"
  BY AtWork DEF SameGit
<1> QED
  BY <1>1, <1>2, SetInMemory

LEMMA StepNames ==
  /\ "begin" \in WaveSteps \union EndSteps
  /\ "add" \in WaveSteps \union EndSteps
  /\ "install" \in WaveSteps \union EndSteps
  /\ "probe" \in WaveSteps \union EndSteps
  /\ "leftover" \in WaveSteps \union EndSteps
  /\ "commitLeftover" \in WaveSteps \union EndSteps
  /\ "fresh" \in WaveSteps \union EndSteps
  /\ "rework" \in WaveSteps \union EndSteps
  /\ "retry" \in WaveSteps \union EndSteps
  /\ "worker" \in WaveSteps \union EndSteps
  /\ "gates" \in WaveSteps \union EndSteps
  /\ "judge" \in WaveSteps \union EndSteps
  /\ "review" \in WaveSteps \union EndSteps
  /\ "commit" \in WaveSteps \union EndSteps
  /\ "record" \in WaveSteps \union EndSteps
  /\ "passed" \in WaveSteps \union EndSteps
  /\ "blocked" \in WaveSteps \union EndSteps
  /\ "aborted" \in WaveSteps \union EndSteps
  /\ "failed" \in WaveSteps \union EndSteps
BY DEF WaveSteps, EndSteps

\* A step of a task changes what TaskChange says.
LEMMA TaskStepChanges ==
  ASSUME IInv, NEW t \in Task, TaskStep(t) \/ WorkerEdits(t)
  PROVE  TaskChange(t)
<1> USE DEF Go, KeepMem, KeepDisk, Save, At
<1>1. CASE BeginTask(t)
  <2>1. flow = "wave" /\ step[t] = "begin" /\ InWave /\ SameGit /\ disk' = disk
    BY <1>1 DEF BeginTask
  <2>2. CASE mem' = mem /\ Reusable(t) /\ step' = [step EXCEPT ![t] = "probe"]
    BY <2>1, <2>2, KeptWithGit DEF Reusable, WaveSteps
  <2>3. CASE Set(t, [mem.task[t] EXCEPT !.status = "working", !.slot = mem.resumes + 1])
             /\ step' = [step EXCEPT ![t] = "add"]
    <3> DEFINE s == [mem.task[t] EXCEPT !.status = "working", !.slot = mem.resumes + 1]
    <3>1. mem.resumes + 1 \in Slot /\ mem.resumes + 1 # 0
      BY <2>1, AtWork, RunFields, LimitAssumption DEF Slot
    <3>2. Set(t, s) /\ s \in TaskState /\ s.status = "working" /\ ~ s.merging /\ s.slot # 0
      BY <2>1, <2>3, <3>1, AtWork DEF TaskState, TaskStatus
    <3> HIDE DEF s
    <3> QED
      BY <2>1, <2>3, <3>2, StepNames, SetWithGit
  <2> QED
    BY <1>1, <2>2, <2>3 DEF BeginTask
<1>2. CASE AddWorktree(t)
  <2>1. flow = "wave" /\ step[t] = "add" /\ InWave /\ mem' = mem /\ disk' = disk
    BY <1>2 DEF AddWorktree
  <2>2. mem.task[t].slot # 0 /\ PlaceOf(t) \in Place
    BY <2>1, AtWork DEF IInv, StepsBacked
  <2>3. /\ step' = [step EXCEPT ![t] = "install"]
        /\ tree' = [tree EXCEPT ![PlaceOf(t)] = "clean"]
        /\ branch' = [branch EXCEPT ![PlaceOf(t)] = "base"]
    BY <1>2 DEF AddWorktree
  <2>4. tree' \in [Place -> TreeState] /\ branch' \in [Place -> BranchState]
    BY <2>1, <2>3, AtWork DEF TreeState, BranchState
  <2>5. \A p \in Place : p[1] # t => tree'[p] = tree[p]
    BY <2>1, <2>2, <2>3, AtWork
  <2> QED
    BY <2>1, <2>2, <2>3, <2>4, <2>5, StepNames, KeptInMemory
<1>3. CASE InstallDependencies(t)
  <2>1. /\ flow = "wave" /\ step[t] = "install" /\ InWave /\ mem' = mem /\ disk' = mem
        /\ step' = [step EXCEPT ![t] = "probe"] /\ SameGit
    BY <1>3 DEF InstallDependencies
  <2>2. mem.task[t].slot # 0
    BY <2>1 DEF IInv, StepsBacked
  <2> QED
    BY <2>1, <2>2, StepNames, KeptWithGit
<1>4. CASE Probe(t)
  <2> DEFINE s == mem.task[t]
             n == [s EXCEPT !.status = "passed"]
  <2>1. flow = "wave" /\ step[t] = "probe" /\ InWave /\ SameGit /\ disk' \in {disk, mem'}
    BY <1>4 DEF Probe
  <2>2. s.slot # 0
    BY <2>1 DEF IInv, StepsBacked
  <2>3. CASE mem' = mem /\ step' = [step EXCEPT ![t] = "fresh"]
    BY <2>1, <2>2, <2>3, StepNames, KeptWithGit
  <2>4. CASE s.commit /\ Set(t, n) /\ step' = [step EXCEPT ![t] = "passed"]
    <3>1. Set(t, n) /\ n \in TaskState /\ n.status = "passed" /\ ~ n.merging /\ n.slot # 0 /\ n.commit
      BY <2>1, <2>2, <2>4, AtWork DEF TaskState, TaskStatus
    <3> HIDE DEF n
    <3> QED
      BY <2>1, <2>4, <3>1, StepNames, SetWithGit
  <2>5. CASE mem' = mem /\ tree[PlaceOf(t)] # "clean" /\ step' = [step EXCEPT ![t] = "commitLeftover"]
    BY <2>1, <2>2, <2>5, StepNames, KeptWithGit
  <2>6. CASE mem' = mem /\ tree[PlaceOf(t)] # "clean" /\ step' = [step EXCEPT ![t] = "leftover"]
    BY <2>1, <2>2, <2>6, StepNames, KeptWithGit
  <2> QED
    BY <1>4, <2>3, <2>4, <2>5, <2>6 DEF Probe
<1>5. CASE ReviewLeftover(t)
  <2> DEFINE s == mem.task[t]
             accepted == [s EXCEPT !.review = "accepted"]
             rejected == [s EXCEPT !.review = "rejected", !.status = "reworking"]
  <2>1. flow = "wave" /\ step[t] = "leftover" /\ InWave /\ SameGit /\ disk' = mem'
    BY <1>5 DEF ReviewLeftover
  <2>2. s.slot # 0 /\ tree[PlaceOf(t)] # "clean"
    BY <2>1 DEF IInv, StepsBacked
  <2>3. CASE Set(t, accepted) /\ step' = [step EXCEPT ![t] = "commitLeftover"]
    <3>1. /\ Set(t, accepted) /\ accepted \in TaskState /\ accepted.status # "merged"
          /\ ~ accepted.merging /\ accepted.slot = s.slot
      BY <2>1, <2>3, AtWork DEF TaskState
    <3> HIDE DEF accepted
    <3> QED
      BY <2>1, <2>2, <2>3, <3>1, StepNames, SetWithGit
  <2>4. CASE Set(t, rejected) /\ step' = [step EXCEPT ![t] = "rework"]
    <3>1. /\ Set(t, rejected) /\ rejected \in TaskState /\ rejected.status # "merged"
          /\ ~ rejected.merging /\ rejected.slot # 0
      BY <2>1, <2>2, <2>4, AtWork DEF TaskState, TaskStatus
    <3> HIDE DEF rejected
    <3> QED
      BY <2>1, <2>4, <3>1, StepNames, SetWithGit
  <2> QED
    BY <1>5, <2>3, <2>4 DEF ReviewLeftover
<1>6. CASE StartAttempt(t)
  <2> DEFINE s == mem.task[t]
             n == NextAttempt(t)
             blocked == [s EXCEPT !.status = "blocked"]
             started == [s EXCEPT !.attempts = n, !.status = IF n = 1 THEN "working" ELSE "reworking"]
  <2>1. /\ flow = "wave" /\ step[t] \in {"fresh", "rework", "retry"} /\ InWave /\ SameGit
        /\ disk' = mem'
    BY <1>6 DEF StartAttempt
  <2>2. s.slot # 0
    BY <2>1 DEF IInv, StepsBacked
  <2>3. CASE Set(t, blocked) /\ step' = [step EXCEPT ![t] = "blocked"]
    <3>1. /\ Set(t, blocked) /\ blocked \in TaskState /\ blocked.status # "merged"
          /\ ~ blocked.merging /\ blocked.slot # 0
      BY <2>1, <2>2, <2>3, AtWork DEF TaskState, TaskStatus
    <3> HIDE DEF blocked
    <3> QED
      BY <2>1, <2>3, <3>1, StepNames, SetWithGit
  <2>4. CASE n <= MaxAttempts /\ Set(t, started) /\ step' = [step EXCEPT ![t] = "worker"]
    <3>1. n \in 0 .. MaxAttempts
      BY <2>1, <2>4, AtWork, LimitAssumption DEF NextAttempt, TaskState
    <3>2. /\ Set(t, started) /\ started \in TaskState /\ started.status # "merged"
          /\ ~ started.merging /\ started.slot # 0
      <4> HIDE DEF n
      <4> QED
        BY <2>1, <2>2, <2>4, <3>1, AtWork DEF TaskState, TaskStatus
    <3> HIDE DEF started
    <3> QED
      BY <2>1, <2>4, <3>2, StepNames, SetWithGit
  <2> QED
    BY <1>6, <2>3, <2>4 DEF StartAttempt
<1>7. CASE StopBeforeRetry(t)
  <2> DEFINE s == mem.task[t]
             blocked == [s EXCEPT !.status = "blocked"]
  <2>1. /\ flow = "wave" /\ step[t] = "retry" /\ InWave /\ SameGit /\ disk' \in {disk, mem'}
        /\ step' = [step EXCEPT ![t] = "blocked"]
    BY <1>7 DEF StopBeforeRetry
  <2>2. s.slot # 0
    BY <2>1 DEF IInv, StepsBacked
  <2>3. /\ Set(t, blocked) /\ blocked \in TaskState /\ blocked.status # "merged"
        /\ ~ blocked.merging /\ blocked.slot # 0
    BY <1>7, <2>1, <2>2, AtWork DEF StopBeforeRetry, TaskState, TaskStatus
  <2> HIDE DEF blocked
  <2> QED
    BY <2>1, <2>3, StepNames, SetWithGit
<1>8. CASE WorkerEdits(t)
  <2>1. /\ flow = "wave" /\ step[t] = "worker" /\ InWave /\ mem' = mem /\ disk' = disk /\ step' = step
        /\ tree' = [tree EXCEPT ![PlaceOf(t)] = "ungated"] /\ branch' = branch
    BY <1>8 DEF WorkerEdits
  <2>2. mem.task[t].slot # 0
    BY <2>1 DEF IInv, StepsBacked
  <2>3. step' = [step EXCEPT ![t] = "worker"]
    BY <2>1, AtWork
  <2>4. /\ tree' \in [Place -> TreeState] /\ branch' \in [Place -> BranchState]
        /\ \A p \in Place : p[1] # t => tree'[p] = tree[p]
    BY <2>1, <2>2, AtWork DEF TreeState
  <2> QED
    BY <2>1, <2>2, <2>3, <2>4, StepNames, KeptInMemory
<1>9. CASE WorkerEnds(t)
  <2> DEFINE s == mem.task[t]
             blocked == [s EXCEPT !.status = "blocked"]
  <2>1. flow = "wave" /\ step[t] = "worker" /\ InWave /\ SameGit /\ disk' = mem'
    BY <1>9 DEF WorkerEnds
  <2>2. s.slot # 0
    BY <2>1 DEF IInv, StepsBacked
  <2>3. CASE mem' = mem /\ step' = [step EXCEPT ![t] = "gates"]
    BY <2>1, <2>2, <2>3, StepNames, KeptWithGit
  <2>4. CASE mem' = mem /\ step' = [step EXCEPT ![t] = "retry"]
    BY <2>1, <2>2, <2>4, StepNames, KeptWithGit
  <2>5. CASE Set(t, blocked) /\ step' = [step EXCEPT ![t] = "blocked"]
    <3>1. /\ Set(t, blocked) /\ blocked \in TaskState /\ blocked.status # "merged"
          /\ ~ blocked.merging /\ blocked.slot # 0
      BY <2>1, <2>2, <2>5, AtWork DEF TaskState, TaskStatus
    <3> HIDE DEF blocked
    <3> QED
      BY <2>1, <2>5, <3>1, StepNames, SetWithGit
  <2> QED
    BY <1>9, <2>3, <2>4, <2>5 DEF WorkerEnds
<1>10. CASE RunGates(t)
  <2>1. PICK result \in {"passed", "failed"} :
          /\ flow = "wave" /\ step[t] = "gates" /\ InWave /\ disk' = mem /\ branch' = branch
          /\ step' = [step EXCEPT ![t] = "judge"]
          /\ Set(t, [mem.task[t] EXCEPT !.quality = result])
          /\ tree' \in {tree, [tree EXCEPT ![PlaceOf(t)] = "gated"]}
    BY <1>10 DEF RunGates
  <2> DEFINE s == [mem.task[t] EXCEPT !.quality = result]
  <2>2. mem.task[t].slot # 0
    BY <2>1 DEF IInv, StepsBacked
  <2>3. Set(t, s) /\ s \in TaskState /\ s.status # "merged" /\ ~ s.merging /\ s.slot # 0
    BY <2>1, <2>2, AtWork DEF TaskState
  <2>4. /\ tree' \in [Place -> TreeState] /\ branch' \in [Place -> BranchState]
        /\ \A p \in Place : p[1] # t => tree'[p] = tree[p]
    BY <2>1, <2>2, AtWork DEF TreeState
  <2> HIDE DEF s
  <2> QED
    BY <2>1, <2>3, <2>4, StepNames, SetInMemory
<1>11. CASE JudgeChanges(t)
  <2>1. /\ flow = "wave" /\ step[t] = "judge" /\ InWave /\ SameGit
        /\ mem' = mem /\ disk' \in {disk, mem}
    BY <1>11 DEF JudgeChanges
  <2>2. mem.task[t].slot # 0
    BY <2>1 DEF IInv, StepsBacked
  <2>3. CASE step' = [step EXCEPT ![t] = "retry"]
    BY <2>1, <2>2, <2>3, StepNames, KeptWithGit
  <2>4. CASE step' = [step EXCEPT ![t] = "review"] /\ tree[PlaceOf(t)] # "clean"
    BY <2>1, <2>2, <2>4, StepNames, KeptWithGit
  <2> QED
    BY <1>11, <2>3, <2>4 DEF JudgeChanges
<1>12. CASE Review(t)
  <2> DEFINE s == mem.task[t]
  <2>1. flow = "wave" /\ step[t] = "review" /\ InWave /\ SameGit /\ disk' = mem'
    BY <1>12 DEF Review
  <2>2. s.slot # 0 /\ tree[PlaceOf(t)] # "clean"
    BY <2>1 DEF IInv, StepsBacked
  <2>3. CASE mem' = mem /\ step' = [step EXCEPT ![t] = "retry"]
    BY <2>1, <2>2, <2>3, StepNames, KeptWithGit
  <2>4. ASSUME NEW verdict \in {"accepted", "rejected"}, Set(t, [s EXCEPT !.review = verdict]),
               NEW a \in {"commit", "retry"}, step' = [step EXCEPT ![t] = a]
        PROVE  TaskChange(t)
    <3> DEFINE n == [s EXCEPT !.review = verdict]
    <3>1. Set(t, n) /\ n \in TaskState /\ n.status # "merged" /\ ~ n.merging /\ n.slot = s.slot
      BY <2>1, <2>4, AtWork DEF TaskState
    <3> HIDE DEF n
    <3>2. a \in WaveSteps \union EndSteps /\ a # "passed"
      BY StepNames
    <3> QED
      BY <2>1, <2>2, <2>4, <3>1, <3>2, SetWithGit
  <2>5. CASE Set(t, [s EXCEPT !.review = "rejected", !.status = "blocked"])
             /\ step' = [step EXCEPT ![t] = "blocked"]
    <3> DEFINE n == [s EXCEPT !.review = "rejected", !.status = "blocked"]
    <3>1. Set(t, n) /\ n \in TaskState /\ n.status # "merged" /\ ~ n.merging /\ n.slot # 0
      BY <2>1, <2>2, <2>5, AtWork DEF TaskState, TaskStatus
    <3> HIDE DEF n
    <3> QED
      BY <2>1, <2>5, <3>1, StepNames, SetWithGit
  <2> QED
    BY <1>12, <2>3, <2>4, <2>5 DEF Review
<1>13. CASE Commit(t)
  <2>1. /\ flow = "wave" /\ step[t] \in {"commit", "commitLeftover"} /\ InWave
        /\ mem' = mem /\ disk' = disk /\ step' = [step EXCEPT ![t] = "record"]
        /\ branch' = [branch EXCEPT ![PlaceOf(t)] = tree[PlaceOf(t)]]
        /\ tree' = [tree EXCEPT ![PlaceOf(t)] = "clean"]
    BY <1>13 DEF Commit, DoCommit
  <2>2. mem.task[t].slot # 0 /\ tree[PlaceOf(t)] # "clean"
    BY <2>1 DEF IInv, StepsBacked
  <2>3. /\ tree' \in [Place -> TreeState] /\ branch' \in [Place -> BranchState]
        /\ \A p \in Place : p[1] # t => tree'[p] = tree[p]
    BY <2>1, <2>2, AtWork DEF TreeState, BranchState
  <2> QED
    BY <2>1, <2>2, <2>3, StepNames, KeptInMemory
<1>14. CASE RecordCommit(t)
  <2> DEFINE n == [mem.task[t] EXCEPT !.commit = TRUE, !.status = "passed"]
  <2>1. /\ flow = "wave" /\ step[t] = "record" /\ InWave /\ SameGit /\ disk' = mem'
        /\ Set(t, n) /\ step' = [step EXCEPT ![t] = "passed"]
    BY <1>14 DEF RecordCommit
  <2>2. mem.task[t].slot # 0
    BY <2>1 DEF IInv, StepsBacked
  <2>3. n \in TaskState /\ n.status = "passed" /\ n.commit /\ ~ n.merging /\ n.slot # 0
    BY <2>1, <2>2, AtWork DEF TaskState, TaskStatus
  <2> HIDE DEF n
  <2> QED
    BY <2>1, <2>3, StepNames, SetWithGit
<1>15. CASE TaskThrows(t)
  <2>1. /\ flow = "wave" /\ step[t] \in {"install", "leftover", "worker", "gates", "review"}
        /\ InWave /\ SameGit /\ mem' = mem /\ disk' \in {disk, mem}
        /\ step' = [step EXCEPT ![t] = "failed"]
    BY <1>15 DEF TaskThrows
  <2>2. mem.task[t].slot # 0
    BY <2>1 DEF IInv, StepsBacked
  <2> QED
    BY <2>1, <2>2, StepNames, KeptWithGit
<1>16. CASE TaskAborts(t)
  <2>1. /\ flow = "wave" /\ step[t] \in WaveSteps \ {"begin", "record"}
        /\ InWave /\ (SameGit \/ DoCommit(t)) /\ mem' = mem /\ disk' = disk
        /\ step' = [step EXCEPT ![t] = "aborted"]
    BY <1>16 DEF TaskAborts
  <2>2. step[t] \notin {"off", "begin"}
    BY <2>1 DEF WaveSteps
  <2>3. mem.task[t].slot # 0
    BY <2>2 DEF IInv, StepsBacked
  <2>4. CASE SameGit
    BY <2>1, <2>2, <2>3, <2>4, StepNames, KeptWithGit
  <2>5. CASE DoCommit(t)
    <3>1. /\ tree' \in [Place -> TreeState] /\ branch' \in [Place -> BranchState]
          /\ \A p \in Place : p[1] # t => tree'[p] = tree[p]
      BY <2>1, <2>2, <2>5, CommitMade
    <3> QED
      BY <2>1, <2>2, <2>3, <3>1, StepNames, KeptInMemory
  <2> QED
    BY <2>1, <2>4, <2>5
<1>17. CASE GitFails(t)
  <2>1. /\ flow = "wave" /\ step[t] \in {"add", "probe", "judge", "commit", "commitLeftover"}
        /\ InWave /\ mem' = mem /\ disk' = disk /\ step' = [step EXCEPT ![t] = "failed"]
    BY <1>17 DEF GitFails
  <2>2. mem.task[t].slot # 0 /\ step[t] # "off"
    BY <2>1 DEF IInv, StepsBacked
  <2>3. \/ SameGit
        \/ DoCommit(t)
        \/ /\ branch' = [branch EXCEPT ![PlaceOf(t)] = "base"]
           /\ tree' = [tree EXCEPT ![PlaceOf(t)] = "clean"]
    BY <1>17 DEF GitFails
  <2>4. CASE SameGit
    BY <2>1, <2>2, <2>4, StepNames, KeptWithGit
  <2>5. ASSUME ~ SameGit
        PROVE  /\ tree' \in [Place -> TreeState] /\ branch' \in [Place -> BranchState]
               /\ \A p \in Place : p[1] # t => tree'[p] = tree[p]
    <3>1. CASE DoCommit(t)
      BY <2>1, <2>2, <3>1, CommitMade
    <3>2. CASE /\ branch' = [branch EXCEPT ![PlaceOf(t)] = "base"]
               /\ tree' = [tree EXCEPT ![PlaceOf(t)] = "clean"]
      BY <2>1, <2>2, <3>2, AtWork DEF TreeState, BranchState
    <3> QED
      BY <2>3, <2>5, <3>1, <3>2
  <2> QED
    BY <2>1, <2>2, <2>4, <2>5, StepNames, KeptInMemory
<1> QED
  BY <1>1, <1>2, <1>3, <1>4, <1>5, <1>6, <1>7, <1>8, <1>9, <1>10, <1>11, <1>12, <1>13, <1>14,
     <1>15, <1>16, <1>17 DEF TaskStep

-----------------------------------------------------------------------------
\* mergeOne has a task to merge while there is one left.
LEMMA NextMergeQueued ==
  ASSUME TypeOK, queue # {}
  PROVE  NextMerge \in queue
<1>1. queue \in SUBSET Nat
  BY PlanAssumption DEF TypeOK
<1>2. \E t \in queue : \A u \in queue : t <= u
  BY <1>1, LeastNatural
<1> QED
  BY <1>2 DEF NextMerge

\* Outside a wave no task is at a step.
LEMMA OutsideWave ==
  ASSUME IInv, flow # "wave"
  PROVE  wave = <<>> /\ step = [t \in Task |-> "off"]
<1>1. wave = <<>> /\ \A t \in Task : t \notin ToSet(wave)
  BY DEF IInv, WaveFits, ToSet
<1> QED
  BY <1>1 DEF IInv, WaveFits, TypeOK

LEMMA NoWave ==
  ASSUME wave' = <<>>, step' = [t \in Task |-> "off"]
  PROVE  WaveFits' /\ StepsBacked'
<1>1. \A t \in Task : t \notin ToSet(<<>>)
  BY DEF ToSet
<1> QED
  BY <1>1 DEF WaveFits, StepsBacked, ToSet

\* The copies stay coherent as long as tasks, checkpoint and branch do.
LEMMA BooksKept ==
  ASSUME IInv, log' = log, mem'.task = mem.task, mem'.head = mem.head, mem'.done = mem.done,
         disk' \in {disk, mem'}
  PROVE  Coherent(mem)' /\ Coherent(disk)' /\ LogDistinct'
<1>1. MergedIn(log)' = MergedIn(log) /\ \A n : MergedPrefix(n)' = MergedPrefix(n)
  BY DEF MergedIn, MergedPrefix
<1>2. Coherent(mem)'
  BY <1>1 DEF IInv, Coherent
<1>3. Coherent(disk)'
  BY <1>1, <1>2 DEF IInv, Coherent
<1> QED
  BY <1>2, <1>3 DEF IInv, LogDistinct

LEMMA LogFields ==
  ASSUME TypeOK
  PROVE  /\ log \in Seq(Merge) /\ Len(log) \in Nat /\ DOMAIN log = 1 .. Len(log)
         /\ \A i \in DOMAIN log : log[i].task \in Task
<1>1. log \in Seq(Merge) /\ Len(log) \in Nat /\ DOMAIN log = 1 .. Len(log)
  BY DEF TypeOK
<1>2. \A i \in DOMAIN log : log[i] \in Merge
  BY <1>1
<1> QED
  BY <1>1, <1>2 DEF Merge

\* While no merge is under way, the merged tasks are those on the branch.
LEMMA MergedWhenCalm ==
  ASSUME IInv, flow \in Calm
  PROVE  WithStatus({"merged"}) = MergedIn(log) /\ MergedPrefix(Len(log)) = MergedIn(log)
<1>1. DOMAIN log = 1 .. Len(log) /\ \A i \in DOMAIN log : log[i].task \in Task
  BY LogFields DEF IInv
<1>2. MergedIn(log) \subseteq Task /\ MergedPrefix(Len(log)) = MergedIn(log)
  BY <1>1 DEF MergedIn, MergedPrefix
<1>3. \A t \in Task : t \in MergedIn(log) <=> mem.task[t].status = "merged"
  BY DEF IInv, Coherent, MergingOnlyNext
<1> QED
  BY <1>2, <1>3 DEF WithStatus

\* recordCheckpoint
LEMMA CheckpointMade ==
  ASSUME IInv, flow \in Calm, NEW stage \in Stage, mem' = Checkpoint(mem, stage),
         disk' = mem', log' = log
  PROVE  /\ mem' \in Run /\ mem'.task = mem.task /\ mem'.stage = stage /\ mem'.head = Len(log)
         /\ mem'.status = mem.status /\ mem'.resumes = mem.resumes
         /\ mem'.checked = mem.checked /\ mem'.asked = mem.asked
         /\ Coherent(mem)' /\ Coherent(disk)' /\ LogDistinct'
<1>1. mem \in Run /\ Len(log) \in Nat
  BY DEF IInv, TypeOK
<1>2. WithStatus({"merged"}) \subseteq Task
  BY DEF WithStatus
<1>3. mem' = [mem EXCEPT !.stage = stage, !.head = Len(log), !.done = WithStatus({"merged"})]
  BY DEF Checkpoint
<1>4. /\ mem' \in Run /\ mem'.task = mem.task /\ mem'.stage = stage /\ mem'.head = Len(log)
      /\ mem'.status = mem.status /\ mem'.resumes = mem.resumes
      /\ mem'.checked = mem.checked /\ mem'.asked = mem.asked
      /\ mem'.done = WithStatus({"merged"})
  BY <1>1, <1>2, <1>3 DEF Run
<1>5. MergedIn(log)' = MergedIn(log) /\ \A n : MergedPrefix(n)' = MergedPrefix(n)
  BY DEF MergedIn, MergedPrefix
<1>6. mem'.done = MergedPrefix(mem'.head) /\ \A t \in mem'.done : mem.task[t].status = "merged"
  BY <1>4, MergedWhenCalm DEF WithStatus
<1>7. Coherent(mem)'
  BY <1>1, <1>4, <1>5, <1>6 DEF IInv, Coherent
<1>8. Coherent(disk)'
  BY <1>7 DEF Coherent
<1> QED
  BY <1>4, <1>7, <1>8 DEF IInv, LogDistinct

-----------------------------------------------------------------------------
(***************************************************************************)
(* The steps around the waves keep the invariant.                          *)
(***************************************************************************)
LEMMA MergePassedKeeps ==
  ASSUME IInv, MergePassed
  PROVE  IInv'
<1> DEFINE passed == {t \in WithStatus({"passed"}) : mem.task[t].slot # 0 /\ mem.task[t].commit}
<1>1. /\ flow = "mergePassed" /\ mem' = mem /\ disk' \in {disk, mem'} /\ queue' = passed
      /\ flow' = (IF passed = {} THEN "loop" ELSE "intent")
      /\ UNCHANGED <<step, wave, abort, breaks, failure, tree, branch, log, dirty>>
  BY DEF MergePassed, KeepMem, KeepDisk, Save, GoFlow, OutOfWave, repo
<1>2. \A t \in passed : t \in Task /\ mem.task[t].status = "passed"
  BY DEF WithStatus
<1> HIDE DEF passed
<1>3. TypeOK'
  BY <1>1, <1>2 DEF IInv, TypeOK, Flow
<1>4. Coherent(mem)' /\ Coherent(disk)' /\ LogDistinct'
  BY <1>1, BooksKept
<1>5. WaveFits' /\ StepsBacked'
  BY <1>1, OutsideWave, NoWave
<1>6. BreaksCounted' /\ OfferBacked'
  BY <1>1 DEF IInv, BreaksCounted, OfferBacked
<1>7. CopiesAgree'
  BY <1>1 DEF IInv, CopiesAgree, SameHeader
<1>8. MergingOnlyNext'
  BY <1>1 DEF IInv, MergingOnlyNext, Calm
<1>9. QueueReady'
  BY <1>1, <1>2 DEF QueueReady, passed
<1> QED
  BY <1>3, <1>4, <1>5, <1>6, <1>7, <1>8, <1>9 DEF IInv

LEMMA MergeIntentKeeps ==
  ASSUME IInv, MergeIntent
  PROVE  IInv'
<1> DEFINE t == NextMerge
           s == [mem.task[t] EXCEPT !.merging = TRUE]
<1>1. /\ flow = "intent" /\ flow' = "git" /\ disk' = mem' /\ Set(t, s)
      /\ UNCHANGED <<step, wave, queue, abort, breaks, failure, tree, branch, log, dirty>>
  BY DEF MergeIntent, Save, GoFlow, OutOfWave, repo
<1>2. t \in queue /\ t \in Task
  BY <1>1, NextMergeQueued DEF IInv, QueueReady, TypeOK
<1>3. /\ mem \in Run /\ mem.task[t] \in TaskState /\ mem.task[t].status = "passed"
      /\ mem.task[t].commit /\ mem.task[t].slot # 0
  BY <1>1, <1>2, RunFields DEF IInv, QueueReady, TypeOK
<1>4. t \notin MergedIn(log) /\ \A u \in Task : ~ mem.task[u].merging
  BY <1>1, <1>2, <1>3 DEF IInv, Coherent, MergingOnlyNext, Calm
<1>5. /\ s \in TaskState /\ s.merging /\ s.status = "passed" /\ s.commit /\ s.slot # 0
  BY <1>3 DEF TaskState
<1> HIDE DEF s, t
<1>6. /\ mem' \in Run /\ SameHeader(mem', mem)
      /\ mem'.task[t] = s /\ \A u \in Task \ {t} : mem'.task[u] = mem.task[u]
  BY <1>1, <1>2, <1>3, <1>5, SetTask DEF Set
<1>7. NextMerge' = NextMerge
  BY <1>1 DEF NextMerge
<1>8. MergedIn(log)' = MergedIn(log) /\ \A n : MergedPrefix(n)' = MergedPrefix(n)
  BY <1>1 DEF MergedIn, MergedPrefix
<1>9. TypeOK'
  BY <1>1, <1>6 DEF IInv, TypeOK, Flow
<1>10. Coherent(mem)'
  <2>1. t \notin mem.done
    BY <1>3 DEF IInv, Coherent
  <2> QED
    BY <1>1, <1>2, <1>3, <1>4, <1>5, <1>6, <1>8, <2>1, RunFields DEF IInv, Coherent, SameHeader
<1>11. Coherent(disk)' /\ LogDistinct'
  BY <1>1, <1>10 DEF IInv, Coherent, LogDistinct
<1>12. WaveFits' /\ StepsBacked'
  BY <1>1, OutsideWave, NoWave
<1>13. BreaksCounted' /\ OfferBacked'
  BY <1>1, <1>6 DEF IInv, BreaksCounted, OfferBacked, SameHeader
<1>14. CopiesAgree'
  BY <1>1 DEF CopiesAgree, SameHeader
<1>15. MergingOnlyNext'
  BY <1>1, <1>4, <1>5, <1>6, <1>7 DEF MergingOnlyNext, Calm, t
<1>16. QueueReady'
  BY <1>1, <1>2, <1>4, <1>5, <1>6, <1>7, <1>8 DEF IInv, QueueReady, TypeOK, t
<1> QED
  BY <1>9, <1>10, <1>11, <1>12, <1>13, <1>14, <1>15, <1>16 DEF IInv

\* A merge that was announced: the branch has one more task, and the copies know it.
LEMMA MergeLogged ==
  ASSUME IInv, flow = "git", DoMerge(NextMerge), mem' = mem, disk' \in {disk, mem}
  PROVE  /\ log' \in Seq(Merge) /\ Len(log') = Len(log) + 1
         /\ MergedIn(log)' = MergedIn(log) \union {NextMerge}
         /\ Coherent(mem)' /\ Coherent(disk)' /\ LogDistinct'
<1> DEFINE t == NextMerge
           m == [task |-> t, content |-> branch[PlaceOf(t)]]
           n == Len(log)
<1>1. t \in queue /\ t \in Task /\ t \notin MergedIn(log)
  BY NextMergeQueued DEF IInv, QueueReady, TypeOK
<1>2. mem.task[t].merging /\ mem.task[t].status = "passed" /\ mem.task[t].commit
  BY <1>1 DEF IInv, QueueReady, MergingOnlyNext
<1>3. mem.task = disk.task
  BY DEF IInv, CopiesAgree
<1>4. m \in Merge /\ m.task = t
  <2>1. branch[PlaceOf(t)] \in BranchState
    BY DEF DoMerge, BranchState
  <2> QED
    BY <1>1, <2>1 DEF Merge
<1>5. log \in Seq(Merge) /\ n \in Nat /\ DOMAIN log = 1 .. n
  BY LogFields DEF IInv
<1>6. log' = Append(log, m)
  BY DEF DoMerge
<1> HIDE DEF m, t
<1>7. /\ log' \in Seq(Merge) /\ Len(log') = n + 1 /\ DOMAIN log' = 1 .. n + 1
      /\ log'[n + 1] = m /\ \A i \in 1 .. n : log'[i] = log[i]
  BY <1>4, <1>5, <1>6
<1>8. MergedIn(log)' = MergedIn(log) \union {t}
  <2>1. \A u \in MergedIn(log)' : u \in MergedIn(log) \union {t}
    BY <1>4, <1>5, <1>7 DEF MergedIn
  <2>2. \A u \in MergedIn(log) : u \in MergedIn(log)'
    <3> SUFFICES ASSUME NEW i \in DOMAIN log PROVE log[i].task \in MergedIn(log)'
      BY DEF MergedIn
    <3>1. i \in DOMAIN log' /\ log'[i] = log[i]
      BY <1>5, <1>7
    <3> QED
      BY <3>1 DEF MergedIn
  <2>3. t \in MergedIn(log)'
    <3>1. n + 1 \in DOMAIN log' /\ log'[n + 1].task = t
      BY <1>4, <1>5, <1>7
    <3> QED
      BY <3>1 DEF MergedIn
  <2> QED
    BY <2>1, <2>2, <2>3
<1>9. \A k \in 0 .. n : MergedPrefix(k)' = MergedPrefix(k)
  BY <1>5, <1>7 DEF MergedPrefix
<1>10. mem.head \in Nat /\ mem.head <= n /\ disk.head \in Nat /\ disk.head <= n
  BY RunFields DEF IInv, TypeOK, Coherent
<1>11. Coherent(mem)'
  BY <1>1, <1>2, <1>5, <1>7, <1>8, <1>9, <1>10 DEF IInv, Coherent
<1>12. Coherent(disk)'
  BY <1>1, <1>2, <1>3, <1>5, <1>7, <1>8, <1>9, <1>10, <1>11 DEF IInv, Coherent
<1>13. LogDistinct'
  <2> SUFFICES ASSUME NEW i \in 1 .. n + 1, NEW j \in 1 .. n + 1, log'[i].task = log'[j].task
               PROVE  i = j
    BY <1>7 DEF LogDistinct
  <2>1. \A k \in 1 .. n : log[k].task # t
    BY <1>1, <1>5 DEF MergedIn, t
  <2>2. CASE i \in 1 .. n /\ j \in 1 .. n
    BY <1>5, <1>7, <2>2 DEF IInv, LogDistinct
  <2>3. CASE i = n + 1 \/ j = n + 1
    BY <1>4, <1>5, <1>7, <2>1, <2>3
  <2> QED
    BY <1>5, <2>2, <2>3
<1> QED
  BY <1>7, <1>8, <1>11, <1>12, <1>13 DEF t

\* Where an error or the abort reason can be thrown, the catch block finds the books in order.
LEMMA FailureKeeps ==
  ASSUME IInv, flow \in {"loop", "intent", "git", "settle", "final", "decide"}, flow' = "failing",
         failure' \in {"abort", "error"}, mem' = mem, disk' \in {disk, mem}, dirty' \in BOOLEAN,
         UNCHANGED <<step, wave, queue, abort, breaks, tree, branch>>,
         log' = log \/ (flow = "git" /\ DoMerge(NextMerge))
  PROVE  IInv'
<1>1. log' \in Seq(Merge) /\ Coherent(mem)' /\ Coherent(disk)' /\ LogDistinct'
  <2>1. CASE log' = log
    BY <2>1, BooksKept DEF IInv, TypeOK
  <2>2. CASE flow = "git" /\ DoMerge(NextMerge)
    BY <2>2, MergeLogged
  <2> QED
    BY <2>1, <2>2
<1>2. TypeOK'
  BY <1>1 DEF IInv, TypeOK, Flow
<1>3. WaveFits' /\ StepsBacked'
  BY OutsideWave, NoWave
<1>4. BreaksCounted' /\ OfferBacked'
  BY DEF IInv, BreaksCounted, OfferBacked
<1>5. CopiesAgree' /\ MergingOnlyNext' /\ QueueReady'
  BY DEF IInv, CopiesAgree, SameHeader, MergingOnlyNext, Calm, QueueReady
<1> QED
  BY <1>1, <1>2, <1>3, <1>4, <1>5 DEF IInv

LEMMA GitMergeKeeps ==
  ASSUME IInv, GitMerge
  PROVE  IInv'
<1>1. /\ flow = "git" /\ mem' = mem /\ disk' = disk
      /\ UNCHANGED <<step, wave, queue, abort, breaks, tree, branch>>
  BY DEF GitMerge, KeepMem, KeepDisk, OutOfWave
<1>2. DoMerge(NextMerge) /\ flow' = "note" /\ UNCHANGED <<dirty, failure>>
  BY DEF GitMerge, GoFlow
<1> QED
  <2>1. /\ log' \in Seq(Merge) /\ Len(log') = Len(log) + 1
        /\ MergedIn(log)' = MergedIn(log) \union {NextMerge}
        /\ Coherent(mem)' /\ Coherent(disk)' /\ LogDistinct'
    BY <1>1, <1>2, MergeLogged
  <2>2. NextMerge' = NextMerge
    BY <1>1 DEF NextMerge
  <2>3. TypeOK'
    BY <1>1, <1>2, <2>1 DEF IInv, TypeOK, Flow
  <2>4. WaveFits' /\ StepsBacked'
    BY <1>1, <1>2, OutsideWave, NoWave
  <2>5. BreaksCounted' /\ OfferBacked'
    BY <1>1, <1>2 DEF IInv, BreaksCounted, OfferBacked
  <2>6. CopiesAgree' /\ MergingOnlyNext'
    BY <1>1, <1>2, <2>2 DEF IInv, CopiesAgree, SameHeader, MergingOnlyNext, Calm
  <2>7. QueueReady'
    BY <1>1, <1>2, <2>1, <2>2 DEF IInv, QueueReady
  <2> QED
    BY <2>1, <2>3, <2>4, <2>5, <2>6, <2>7 DEF IInv

LEMMA NoteMergeKeeps ==
  ASSUME IInv, NoteMerge
  PROVE  IInv'
<1> DEFINE t == NextMerge
           s == [mem.task[t] EXCEPT !.status = "merged", !.merging = FALSE]
<1>1. /\ flow = "note" /\ disk' = mem' /\ Set(t, s) /\ queue' = queue \ {t}
      /\ flow' = (IF queue = {t} THEN "checkpoint" ELSE "intent")
      /\ tree' \in {tree, [tree EXCEPT ![PlaceOf(t)] = "absent"]}
      /\ UNCHANGED <<step, wave, abort, breaks, failure, branch, log, dirty>>
  BY DEF NoteMerge, Save, GoFlow, OutOfWave
<1>2. t \in queue /\ t \in Task /\ t \in MergedIn(log)
  BY <1>1, NextMergeQueued DEF IInv, QueueReady, TypeOK
<1>3. /\ mem \in Run /\ mem.task[t] \in TaskState /\ mem.task[t].commit
      /\ \A u \in Task : mem.task[u].merging <=> u = t
  BY <1>1, <1>2, RunFields DEF IInv, QueueReady, TypeOK, MergingOnlyNext
<1>4. tree' \in [Place -> TreeState]
  BY <1>1 DEF IInv, TypeOK, TreeState
<1>5. s \in TaskState /\ ~ s.merging /\ s.status = "merged" /\ s.commit
  BY <1>3 DEF TaskState, TaskStatus
<1> HIDE DEF s, t
<1>6. /\ mem' \in Run /\ SameHeader(mem', mem)
      /\ mem'.task[t] = s /\ \A u \in Task \ {t} : mem'.task[u] = mem.task[u]
  BY <1>1, <1>2, <1>3, <1>5, SetTask DEF Set
<1>7. MergedIn(log)' = MergedIn(log) /\ \A n : MergedPrefix(n)' = MergedPrefix(n)
  BY <1>1 DEF MergedIn, MergedPrefix
<1>8. TypeOK'
  BY <1>1, <1>4, <1>6 DEF IInv, TypeOK, Flow
<1>9. Coherent(mem)'
  <2>1. mem'.head = mem.head /\ mem'.done = mem.done /\ mem.done \subseteq Task
    BY <1>3, <1>6, RunFields DEF SameHeader
  <2>2. \A u \in mem.done : mem'.task[u].status = "merged"
    BY <1>5, <1>6, <2>1 DEF IInv, Coherent
  <2> QED
    BY <1>1, <1>2, <1>3, <1>5, <1>6, <1>7, <2>1, <2>2 DEF IInv, Coherent
<1>10. Coherent(disk)' /\ LogDistinct'
  BY <1>1, <1>9 DEF IInv, Coherent, LogDistinct
<1>11. WaveFits' /\ StepsBacked'
  BY <1>1, OutsideWave, NoWave
<1>12. BreaksCounted' /\ OfferBacked'
  BY <1>1, <1>6 DEF IInv, BreaksCounted, OfferBacked, SameHeader
<1>13. CopiesAgree'
  BY <1>1 DEF CopiesAgree, SameHeader
<1>14. MergingOnlyNext'
  BY <1>1, <1>3, <1>5, <1>6 DEF MergingOnlyNext, Calm
<1>15. QueueReady'
  BY <1>1, <1>2, <1>6 DEF IInv, QueueReady, TypeOK
<1> QED
  BY <1>8, <1>9, <1>10, <1>11, <1>12, <1>13, <1>14, <1>15 DEF IInv

\* Another set of task states in the same run.
LEMMA SetTasks ==
  ASSUME NEW r \in Run, NEW f \in [Task -> TaskState], NEW n, n = [r EXCEPT !.task = f]
  PROVE  n \in Run /\ SameHeader(n, r) /\ n.task = f
BY DEF Run, SameHeader

\* Blocking tasks that are neither merged nor being merged keeps the copies coherent.
LEMMA BlockedKeeps ==
  ASSUME IInv, flow \in Calm, NEW B \in SUBSET Task,
         \A t \in B : mem.task[t].status # "merged",
         mem' = [mem EXCEPT !.task = [t \in Task |->
                   IF t \in B THEN [mem.task[t] EXCEPT !.status = "blocked"] ELSE mem.task[t]]],
         disk' = mem', log' = log
  PROVE  /\ mem' \in Run /\ SameHeader(mem', mem)
         /\ \A t \in Task \ B : mem'.task[t] = mem.task[t]
         /\ \A t \in Task : ~ mem'.task[t].merging
         /\ Coherent(mem)' /\ Coherent(disk)' /\ LogDistinct'
<1> DEFINE f == [t \in Task |-> IF t \in B THEN [mem.task[t] EXCEPT !.status = "blocked"] ELSE mem.task[t]]
<1>1. mem \in Run /\ mem.task \in [Task -> TaskState]
  BY RunFields DEF IInv, TypeOK
<1>2. \A t \in Task : ~ mem.task[t].merging
  BY DEF IInv, MergingOnlyNext
<1>3. ASSUME NEW t \in Task
      PROVE  /\ f[t] \in TaskState /\ ~ f[t].merging /\ f[t].commit = mem.task[t].commit
             /\ t \in B => f[t].status = "blocked"
             /\ t \notin B => f[t] = mem.task[t]
  BY <1>1, <1>2 DEF TaskState, TaskStatus
<1>4. f \in [Task -> TaskState]
  BY <1>3
<1>5. mem' \in Run /\ SameHeader(mem', mem) /\ mem'.task = f
  <2> HIDE DEF f
  <2>1. mem' = [mem EXCEPT !.task = f]
    BY DEF f
  <2> QED
    BY <1>1, <1>4, <2>1, SetTasks
<1> HIDE DEF f
<1>6. MergedIn(log)' = MergedIn(log) /\ \A n : MergedPrefix(n)' = MergedPrefix(n)
  BY DEF MergedIn, MergedPrefix
<1>7. Coherent(mem)'
  <2>1. mem'.head = mem.head /\ mem'.done = mem.done /\ mem.done \subseteq Task
    BY <1>1, <1>5, RunFields DEF SameHeader
  <2>2. \A t \in mem.done : mem'.task[t].status = "merged"
    BY <1>3, <1>5, <2>1 DEF IInv, Coherent
  <2>3. \A t \in B : t \notin MergedIn(log)
    BY <1>2 DEF IInv, Coherent
  <2>4. ASSUME NEW t \in Task
        PROVE  LET s == mem'.task[t]
               IN  /\ s.merging => s.status = "passed" /\ s.commit
                   /\ s.commit => DependsOn[t] \subseteq MergedIn(log)
                   /\ s.status = "merged" => t \in MergedIn(log)
                   /\ t \in MergedIn(log) => s.status = "merged" \/ s.merging
    <3>1. CASE t \in B
      BY <1>3, <1>5, <2>3, <3>1 DEF IInv, Coherent
    <3>2. CASE t \notin B
      BY <1>3, <1>5, <3>2 DEF IInv, Coherent
    <3> QED
      BY <3>1, <3>2
  <2> QED
    BY <1>6, <2>1, <2>2, <2>4 DEF IInv, Coherent
<1>8. Coherent(disk)' /\ LogDistinct'
  BY <1>7 DEF IInv, Coherent, LogDistinct
<1> QED
  BY <1>3, <1>5, <1>7, <1>8

LEMMA StartWaveKeeps ==
  ASSUME IInv, StartWave
  PROVE  IInv'
<1>1. /\ flow = "loop" /\ flow \in Calm /\ disk' = mem'
      /\ UNCHANGED <<queue, abort, failure, breaks, tree, branch, log, dirty>>
  BY DEF StartWave, Save, repo, Calm
<1>2. CASE /\ NextWave # <<>> /\ wave' = NextWave /\ flow' = "wave" /\ mem' = mem
           /\ step' = [t \in Task |-> IF t \in ToSet(NextWave) THEN "begin" ELSE "off"]
  <2>1. NextWave \in Seq(Task)
    BY NextWaveAllowed
  <2>2. Completed = MergedIn(log)
    <3>1. mem.done \subseteq WithStatus({"merged"})
      BY RunFields DEF IInv, TypeOK, Coherent, WithStatus
    <3> QED
      BY <1>1, <3>1, MergedWhenCalm DEF Completed
  <2>3. \A t \in ToSet(NextWave) : t \in Task /\ t \notin MergedIn(log) /\ DependsOn[t] \subseteq MergedIn(log)
    <3>1. \A t \in ToSet(NextWave) : t \in Task
      BY <2>1 DEF ToSet
    <3> QED
      BY <2>2, <3>1, NextWaveAllowed
  <2>4. step' \in [Task -> {"off"} \union WaveSteps \union EndSteps]
        /\ \A t \in Task : step'[t] \in {"off", "begin"} /\ (step'[t] = "off" <=> t \notin ToSet(NextWave))
    BY <1>2 DEF WaveSteps
  <2>5. TypeOK'
    BY <1>1, <1>2, <2>1, <2>4 DEF IInv, TypeOK, Flow
  <2>6. Coherent(mem)' /\ Coherent(disk)' /\ LogDistinct'
    BY <1>1, <1>2, BooksKept
  <2>7. MergedIn(log)' = MergedIn(log)
    BY <1>1 DEF MergedIn
  <2>8. WaveFits'
    BY <1>2, <2>3, <2>4, <2>7, NextWaveAllowed DEF WaveFits
  <2>9. StepsBacked'
    BY <2>4 DEF StepsBacked
  <2>10. BreaksCounted' /\ OfferBacked'
    BY <1>1, <1>2 DEF IInv, BreaksCounted, OfferBacked
  <2>11. CopiesAgree' /\ MergingOnlyNext' /\ QueueReady'
    BY <1>1, <1>2 DEF IInv, CopiesAgree, SameHeader, MergingOnlyNext, Calm, QueueReady
  <2> QED
    BY <2>5, <2>6, <2>8, <2>9, <2>10, <2>11 DEF IInv
<1>3. CASE /\ flow' = "settle" /\ UNCHANGED <<wave, step>>
           /\ mem' = [mem EXCEPT !.task = [t \in Task |->
                 IF t \in Completed THEN mem.task[t] ELSE [mem.task[t] EXCEPT !.status = "blocked"]]]
  <2> DEFINE B == Task \ Completed
  <2>1. B \in SUBSET Task /\ \A t \in B : mem.task[t].status # "merged"
    BY DEF Completed, WithStatus
  <2>2. mem' = [mem EXCEPT !.task = [t \in Task |->
                 IF t \in B THEN [mem.task[t] EXCEPT !.status = "blocked"] ELSE mem.task[t]]]
    BY <1>3
  <2> HIDE DEF B
  <2>3. /\ mem' \in Run /\ SameHeader(mem', mem)
        /\ \A t \in Task : ~ mem'.task[t].merging
        /\ Coherent(mem)' /\ Coherent(disk)' /\ LogDistinct'
    BY <1>1, <2>1, <2>2, BlockedKeeps
  <2>4. TypeOK'
    BY <1>1, <1>3, <2>3 DEF IInv, TypeOK, Flow
  <2>5. WaveFits' /\ StepsBacked'
    BY <1>1, <1>3, OutsideWave, NoWave
  <2>6. BreaksCounted' /\ OfferBacked'
    BY <1>1, <1>3, <2>3 DEF IInv, BreaksCounted, OfferBacked, SameHeader
  <2>7. CopiesAgree' /\ MergingOnlyNext' /\ QueueReady'
    BY <1>1, <1>3, <2>3 DEF CopiesAgree, SameHeader, MergingOnlyNext, QueueReady
  <2> QED
    BY <2>3, <2>4, <2>5, <2>6, <2>7 DEF IInv
<1> QED
  BY <1>2, <1>3 DEF StartWave, GoFlow, KeepMem, SetRun

LEMMA EndWaveKeeps ==
  ASSUME IInv, EndWave
  PROVE  IInv'
<1> DEFINE lost == InWaveWith({"aborted", "failed"})
           passed == InWaveWith({"passed"})
<1>1. /\ flow = "wave" /\ flow \in Calm /\ wave' = <<>> /\ step' = [t \in Task |-> "off"]
      /\ UNCHANGED <<abort, breaks, tree, branch, log, dirty>>
  BY DEF EndWave, repo, Calm
<1>2. WaveFits' /\ StepsBacked'
  BY <1>1, NoWave
<1>3. \A t \in ToSet(wave) : t \in Task
  BY DEF IInv, TypeOK, ToSet
<1>4. wave' \in Seq(Task) /\ step' \in [Task -> {"off"} \union WaveSteps \union EndSteps]
  BY <1>1
<1>5. CASE /\ flow' = "failing" /\ failure' \in {"abort", "error"}
           /\ mem' = mem /\ disk' = disk /\ queue' = queue
  <2>1. Coherent(mem)' /\ Coherent(disk)' /\ LogDistinct'
    BY <1>1, <1>5, BooksKept
  <2>2. TypeOK'
    BY <1>1, <1>4, <1>5 DEF IInv, TypeOK, Flow
  <2>3. BreaksCounted' /\ OfferBacked'
    BY <1>1, <1>5 DEF IInv, BreaksCounted, OfferBacked
  <2>4. CopiesAgree' /\ MergingOnlyNext' /\ QueueReady'
    BY <1>1, <1>5 DEF IInv, CopiesAgree, SameHeader, MergingOnlyNext, Calm, QueueReady
  <2> QED
    BY <1>2, <2>1, <2>2, <2>3, <2>4 DEF IInv
<1>6. CASE /\ mem' = [mem EXCEPT !.task = [t \in Task |->
                 IF t \in lost THEN [mem.task[t] EXCEPT !.status = "blocked"] ELSE mem.task[t]]]
           /\ disk' = mem' /\ queue' = passed /\ failure' = failure
           /\ flow' = (IF passed = {} THEN "checkpoint" ELSE "intent")
  <2>1. lost \in SUBSET Task /\ \A t \in lost : mem.task[t].status # "merged"
    <3>1. \A t \in lost : t \in Task /\ step[t] # "off"
      BY <1>3 DEF InWaveWith
    <3> QED
      BY <1>1, <3>1, AtWork
  <2>2. \A t \in passed : /\ t \in Task /\ t \notin lost
                          /\ mem.task[t].status = "passed" /\ mem.task[t].commit /\ mem.task[t].slot # 0
    BY <1>3 DEF InWaveWith, IInv, StepsBacked
  <2> HIDE DEF lost, passed
  <2>3. /\ mem' \in Run /\ SameHeader(mem', mem)
        /\ \A t \in Task \ lost : mem'.task[t] = mem.task[t]
        /\ \A t \in Task : ~ mem'.task[t].merging
        /\ Coherent(mem)' /\ Coherent(disk)' /\ LogDistinct'
    BY <1>1, <1>6, <2>1, BlockedKeeps
  <2>4. TypeOK'
    BY <1>1, <1>4, <1>6, <2>2, <2>3 DEF IInv, TypeOK, Flow
  <2>5. BreaksCounted' /\ OfferBacked'
    BY <1>1, <1>6, <2>3 DEF IInv, BreaksCounted, OfferBacked, SameHeader
  <2>6. CopiesAgree' /\ MergingOnlyNext'
    BY <1>1, <1>6, <2>3 DEF CopiesAgree, SameHeader, MergingOnlyNext
  <2>7. QueueReady'
    BY <1>6, <2>2, <2>3 DEF QueueReady
  <2> QED
    BY <1>2, <2>3, <2>4, <2>5, <2>6, <2>7 DEF IInv
<1> QED
  BY <1>5, <1>6 DEF EndWave, Fail, GoFlow, KeepMem, KeepDisk, SetRun, Save

LEMMA CheckpointWaveKeeps ==
  ASSUME IInv, CheckpointWave
  PROVE  IInv'
<1>1. /\ flow = "checkpoint" /\ flow \in Calm /\ flow' = "loop" /\ disk' = mem'
      /\ mem' = Checkpoint(mem, "task-wave-integrated")
      /\ UNCHANGED <<step, wave, queue, abort, failure, breaks, tree, branch, log, dirty>>
  BY DEF CheckpointWave, SetRun, GoFlow, Save, OutOfWave, repo, Calm
<1>2. /\ mem' \in Run /\ mem'.task = mem.task /\ mem'.stage = "task-wave-integrated"
      /\ mem'.status = mem.status /\ mem'.resumes = mem.resumes /\ mem'.asked = mem.asked
      /\ Coherent(mem)' /\ Coherent(disk)' /\ LogDistinct'
  BY <1>1, CheckpointMade DEF Stage
<1>3. TypeOK'
  BY <1>1, <1>2 DEF IInv, TypeOK, Flow
<1>4. WaveFits' /\ StepsBacked'
  BY <1>1, OutsideWave, NoWave
<1>5. BreaksCounted' /\ OfferBacked'
  BY <1>1, <1>2 DEF IInv, BreaksCounted, OfferBacked
<1>6. CopiesAgree' /\ MergingOnlyNext' /\ QueueReady'
  BY <1>1, <1>2 DEF IInv, CopiesAgree, SameHeader, MergingOnlyNext, Calm, QueueReady
<1> QED
  BY <1>2, <1>3, <1>4, <1>5, <1>6 DEF IInv

LEMMA CheckpointTasksKeeps ==
  ASSUME IInv, CheckpointTasks
  PROVE  IInv'
<1>1. /\ flow = "tasksDone" /\ flow \in Calm /\ flow' = "final" /\ disk' = mem'
      /\ mem' = Checkpoint(mem, "tasks-complete")
      /\ UNCHANGED <<step, wave, queue, abort, failure, breaks, tree, branch, log, dirty>>
  BY DEF CheckpointTasks, SetRun, GoFlow, Save, OutOfWave, repo, Calm
<1>2. /\ mem' \in Run /\ mem'.task = mem.task /\ mem'.stage = "tasks-complete"
      /\ mem'.status = mem.status /\ mem'.resumes = mem.resumes /\ mem'.asked = mem.asked
      /\ Coherent(mem)' /\ Coherent(disk)' /\ LogDistinct'
  BY <1>1, CheckpointMade DEF Stage
<1>3. TypeOK'
  BY <1>1, <1>2 DEF IInv, TypeOK, Flow
<1>4. WaveFits' /\ StepsBacked'
  BY <1>1, OutsideWave, NoWave
<1>5. BreaksCounted' /\ OfferBacked'
  BY <1>1, <1>2 DEF IInv, BreaksCounted, OfferBacked
<1>6. CopiesAgree' /\ MergingOnlyNext' /\ QueueReady'
  BY <1>1, <1>2 DEF IInv, CopiesAgree, SameHeader, MergingOnlyNext, Calm, QueueReady
<1> QED
  BY <1>2, <1>3, <1>4, <1>5, <1>6 DEF IInv

LEMMA SettleBlockedKeeps ==
  ASSUME IInv, SettleBlocked
  PROVE  IInv'
<1>1. /\ flow = "settle" /\ mem' = mem /\ disk' = mem'
      /\ UNCHANGED <<step, wave, queue, abort, breaks, tree, branch, log, dirty>>
  BY DEF SettleBlocked, KeepMem, Save, OutOfWave, repo
<1>2. CASE Fail("error")
  <2>1. dirty' \in BOOLEAN
    BY <1>1 DEF IInv, TypeOK
  <2> QED
    BY <1>1, <1>2, <2>1, FailureKeeps DEF Fail, GoFlow
<1>3. CASE flow' = "tasksDone" /\ UNCHANGED failure
  <2>1. Coherent(mem)' /\ Coherent(disk)' /\ LogDistinct'
    BY <1>1, BooksKept
  <2>2. TypeOK'
    BY <1>1, <1>3 DEF IInv, TypeOK, Flow
  <2>3. WaveFits' /\ StepsBacked'
    BY <1>1, OutsideWave, NoWave
  <2>4. BreaksCounted' /\ OfferBacked'
    BY <1>1, <1>3 DEF IInv, BreaksCounted, OfferBacked
  <2>5. CopiesAgree' /\ MergingOnlyNext' /\ QueueReady'
    BY <1>1, <1>3 DEF IInv, CopiesAgree, SameHeader, MergingOnlyNext, Calm, QueueReady
  <2> QED
    BY <2>1, <2>2, <2>3, <2>4, <2>5 DEF IInv
<1> QED
  BY <1>2, <1>3 DEF SettleBlocked, GoFlow

LEMMA FinalChecksKeeps ==
  ASSUME IInv, FinalChecks
  PROVE  IInv'
<1>1. /\ flow = "final" /\ disk' = mem'
      /\ UNCHANGED <<step, wave, queue, abort, breaks, tree, branch, log, dirty>>
  BY DEF FinalChecks, Save, OutOfWave, repo
<1>2. CASE mem' = mem /\ Fail("error")
  <2>1. dirty' \in BOOLEAN
    BY <1>1 DEF IInv, TypeOK
  <2> QED
    BY <1>1, <1>2, <2>1, FailureKeeps DEF Fail, GoFlow
<1>3. CASE mem' = [mem EXCEPT !.checked = Len(log)] /\ flow' = "decide" /\ UNCHANGED failure
  <2>1. mem \in Run /\ Len(log) \in Nat
    BY LogFields DEF IInv, TypeOK
  <2>2. /\ mem' \in Run /\ mem'.task = mem.task /\ mem'.stage = mem.stage /\ mem'.head = mem.head
        /\ mem'.done = mem.done /\ mem'.status = mem.status /\ mem'.resumes = mem.resumes
        /\ mem'.checked = Len(log) /\ mem'.asked = mem.asked
    BY <1>3, <2>1 DEF Run
  <2>3. Coherent(mem)' /\ Coherent(disk)' /\ LogDistinct'
    BY <1>1, <2>2, BooksKept
  <2>4. TypeOK'
    BY <1>1, <1>3, <2>2 DEF IInv, TypeOK, Flow
  <2>5. WaveFits' /\ StepsBacked'
    BY <1>1, OutsideWave, NoWave
  <2>6. BreaksCounted' /\ OfferBacked'
    BY <1>1, <1>3, <2>2 DEF IInv, BreaksCounted, OfferBacked
  <2>7. CopiesAgree' /\ MergingOnlyNext' /\ QueueReady'
    BY <1>1, <1>3, <2>2 DEF IInv, CopiesAgree, SameHeader, MergingOnlyNext, Calm, QueueReady
  <2> QED
    BY <2>3, <2>4, <2>5, <2>6, <2>7 DEF IInv
<1> QED
  BY <1>2, <1>3 DEF FinalChecks, SetRun, GoFlow, KeepMem

LEMMA DecideKeeps ==
  ASSUME IInv, Decide
  PROVE  IInv'
<1>1. /\ flow = "decide" /\ flow \in Calm
      /\ UNCHANGED <<step, wave, queue, abort, breaks, tree, branch, log, dirty>>
  BY DEF Decide, OutOfWave, repo, Calm
<1>2. CASE mem' = mem /\ disk' = disk /\ Fail("error")
  <2>1. dirty' \in BOOLEAN
    BY <1>1 DEF IInv, TypeOK
  <2> QED
    BY <1>1, <1>2, <2>1, FailureKeeps DEF Fail, GoFlow
<1>3. CASE /\ mem' = Checkpoint(mem, "local-gates-passed") /\ flow' = "approve" /\ disk' = mem'
           /\ UNCHANGED failure
  <2>1. /\ mem' \in Run /\ mem'.task = mem.task /\ mem'.stage = "local-gates-passed"
        /\ mem'.head = Len(log) /\ mem'.checked = mem.checked
        /\ mem'.status = mem.status /\ mem'.resumes = mem.resumes /\ mem'.asked = mem.asked
        /\ Coherent(mem)' /\ Coherent(disk)' /\ LogDistinct'
    BY <1>1, <1>3, CheckpointMade DEF Stage
  <2>2. TypeOK'
    BY <1>1, <1>3, <2>1 DEF IInv, TypeOK, Flow
  <2>3. WaveFits' /\ StepsBacked'
    BY <1>1, OutsideWave, NoWave
  <2>4. BreaksCounted'
    BY <1>1, <1>3, <2>1 DEF IInv, BreaksCounted
  <2>5. OfferBacked'
    BY <1>1, <1>3, <2>1 DEF IInv, OfferBacked, MergingOnlyNext
  <2>6. CopiesAgree' /\ MergingOnlyNext' /\ QueueReady'
    BY <1>1, <1>3, <2>1 DEF IInv, CopiesAgree, SameHeader, MergingOnlyNext, Calm, QueueReady
  <2> QED
    BY <2>1, <2>2, <2>3, <2>4, <2>5, <2>6 DEF IInv
<1> QED
  BY <1>2, <1>3 DEF Decide, SetRun, GoFlow, KeepMem, KeepDisk, Save

LEMMA RequestApprovalKeeps ==
  ASSUME IInv, RequestApproval
  PROVE  IInv'
<1>1. /\ flow = "approve" /\ flow' = "off" /\ disk' = mem'
      /\ mem' = [mem EXCEPT !.status = "awaiting-human", !.asked = TRUE]
      /\ UNCHANGED <<step, wave, queue, abort, failure, breaks, tree, branch, log, dirty>>
  BY DEF RequestApproval, SetRun, GoFlow, Save, OutOfWave, repo
<1>2. mem \in Run
  BY DEF IInv, TypeOK
<1>3. /\ mem' \in Run /\ mem'.task = mem.task /\ mem'.stage = mem.stage /\ mem'.head = mem.head
      /\ mem'.done = mem.done /\ mem'.status = "awaiting-human" /\ mem'.resumes = mem.resumes
      /\ mem'.checked = mem.checked /\ mem'.asked
  BY <1>1, <1>2 DEF Run, RunStatus
<1>4. Coherent(mem)' /\ Coherent(disk)' /\ LogDistinct'
  BY <1>1, <1>3, BooksKept
<1>5. TypeOK'
  BY <1>1, <1>3 DEF IInv, TypeOK, Flow
<1>6. WaveFits' /\ StepsBacked'
  BY <1>1, OutsideWave, NoWave
<1>7. BreaksCounted'
  BY <1>1, <1>2, <1>3, RunFields DEF IInv, BreaksCounted, TypeOK
<1>8. OfferBacked'
  BY <1>1, <1>3 DEF IInv, OfferBacked
<1>9. CopiesAgree' /\ MergingOnlyNext' /\ QueueReady'
  BY <1>1, <1>3 DEF IInv, CopiesAgree, SameHeader, MergingOnlyNext, Calm, QueueReady
<1> QED
  BY <1>3, <1>4, <1>5, <1>6, <1>7, <1>8, <1>9 DEF IInv

LEMMA WorkflowAbortsKeeps ==
  ASSUME IInv, WorkflowAborts \/ MergeFails
  PROVE  IInv'
<1>1. CASE WorkflowAborts
  <2>1. dirty' \in BOOLEAN
    BY <1>1 DEF WorkflowAborts, IInv, TypeOK
  <2> QED
    BY <1>1, <2>1, FailureKeeps DEF WorkflowAborts, Fail, GoFlow, KeepMem, KeepDisk, OutOfWave
<1>2. CASE MergeFails
  <2>1. dirty' \in BOOLEAN
    BY <1>2 DEF MergeFails, IInv, TypeOK
  <2> QED
    BY <1>2, <2>1, FailureKeeps DEF MergeFails, Fail, GoFlow, KeepMem, KeepDisk, OutOfWave
<1> QED
  BY <1>1, <1>2

LEMMA SettleFailureKeeps ==
  ASSUME IInv, SettleFailure
  PROVE  IInv'
<1>1. /\ flow = "failing" /\ flow' \in {"off", "cleanTrees"} /\ disk' = mem' /\ queue' = {}
      /\ mem' = [mem EXCEPT !.status = StatusAfterFailure]
      /\ UNCHANGED <<step, wave, abort, failure, breaks, tree, branch, log, dirty>>
  BY DEF SettleFailure, SetRun, GoFlow, Save, OutOfWave, repo
<1>2. mem \in Run /\ StatusAfterFailure \in {"blocked", "cancelled", "interrupted"}
      /\ (StatusAfterFailure = "interrupted" => abort # "none")
  BY DEF IInv, TypeOK, StatusAfterFailure, Running
<1>3. /\ mem' \in Run /\ mem'.task = mem.task /\ mem'.stage = mem.stage /\ mem'.head = mem.head
      /\ mem'.done = mem.done /\ mem'.status = StatusAfterFailure /\ mem'.resumes = mem.resumes
      /\ mem'.checked = mem.checked /\ mem'.asked = mem.asked
  BY <1>1, <1>2 DEF Run, RunStatus
<1>4. Coherent(mem)' /\ Coherent(disk)' /\ LogDistinct'
  BY <1>1, <1>3, BooksKept
<1>5. TypeOK'
  BY <1>1, <1>3 DEF IInv, TypeOK, Flow
<1>6. WaveFits' /\ StepsBacked'
  BY <1>1, OutsideWave, NoWave
<1>7. BreaksCounted'
  BY <1>1, <1>2, <1>3, RunFields DEF IInv, BreaksCounted, TypeOK
<1>8. OfferBacked'
  BY <1>1, <1>3 DEF IInv, OfferBacked
<1>9. CopiesAgree' /\ MergingOnlyNext' /\ QueueReady'
  BY <1>1, <1>3 DEF IInv, CopiesAgree, SameHeader, MergingOnlyNext, Calm, QueueReady
<1> QED
  BY <1>3, <1>4, <1>5, <1>6, <1>7, <1>8, <1>9 DEF IInv

\* What leaves the run and the integration branch alone outside of the workflow's own work.
LEMMA IdleKeeps ==
  ASSUME IInv, flow \in {"off", "validate", "cleanTrees", "cleanBranches"},
         flow' \in {"off", "cleanBranches"} \/ (flow = "off" /\ flow' = "validate" /\ mem.status = "interrupted"),
         mem' = mem \/ (mem' = disk /\ flow = "off"), disk' \in {disk, mem'},
         abort' \in {abort, "none"}, failure' \in {failure, "none"}, dirty' \in {dirty, FALSE},
         flow' = "cleanBranches" => flow = "cleanTrees", flow' = "validate" => abort' = "none",
         tree' \in [Place -> TreeState], branch' \in [Place -> BranchState],
         UNCHANGED <<step, wave, queue, breaks, log>>
  PROVE  IInv'
<1>1. mem.task = disk.task /\ SameHeader(mem, disk) /\ SameHeader(mem', mem) /\ mem'.task = mem.task
  BY DEF IInv, CopiesAgree, SameHeader
<1>2. Coherent(mem)' /\ Coherent(disk)' /\ LogDistinct'
  BY <1>1, BooksKept DEF SameHeader
<1>3. TypeOK'
  BY DEF IInv, TypeOK, Flow
<1>4. WaveFits' /\ StepsBacked'
  BY OutsideWave, NoWave
<1>5. BreaksCounted'
  <2>1. mem'.status = mem.status /\ mem'.resumes = mem.resumes
    BY <1>1 DEF SameHeader
  <2>2. mem.resumes \in Nat /\ breaks \in Nat
    BY RunFields, LimitAssumption DEF IInv, TypeOK
  <2> QED
    BY <2>1, <2>2 DEF IInv, BreaksCounted
<1>6. OfferBacked'
  <2>1. mem'.stage = mem.stage /\ mem'.checked = mem.checked /\ mem'.head = mem.head
        /\ mem'.asked = mem.asked /\ mem'.status = mem.status /\ log' = log
    BY <1>1 DEF SameHeader
  <2>2. dirty' => dirty
    BY DEF IInv, TypeOK
  <2>3. CASE flow' = "off"
    BY <1>1, <2>1, <2>2, <2>3 DEF IInv, OfferBacked
  <2>4. CASE flow' = "validate"
    BY <1>1, <2>1, <2>2, <2>4 DEF IInv, OfferBacked
  <2>5. CASE flow' = "cleanBranches"
    BY <1>1, <2>1, <2>2, <2>5 DEF IInv, OfferBacked
  <2> QED
    BY <2>3, <2>4, <2>5
<1>7. CopiesAgree' /\ MergingOnlyNext' /\ QueueReady'
  BY <1>1 DEF IInv, CopiesAgree, SameHeader, MergingOnlyNext, Calm, QueueReady
<1> QED
  BY <1>2, <1>3, <1>4, <1>5, <1>6, <1>7 DEF IInv

\* Whichever removals fail, a place keeps what it had or has nothing.
LEMMA CleanedPlaces ==
  ASSUME NEW places, NEW S, "absent" \in S, NEW git \in [Place -> S]
  PROVE  Cleaned(places, git) \subseteq [Place -> S]
BY DEF Cleaned, Without

LEMMA IdleStepsKeep ==
  ASSUME IInv, CleanTrees \/ CleanBranches \/ Resume \/ RefuseResume \/ CleanIntegration
  PROVE  IInv'
<1>1. tree \in [Place -> TreeState] /\ branch \in [Place -> BranchState]
  BY DEF IInv, TypeOK
<1>2. CASE CleanTrees
  <2>1. tree' \in [Place -> TreeState]
    BY <1>1, <1>2, CleanedPlaces DEF CleanTrees, TreeState
  <2> QED
    BY <1>1, <1>2, <2>1, IdleKeeps DEF CleanTrees, GoFlow, KeepMem, KeepDisk, OutOfWave
<1>3. CASE CleanBranches
  <2>1. branch' \in [Place -> BranchState]
    BY <1>1, <1>3, CleanedPlaces DEF CleanBranches, BranchState
  <2> QED
    BY <1>1, <1>3, <2>1, IdleKeeps DEF CleanBranches, GoFlow, KeepMem, Save, OutOfWave
<1>4. CASE Resume
  <2>1. mem.status = disk.status
    BY DEF IInv, CopiesAgree, SameHeader
  <2> QED
    BY <1>1, <1>4, <2>1, IdleKeeps DEF Resume, GoFlow, KeepDisk, repo
<1>5. CASE RefuseResume
  <2>1. mem \in Run /\ mem.task \in [Task -> TaskState]
    BY RunFields DEF IInv, TypeOK
  <2>2. \A t \in Task : ~ ForeignMerge(t)
    BY DEF ForeignMerge, IInv, Coherent
  <2>3. ~ (Running /\ CheckpointMatches)
    BY <1>5, <2>2 DEF RefuseResume
  <2>4. mem' = [mem EXCEPT !.task = [t \in Task |-> mem.task[t]]]
    BY <1>5, <2>3 DEF RefuseResume, Reconcile, SetRun
  <2>5. mem' = mem
    BY <2>1, <2>4 DEF Run
  <2>6. tree' \in [Place -> TreeState]
    BY <1>1, <1>5, CleanedPlaces DEF RefuseResume, Reconcile, TreeState
  <2> QED
    BY <1>1, <1>5, <2>5, <2>6, IdleKeeps DEF RefuseResume, GoFlow, Save, OutOfWave
<1>6. CASE CleanIntegration
  BY <1>1, <1>6, IdleKeeps DEF CleanIntegration
<1> QED
  BY <1>2, <1>3, <1>4, <1>5, <1>6

LEMMA AbortKeeps ==
  ASSUME IInv, Abort
  PROVE  IInv'
<1>1. /\ flow \notin {"off", "down", "cleanTrees", "cleanBranches"} /\ abort = "none"
      /\ breaks < MaxBreaks /\ breaks' = breaks + 1 /\ abort' \in {"pause", "cancel", "shutdown"}
      /\ UNCHANGED <<mem, disk, flow, step, wave, queue, failure, tree, branch, log, dirty>>
  BY DEF Abort, Running, repo
<1>2. TypeOK'
  BY <1>1, LimitAssumption DEF IInv, TypeOK
<1>3. BreaksCounted'
  BY <1>1, RunFields DEF IInv, BreaksCounted, TypeOK
<1>4. Coherent(mem)' /\ Coherent(disk)' /\ LogDistinct'
  BY <1>1, BooksKept
<1>5. CopiesAgree' /\ OfferBacked' /\ MergingOnlyNext'
  BY <1>1 DEF IInv, CopiesAgree, SameHeader, OfferBacked, MergingOnlyNext, NextMerge
<1>6. QueueReady'
  BY <1>1 DEF IInv, QueueReady, NextMerge, MergedIn
<1>7. WaveFits' /\ StepsBacked'
  BY <1>1 DEF IInv, WaveFits, StepsBacked, PlaceOf, MergedIn
<1> QED
  BY <1>2, <1>3, <1>4, <1>5, <1>6, <1>7 DEF IInv

LEMMA CrashKeeps ==
  ASSUME IInv, Crash
  PROVE  IInv'
<1>1. /\ flow # "down" /\ flow' = "down" /\ breaks < MaxBreaks /\ breaks' = breaks + 1
      /\ mem' = disk /\ disk' = disk /\ wave' = <<>> /\ step' = [t \in Task |-> "off"] /\ queue' = {}
      /\ abort' = "none" /\ failure' = "none"
      /\ UNCHANGED <<tree, branch, log>>
  BY DEF Crash, GoFlow, KeepDisk
<1>2. dirty' \in BOOLEAN /\ (dirty' => dirty \/ flow = "git")
  BY DEF Crash, IInv, TypeOK
<1>3. SameHeader(mem, disk) /\ (flow \notin {"wave", "failing"} => mem.task = disk.task)
  BY DEF IInv, CopiesAgree
<1>4. MergedIn(log)' = MergedIn(log) /\ \A n : MergedPrefix(n)' = MergedPrefix(n)
  BY <1>1 DEF MergedIn, MergedPrefix
<1>5. Coherent(mem)' /\ Coherent(disk)' /\ LogDistinct'
  BY <1>1, <1>4 DEF IInv, Coherent, LogDistinct
<1>6. TypeOK'
  BY <1>1, <1>2, LimitAssumption DEF IInv, TypeOK, Flow
<1>7. WaveFits' /\ StepsBacked'
  BY <1>1, NoWave
<1>8. BreaksCounted'
  <2>1. mem.resumes \in Nat /\ breaks \in Nat /\ mem'.resumes = mem.resumes /\ mem'.status = mem.status
    BY <1>1, <1>3, RunFields, LimitAssumption DEF IInv, TypeOK, SameHeader
  <2> QED
    BY <1>1, <2>1 DEF IInv, BreaksCounted
<1>9. OfferBacked'
  <2>1. /\ mem'.stage = mem.stage /\ mem'.checked = mem.checked /\ mem'.head = mem.head
        /\ mem'.asked = mem.asked /\ mem'.status = mem.status
    BY <1>1, <1>3 DEF SameHeader
  <2>2. CASE mem.stage = "local-gates-passed"
    <3>1. flow \in {"approve", "off"} /\ mem.task = disk.task
      BY <1>1, <1>3, <2>2 DEF IInv, OfferBacked
    <3> QED
      BY <1>1, <1>2, <2>1, <2>2, <3>1 DEF IInv, OfferBacked
  <2>3. CASE mem.stage # "local-gates-passed"
    BY <1>1, <2>1, <2>3 DEF IInv, OfferBacked
  <2> QED
    BY <2>2, <2>3
<1>10. CopiesAgree' /\ MergingOnlyNext' /\ QueueReady'
  BY <1>1 DEF CopiesAgree, SameHeader, MergingOnlyNext, Calm, QueueReady
<1> QED
  BY <1>5, <1>6, <1>7, <1>8, <1>9, <1>10 DEF IInv

LEMMA RestartKeeps ==
  ASSUME IInv, Restart
  PROVE  IInv'
<1> DEFINE restored == disk.stage = "local-gates-passed" /\ disk.head = Len(log) /\ ~ dirty
           atBoundary == disk.stage = "local-gates-passed" /\ (disk.asked \/ (disk.head = Len(log) /\ ~ dirty))
           status == IF atBoundary THEN "awaiting-human"
                     ELSE IF disk.status = "active" THEN "interrupted" ELSE disk.status
<1>1. /\ flow = "down" /\ flow' = "off" /\ disk' = mem'
      /\ mem' = [disk EXCEPT !.status = status, !.asked = disk.asked \/ restored]
      /\ UNCHANGED <<step, wave, queue, abort, failure, breaks, tree, branch, log, dirty>>
  BY DEF Restart, SetRun, GoFlow, Save, OutOfWave, repo
<1>2. disk \in Run /\ status \in RunStatus /\ (disk.asked \/ restored) \in BOOLEAN
  BY RunFields DEF IInv, TypeOK, RunStatus
<1>3. /\ mem' \in Run /\ mem'.task = disk.task /\ mem'.stage = disk.stage /\ mem'.head = disk.head
      /\ mem'.done = disk.done /\ mem'.status = status /\ mem'.resumes = disk.resumes
      /\ mem'.checked = disk.checked /\ mem'.asked = (disk.asked \/ restored)
  <2> HIDE DEF status, restored
  <2> QED
    BY <1>1, <1>2 DEF Run
<1>4. mem.task = disk.task /\ SameHeader(mem, disk)
  BY <1>1 DEF IInv, CopiesAgree
<1>5. Coherent(mem)' /\ Coherent(disk)' /\ LogDistinct'
  BY <1>1, <1>3, <1>4, BooksKept DEF SameHeader
<1>6. TypeOK'
  BY <1>1, <1>3 DEF IInv, TypeOK, Flow
<1>7. WaveFits' /\ StepsBacked'
  BY <1>1, OutsideWave, NoWave
<1>8. BreaksCounted'
  <2>1. mem'.resumes = mem.resumes /\ mem.resumes \in Nat /\ breaks \in Nat
    BY <1>3, <1>4, RunFields, LimitAssumption DEF IInv, TypeOK, SameHeader
  <2> QED
    BY <1>1, <2>1 DEF IInv, BreaksCounted
<1>9. OfferBacked'
  <2>1. CASE disk.stage = "local-gates-passed"
    <3>1. /\ disk.checked = Len(log) /\ disk.head = Len(log) /\ ~ dirty
          /\ \A t \in Task : ~ disk.task[t].merging
      BY <1>4, <2>1 DEF IInv, OfferBacked, SameHeader
    <3>2. status = "awaiting-human" /\ restored
      BY <2>1, <3>1
    <3> HIDE DEF status, restored
    <3> QED
      BY <1>1, <1>3, <2>1, <3>1, <3>2 DEF OfferBacked
  <2>2. CASE disk.stage # "local-gates-passed"
    <3>1. ~ disk.asked /\ ~ restored
      BY <1>4, <2>2 DEF IInv, OfferBacked, SameHeader
    <3> HIDE DEF status, restored
    <3> QED
      BY <1>1, <1>3, <2>2, <3>1 DEF OfferBacked
  <2> QED
    BY <2>1, <2>2
<1>10. CopiesAgree' /\ MergingOnlyNext' /\ QueueReady'
  BY <1>1 DEF CopiesAgree, SameHeader, MergingOnlyNext, Calm, QueueReady
<1> QED
  BY <1>3, <1>5, <1>6, <1>7, <1>8, <1>9, <1>10 DEF IInv

\* A merge that was announced is found on the branch after the checkpoint, or is not there at all.
LEMMA ReconcileMergesKeeps ==
  ASSUME IInv, ReconcileMerges
  PROVE  IInv'
<1> DEFINE f == [t \in Task |-> Reconciled(t)]
<1>1. /\ flow = "validate" /\ flow' = "prepare" /\ disk' = mem' /\ ~ dirty
      /\ mem' = [mem EXCEPT !.task = f]
      /\ UNCHANGED <<step, wave, queue, abort, failure, breaks, branch, log, dirty>>
  BY DEF ReconcileMerges, Reconcile, CheckpointMatches, SetRun, GoFlow, Save, OutOfWave
<1>2. tree' \in [Place -> TreeState]
  BY CleanedPlaces DEF ReconcileMerges, Reconcile, IInv, TypeOK, TreeState
<1>3. mem \in Run /\ mem.task \in [Task -> TaskState]
  BY RunFields DEF IInv, TypeOK
<1>4. ASSUME NEW t \in Task
      PROVE  /\ f[t] \in TaskState /\ ~ f[t].merging /\ f[t].commit = mem.task[t].commit
             /\ f[t].status = "merged" <=> t \in MergedIn(log)
             /\ mem.task[t].status = "merged" => f[t].status = "merged"
  <2> DEFINE s == mem.task[t]
  <2>1. s \in TaskState /\ f[t] = Reconciled(t)
    BY <1>3
  <2>2. CASE ~ s.merging
    <3>1. Reconciled(t) = s
      <4>1. Reconciled(t) = [s EXCEPT !.merging = FALSE]
        BY <2>2 DEF Reconciled
      <4> QED
        BY <2>1, <2>2, <4>1 DEF TaskState
    <3> QED
      BY <2>1, <2>2, <3>1 DEF IInv, Coherent
  <2>3. CASE s.merging /\ MergedLater(t)
    <3>1. t \in MergedIn(log) /\ s.commit
      BY <2>3 DEF MergedLater, Later, MergedIn, IInv, Coherent
    <3>2. Reconciled(t) = [s EXCEPT !.merging = FALSE, !.status = "merged"]
      BY <2>3, <3>1 DEF Reconciled
    <3>3. /\ Reconciled(t) \in TaskState /\ Reconciled(t).status = "merged"
          /\ ~ Reconciled(t).merging /\ Reconciled(t).commit = s.commit
      <4> HIDE DEF f
      <4> QED
        BY <2>1, <3>2 DEF TaskState, TaskStatus
    <3> QED
      BY <2>1, <3>1, <3>3
  <2>4. CASE s.merging /\ ~ MergedLater(t)
    <3>1. s.status = "passed"
      BY <2>4 DEF IInv, Coherent
    <3>2. t \notin MergedIn(log)
      <4> SUFFICES ASSUME NEW i \in DOMAIN log, log[i].task = t PROVE FALSE
        BY DEF MergedIn
      <4>1. i \in 1 .. mem.head
        BY <1>3, <2>4, LogFields, RunFields DEF IInv, MergedLater, Later
      <4>2. t \in mem.done
        BY <4>1 DEF IInv, Coherent, MergedPrefix
      <4> QED
        BY <3>1, <4>2 DEF IInv, Coherent
    <3>3. Reconciled(t) = [s EXCEPT !.merging = FALSE]
      BY <2>4 DEF Reconciled
    <3> QED
      BY <2>1, <3>1, <3>2, <3>3 DEF TaskState
  <2> QED
    BY <2>2, <2>3, <2>4
<1>5. f \in [Task -> TaskState]
  BY <1>4
<1> HIDE DEF f
<1>6. mem' \in Run /\ SameHeader(mem', mem) /\ mem'.task = f
  BY <1>1, <1>3, <1>5, SetTasks
<1>7. MergedIn(log)' = MergedIn(log) /\ \A n : MergedPrefix(n)' = MergedPrefix(n)
  BY <1>1 DEF MergedIn, MergedPrefix
<1>8. Coherent(mem)'
  <2>1. mem'.head = mem.head /\ mem'.done = mem.done /\ mem.done \subseteq Task
    BY <1>3, <1>6, RunFields DEF SameHeader
  <2>2. \A t \in mem.done : mem'.task[t].status = "merged"
    BY <1>4, <1>6, <2>1 DEF IInv, Coherent
  <2> QED
    BY <1>1, <1>4, <1>6, <1>7, <2>1, <2>2 DEF IInv, Coherent
<1>9. Coherent(disk)' /\ LogDistinct'
  BY <1>1, <1>8 DEF IInv, Coherent, LogDistinct
<1>10. TypeOK'
  BY <1>1, <1>2, <1>6 DEF IInv, TypeOK, Flow
<1>11. WaveFits' /\ StepsBacked'
  BY <1>1, OutsideWave, NoWave
<1>12. BreaksCounted' /\ OfferBacked'
  BY <1>1, <1>6 DEF IInv, BreaksCounted, OfferBacked, SameHeader
<1>13. CopiesAgree' /\ MergingOnlyNext' /\ QueueReady'
  BY <1>1, <1>4, <1>6 DEF CopiesAgree, SameHeader, MergingOnlyNext, QueueReady
<1> QED
  BY <1>6, <1>8, <1>9, <1>10, <1>11, <1>12, <1>13 DEF IInv

LEMMA PrepareRecoveryKeeps ==
  ASSUME IInv, PrepareRecovery
  PROVE  IInv'
<1> DEFINE reset == {t \in Task \ mem.done : ~ Kept(mem.task[t])}
           abandoned == reset \ WithStatus({"pending"})
           f == [t \in Task |-> IF t \in reset THEN ResetTask(mem.task[t]) ELSE mem.task[t]]
           resumes == IF abandoned # {} THEN mem.resumes + 1 ELSE mem.resumes
<1>1. /\ flow = "prepare" /\ flow \in Calm /\ flow' = ContinueAt(mem.stage) /\ disk' = mem'
      /\ mem' = [mem EXCEPT !.status = "active", !.task = f, !.resumes = resumes]
      /\ UNCHANGED <<step, wave, queue, abort, failure, breaks, tree, branch, log, dirty>>
  BY DEF PrepareRecovery, SetRun, GoFlow, Save, OutOfWave, repo, Calm
<1>2. mem \in Run /\ mem.task \in [Task -> TaskState] /\ mem.resumes \in Nat /\ breaks \in 0 .. MaxBreaks
  BY RunFields, LimitAssumption DEF IInv, TypeOK
<1>3. mem.resumes + 1 <= breaks /\ mem.status = "interrupted"
  BY <1>1, <1>2 DEF IInv, BreaksCounted
<1>4. resumes \in 0 .. MaxBreaks /\ resumes <= mem.resumes + 1
  BY <1>2, <1>3, LimitAssumption
<1>5. flow' \in {"final", "mergePassed"}
  BY <1>1 DEF IInv, OfferBacked, ContinueAt
<1>6. ASSUME NEW t \in Task
      PROVE  /\ f[t] \in TaskState /\ ~ f[t].merging
             /\ f[t].commit => mem.task[t].commit
             /\ f[t].status = "merged" <=> mem.task[t].status = "merged"
  <2>1. mem.task[t] \in TaskState /\ ~ mem.task[t].merging
    BY <1>1, <1>2 DEF IInv, MergingOnlyNext
  <2>2. CASE t \in reset
    <3>1. f[t] = ResetTask(mem.task[t]) /\ mem.task[t].status # "merged"
      BY <2>2 DEF Kept
    <3>2. /\ ResetTask(mem.task[t]) \in TaskState /\ ResetTask(mem.task[t]).status = "pending"
          /\ ~ ResetTask(mem.task[t]).merging /\ ~ ResetTask(mem.task[t]).commit
      BY <2>1 DEF ResetTask, NewTask, TaskState, TaskStatus
    <3> HIDE DEF f
    <3> QED
      BY <3>1, <3>2
  <2>3. CASE t \notin reset
    BY <2>1, <2>3
  <2> QED
    BY <2>2, <2>3
<1>7. f \in [Task -> TaskState]
  BY <1>6
<1> HIDE DEF f, resumes
<1>8. /\ mem' \in Run /\ mem'.task = f /\ mem'.stage = mem.stage /\ mem'.head = mem.head
      /\ mem'.done = mem.done /\ mem'.status = "active" /\ mem'.resumes = resumes
      /\ mem'.checked = mem.checked /\ mem'.asked = mem.asked
  BY <1>1, <1>2, <1>4, <1>7 DEF Run, RunStatus
<1>9. MergedIn(log)' = MergedIn(log) /\ \A n : MergedPrefix(n)' = MergedPrefix(n)
  BY <1>1 DEF MergedIn, MergedPrefix
<1>10. Coherent(mem)'
  <2>1. \A t \in Task : t \in MergedIn(log) <=> mem.task[t].status = "merged"
    BY <1>1 DEF IInv, Coherent, MergingOnlyNext
  <2>2. \A t \in mem.done : t \in Task /\ f[t].status = "merged"
    BY <1>2, <1>6, RunFields DEF IInv, Coherent
  <2>3. \A t \in Task : f[t].commit => DependsOn[t] \subseteq MergedIn(log)
    BY <1>6 DEF IInv, Coherent
  <2> QED
    BY <1>1, <1>6, <1>8, <1>9, <2>1, <2>2, <2>3 DEF IInv, Coherent
<1>11. Coherent(disk)' /\ LogDistinct'
  BY <1>1, <1>10 DEF IInv, Coherent, LogDistinct
<1>12. TypeOK'
  BY <1>1, <1>5, <1>8 DEF IInv, TypeOK, Flow
<1>13. WaveFits' /\ StepsBacked'
  BY <1>1, <1>5, OutsideWave, NoWave
<1>14. BreaksCounted'
  BY <1>1, <1>2, <1>3, <1>4, <1>5, <1>8 DEF IInv, BreaksCounted
<1>15. OfferBacked'
  BY <1>1, <1>5, <1>8 DEF IInv, OfferBacked
<1>16. CopiesAgree' /\ MergingOnlyNext' /\ QueueReady'
  BY <1>1, <1>5, <1>6, <1>8 DEF CopiesAgree, SameHeader, MergingOnlyNext, QueueReady
<1> QED
  BY <1>8, <1>10, <1>11, <1>12, <1>13, <1>14, <1>15, <1>16 DEF IInv

-----------------------------------------------------------------------------
LEMMA InitHolds == Init => IInv
<1> SUFFICES ASSUME Init PROVE IInv
  OBVIOUS
<1>1. /\ mem.status = "active" /\ mem.task = [t \in Task |-> NewTask] /\ mem.stage = "plan-ready"
      /\ mem.head = 0 /\ mem.done = {} /\ mem.resumes = 0 /\ mem.checked = 0 /\ mem.asked = FALSE
      /\ disk = mem
  BY DEF Init
<1>2. NewTask \in TaskState /\ NewTask.status = "pending" /\ ~ NewTask.merging /\ ~ NewTask.commit
  BY LimitAssumption DEF NewTask, TaskState, TaskStatus
<1>3. mem \in Run
  <2>1. mem.task \in [Task -> TaskState]
    BY <1>1, <1>2
  <2> QED
    BY <1>1, <2>1, LimitAssumption DEF Init, Run, RunStatus, Stage
<1>4. MergedIn(log) = {} /\ MergedPrefix(0) = {} /\ Len(log) = 0 /\ DOMAIN log = {}
  BY DEF Init, MergedIn, MergedPrefix
<1>5. TypeOK
  <2>1. log \in Seq(Merge) /\ wave \in Seq(Task)
    BY DEF Init
  <2>2. tree \in [Place -> TreeState] /\ branch \in [Place -> BranchState]
    BY DEF Init, TreeState, BranchState
  <2>3. step \in [Task -> {"off"} \union WaveSteps \union EndSteps]
    BY DEF Init
  <2>4. flow \in Flow
    BY DEF Init, Flow
  <2>5. breaks = 0 /\ queue = {} /\ dirty = FALSE /\ abort = "none" /\ failure = "none"
    BY Zenon DEF Init
  <2>6. mem \in Run /\ disk \in Run /\ breaks \in 0 .. MaxBreaks /\ queue \subseteq Task
    BY <1>1, <1>3, <2>5, LimitAssumption
  <2>7. /\ dirty \in BOOLEAN /\ abort \in {"none", "pause", "cancel", "shutdown"}
        /\ failure \in {"none", "abort", "error"}
    BY <2>5
  <2> QED
    BY <2>1, <2>2, <2>3, <2>4, <2>6, <2>7, Zenon DEF TypeOK
<1>6. Coherent(mem) /\ Coherent(disk) /\ LogDistinct
  <2>1. \A t \in Task : mem.task[t].status = "pending" /\ ~ mem.task[t].merging /\ ~ mem.task[t].commit
    BY <1>1, <1>2
  <2>2. mem.head <= Len(log) /\ mem.done = MergedPrefix(mem.head)
    BY <1>1, <1>4
  <2>3. Coherent(mem)
    BY <1>1, <1>4, <2>1, <2>2 DEF Coherent
  <2> QED
    BY <1>1, <1>4, <2>3 DEF LogDistinct
<1>7. CopiesAgree
  BY <1>1 DEF CopiesAgree, SameHeader
<1>8. BreaksCounted
  BY <1>1, LimitAssumption DEF Init, BreaksCounted
<1>9. MergingOnlyNext /\ QueueReady
  BY <1>1, <1>2 DEF Init, MergingOnlyNext, QueueReady
<1>10. WaveFits /\ StepsBacked
  <2>1. \A t \in Task : t \notin ToSet(<<>>)
    BY DEF ToSet
  <2> QED
    BY <2>1 DEF Init, WaveFits, StepsBacked, ToSet
<1>11. OfferBacked
  BY <1>1 DEF Init, OfferBacked
<1> QED
  BY <1>5, <1>6, <1>7, <1>8, <1>9, <1>10, <1>11 DEF IInv

LEMMA StutterKeeps ==
  ASSUME IInv, UNCHANGED vars
  PROVE  IInv'
<1>1. UNCHANGED <<mem, disk, flow, step, wave, queue, abort, failure, breaks, tree, branch, log, dirty>>
  BY DEF vars, repo
<1>2. TypeOK' /\ BreaksCounted' /\ OfferBacked'
  BY <1>1 DEF IInv, TypeOK, BreaksCounted, OfferBacked
<1>3. Coherent(mem)' /\ Coherent(disk)' /\ LogDistinct'
  BY <1>1, BooksKept
<1>4. CopiesAgree' /\ MergingOnlyNext' /\ QueueReady'
  BY <1>1 DEF IInv, CopiesAgree, SameHeader, MergingOnlyNext, QueueReady, NextMerge, MergedIn
<1>5. WaveFits' /\ StepsBacked'
  BY <1>1 DEF IInv, WaveFits, StepsBacked, PlaceOf, MergedIn
<1> QED
  BY <1>2, <1>3, <1>4, <1>5 DEF IInv

LEMMA FlowStepKeeps ==
  ASSUME IInv, FlowStep
  PROVE  IInv'
<1>1. \/ MergePassed \/ StartWave \/ EndWave \/ MergeIntent \/ GitMerge \/ NoteMerge
      \/ CheckpointWave \/ SettleBlocked \/ CheckpointTasks \/ FinalChecks \/ Decide
      \/ RequestApproval \/ WorkflowAborts \/ MergeFails \/ SettleFailure \/ CleanTrees
      \/ CleanBranches \/ ReconcileMerges \/ RefuseResume \/ PrepareRecovery
  BY DEF FlowStep
<1> QED
  BY <1>1, MergePassedKeeps, StartWaveKeeps, EndWaveKeeps, MergeIntentKeeps, GitMergeKeeps,
     NoteMergeKeeps, CheckpointWaveKeeps, SettleBlockedKeeps, CheckpointTasksKeeps, FinalChecksKeeps,
     DecideKeeps, RequestApprovalKeeps, WorkflowAbortsKeeps, SettleFailureKeeps, IdleStepsKeep,
     ReconcileMergesKeeps, PrepareRecoveryKeeps, Zenon

LEMMA StepKeeps == IInv /\ [Next]_vars => IInv'
<1> SUFFICES ASSUME IInv, [Next]_vars PROVE IInv'
  OBVIOUS
<1>1. CASE \E t \in Task : TaskStep(t) \/ WorkerEdits(t)
  BY <1>1, TaskStepChanges, TaskChangeKeeps, Zenon
<1>2. CASE FlowStep
  BY <1>2, FlowStepKeeps
<1>3. CASE Resume \/ CleanIntegration
  BY <1>3, IdleStepsKeep
<1>4. CASE Abort
  BY <1>4, AbortKeeps
<1>5. CASE Crash
  BY <1>5, CrashKeeps
<1>6. CASE Restart
  BY <1>6, RestartKeeps
<1>7. CASE UNCHANGED vars
  BY <1>7, StutterKeeps
<1> QED
  BY <1>1, <1>2, <1>3, <1>4, <1>5, <1>6, <1>7, Zenon DEF Next

\* The invariant that the rest follows from: every step of the workflow and of what befalls it
\* keeps the copies of the run and the branch together.
THEOREM Inductive == Spec => []IInv
BY InitHolds, StepKeeps, PTL DEF Spec

-----------------------------------------------------------------------------
(***************************************************************************)
(* A run, its copies, its worktrees and the branch have the types of their *)
(* fields, whatever the plan: attempts and names never outgrow the limits. *)
(***************************************************************************)
THEOREM TypeCorrect == Spec => []TypeOK
BY Inductive, PTL DEF IInv

(***************************************************************************)
(* Wherever the run is aborted or the process dies, every merge on the     *)
(* branch is of a task that state.json has as merged, or as announced with *)
(* its commit, every task it has as merged is on the branch, and no task   *)
(* is merged twice.                                                        *)
(***************************************************************************)
THEOREM BranchIsRecorded == Spec => []LogIsRecorded
<1>1. IInv => LogIsRecorded
  <2> SUFFICES ASSUME IInv PROVE LogIsRecorded
    OBVIOUS
  <2>1. \A i \in DOMAIN log : log[i].task \in Task /\ log[i].task \in MergedIn(log)
    BY LogFields DEF IInv, MergedIn
  <2> QED
    BY <2>1 DEF IInv, Coherent, LogDistinct, LogIsRecorded
<1> QED
  BY <1>1, Inductive, PTL

(***************************************************************************)
(* A checkpoint, in memory and in state.json, names exactly the tasks that *)
(* were merged up to the commit it records.                                *)
(***************************************************************************)
THEOREM CheckpointsArePrefixes == Spec => []CheckpointIsPrefix
<1>1. IInv => CheckpointIsPrefix
  BY DEF IInv, Coherent, MergedPrefix, CheckpointIsPrefix
<1> QED
  BY <1>1, Inductive, PTL

(***************************************************************************)
(* No step, of an abort, a crash, a restart or a resume either, puts an    *)
(* older checkpoint into state.json: the commit it records never goes back *)
(* on the branch, and a task it counts as integrated stays so.             *)
(***************************************************************************)
THEOREM CheckpointsGrow == Spec => [][disk.head <= disk'.head /\ disk.done \subseteq disk'.done]_vars
<1>1. IInv /\ [Next]_vars => disk.head <= disk'.head /\ disk.done \subseteq disk'.done
  <2> SUFFICES ASSUME IInv, [Next]_vars
               PROVE  disk.head <= disk'.head /\ disk.done \subseteq disk'.done
    OBVIOUS
  <2>1. mem \in Run /\ disk \in Run /\ mem.head = disk.head /\ mem.done = disk.done /\ disk.head \in Nat
    BY RunFields DEF IInv, TypeOK, CopiesAgree, SameHeader
  <2> USE DEF KeepMem, KeepDisk, Save
  <2>2. CASE disk'.head = disk.head /\ disk'.done = disk.done
    BY <2>1, <2>2
  <2>3. ASSUME NEW t \in Task, TaskStep(t) \/ WorkerEdits(t)
        PROVE  disk'.head = disk.head /\ disk'.done = disk.done
    <3>1. TaskChange(t)
      BY <2>3, TaskStepChanges
    <3> QED
      BY <2>1, <3>1 DEF TaskChange, SameHeader
  <2>4. CASE CheckpointWave \/ CheckpointTasks \/ Decide
    <3>1. \/ disk' \in {disk, mem}
          \/ \E stage \in Stage : disk' = Checkpoint(mem, stage)
      BY <2>4 DEF CheckpointWave, CheckpointTasks, Decide, SetRun, Stage
    <3>2. CASE disk' \in {disk, mem}
      BY <2>1, <2>2, <3>2
    <3>3. CASE \E stage \in Stage : disk' = Checkpoint(mem, stage)
      <4>1. disk'.head = Len(log) /\ disk'.done = WithStatus({"merged"})
        BY <2>1, <3>3 DEF Checkpoint, Run
      <4>2. mem.head <= Len(log) /\ mem.done \subseteq WithStatus({"merged"})
        BY <2>1, RunFields DEF IInv, Coherent, WithStatus
      <4> QED
        BY <2>1, <4>1, <4>2
    <3> QED
      BY <3>1, <3>2, <3>3
  <2>5. CASE \/ MergePassed \/ StartWave \/ EndWave \/ MergeIntent \/ GitMerge \/ MergeFails \/ NoteMerge
             \/ SettleBlocked \/ FinalChecks \/ RequestApproval \/ WorkflowAborts \/ SettleFailure
             \/ CleanTrees \/ CleanBranches \/ ReconcileMerges \/ RefuseResume \/ PrepareRecovery
    <3>1. disk' \in {disk, mem, mem'}
      BY <2>5 DEF MergePassed, StartWave, EndWave, MergeIntent, GitMerge, MergeFails, NoteMerge,
         SettleBlocked, FinalChecks, RequestApproval, WorkflowAborts, SettleFailure, CleanTrees,
         CleanBranches, ReconcileMerges, RefuseResume, PrepareRecovery, Fail
    <3>2. mem'.head = mem.head /\ mem'.done = mem.done
      BY <2>1, <2>5 DEF MergePassed, StartWave, EndWave, MergeIntent, GitMerge, MergeFails, NoteMerge,
         SettleBlocked, FinalChecks, RequestApproval, WorkflowAborts, SettleFailure, CleanTrees,
         CleanBranches, ReconcileMerges, RefuseResume, Reconcile, PrepareRecovery, Run, Set, SetRun
    <3> QED
      BY <2>1, <2>2, <3>1, <3>2
  <2>6. CASE Restart
    BY <2>1, <2>2, <2>6 DEF Restart, SetRun, Run
  <2>7. CASE Resume \/ Abort \/ Crash \/ CleanIntegration \/ UNCHANGED vars
    BY <2>2, <2>7 DEF Resume, Abort, Crash, CleanIntegration, vars
  <2> QED
    BY <2>2, <2>3, <2>4, <2>5, <2>6, <2>7, Zenon DEF Next, FlowStep
<1> QED
  BY <1>1, Inductive, PTL DEF Spec

(***************************************************************************)
(* assertCheckpointMatches and the two checks after it accept every state  *)
(* that the workflow itself leaves behind, a half done merge apart.        *)
(***************************************************************************)
THEOREM ResumeIsAccepted == Spec => []RecoveryAccepted
<1>1. ASSUME IInv, flow = "validate", ~ dirty PROVE CheckpointMatches /\ \A t \in Task : ~ ForeignMerge(t)
  <2>1. \A t \in Task : ~ ForeignMerge(t)
    BY <1>1 DEF ForeignMerge, IInv, Coherent
  <2> DEFINE due == {t \in Task \ mem.done : mem.task[t].status = "merged" \/ mem.task[t].merging}
  <2>2. mem.head \in Nat /\ mem.head <= Len(log)
    BY <1>1, RunFields DEF IInv, TypeOK, Coherent
  <2>3. ASSUME NEW i \in Later PROVE log[i].task \in due
    <3>1. i \in DOMAIN log /\ i > mem.head /\ log[i].task \in Task /\ log[i].task \in MergedIn(log)
      BY <1>1, LogFields DEF IInv, Later, MergedIn
    <3>2. log[i].task \notin mem.done
      <4> SUFFICES ASSUME log[i].task \in mem.done PROVE FALSE
        OBVIOUS
      <4>1. PICK j \in 1 .. mem.head : log[j].task = log[i].task
        BY <1>1 DEF IInv, Coherent, MergedPrefix
      <4>2. j \in DOMAIN log /\ j # i
        BY <1>1, <2>2, <3>1, LogFields DEF IInv
      <4> QED
        BY <1>1, <3>1, <4>1, <4>2 DEF IInv, LogDistinct
    <3> QED
      BY <1>1, <3>1, <3>2 DEF IInv, Coherent
  <2>4. Len(log) # mem.head => OnlyPostCheckpointMerges
    <3> SUFFICES ASSUME Len(log) # mem.head PROVE OnlyPostCheckpointMerges
      OBVIOUS
    <3>1. Len(log) \in Later
      BY <1>1, <2>2, LogFields DEF IInv, Later
    <3>2. \A i, j \in Later : log[i].task = log[j].task => i = j
      BY <1>1 DEF IInv, LogDistinct, Later
    <3> QED
      BY <2>3, <3>1, <3>2 DEF OnlyPostCheckpointMerges
  <2> QED
    BY <1>1, <2>1, <2>4 DEF CheckpointMatches
<1>2. ASSUME IInv, flow = "prepare" PROVE mem.done \subseteq WithStatus({"merged"})
  BY <1>2, RunFields DEF IInv, TypeOK, Coherent, WithStatus
<1>3. IInv => RecoveryAccepted
  BY <1>1, <1>2 DEF RecoveryAccepted
<1> QED
  BY <1>3, Inductive, PTL

(***************************************************************************)
(* selectTaskWave keeps concurrent workers apart, for every plan: disjoint *)
(* owned paths, and what they depend on is merged.                         *)
(***************************************************************************)
THEOREM WorkersApart == Spec => []WorkersDisjoint
<1>1. IInv => WorkersDisjoint
  BY DEF IInv, WaveFits, WorkersDisjoint
<1> QED
  BY <1>1, Inductive, PTL

(***************************************************************************)
(* No resume works on, commits or merges a merged task once more.          *)
(***************************************************************************)
THEOREM NoTaskRedone == Spec => []MergedStaysMerged
<1>1. ASSUME IInv, flow = "intent" PROVE NextMerge \notin MergedIn(log)
  <2>1. NextMerge \in queue /\ NextMerge \in Task
    BY <1>1, NextMergeQueued DEF IInv, QueueReady, TypeOK
  <2>2. mem.task[NextMerge].status = "passed" /\ ~ mem.task[NextMerge].merging
    BY <1>1, <2>1 DEF IInv, QueueReady, MergingOnlyNext, Calm
  <2> QED
    BY <1>1, <2>1, <2>2 DEF IInv, Coherent
<1>2. ASSUME IInv, NEW t \in MergedIn(log) PROVE t \notin ToSet(wave)
  BY <1>2 DEF IInv, WaveFits
<1>3. ASSUME IInv, flow = "git" PROVE NextMerge \notin MergedIn(log)
  BY <1>3 DEF IInv, QueueReady
<1>4. IInv => MergedStaysMerged
  BY <1>1, <1>2, <1>3 DEF MergedStaysMerged
<1> QED
  BY <1>4, Inductive, PTL

(***************************************************************************)
(* What the final approval is asked of is the head that the integration    *)
(* gates passed on, after a restart of the service as before: there is no  *)
(* merge after the checks and none half done.                              *)
(***************************************************************************)
THEOREM OfferIsChecked == Spec => []OfferedWasChecked
<1>1. ASSUME IInv, disk.asked PROVE OfferedWasChecked
  <2>1. SameHeader(mem, disk)
    BY <1>1 DEF IInv, CopiesAgree
  <2>2. /\ mem.stage = "local-gates-passed" /\ mem.status = "awaiting-human" /\ flow \in {"off", "down"}
    BY <1>1, <2>1 DEF IInv, OfferBacked, SameHeader
  <2>3. mem.task = disk.task
    BY <1>1, <2>2 DEF IInv, CopiesAgree
  <2> QED
    BY <1>1, <2>1, <2>2, <2>3 DEF IInv, OfferBacked, SameHeader, OfferedWasChecked
<1>2. IInv => OfferedWasChecked
  BY <1>1 DEF OfferedWasChecked
<1> QED
  BY <1>2, Inductive, PTL

-----------------------------------------------------------------------------
(***************************************************************************)
(* Refinement.  A merge is an Integrate, the request of the approval an    *)
(* Offer, and every other step, resumes and restarts included, stutters.   *)
(***************************************************************************)
Merged == [i \in DOMAIN log |-> log[i].task]
Offered == IF disk.asked THEN disk.checked ELSE 0

\* An approval is asked for only while no workflow of the run executes.
LEMMA AskedAtRest ==
  ASSUME IInv
  PROVE  /\ mem.asked = disk.asked /\ disk.asked \in BOOLEAN
         /\ disk.asked => flow \in {"off", "down"} /\ disk.status = "awaiting-human"
BY RunFields DEF IInv, TypeOK, CopiesAgree, SameHeader, OfferBacked

LEMMA MergedOn ==
  ASSUME IInv
  PROVE  Promise!On(Merged) = MergedIn(log) /\ Len(Merged) = Len(log) /\ (Merged = <<>> <=> Len(log) = 0)
<1>1. DOMAIN log = 1 .. Len(log) /\ Len(log) \in Nat
  BY LogFields DEF IInv
<1>2. DOMAIN Merged = 1 .. Len(log) /\ Merged \in Seq(Task)
  <2>1. Merged \in [1 .. Len(log) -> Task]
    BY <1>1, LogFields DEF IInv, Merged
  <2> QED
    BY <1>1, <2>1
<1>3. Len(Merged) = Len(log)
  BY <1>1, <1>2
<1>4. Promise!On(Merged) = {Merged[i] : i \in 1 .. Len(log)}
  BY <1>3 DEF Promise!On
<1>5. \A i \in 1 .. Len(log) : Merged[i] = log[i].task
  BY <1>1 DEF Merged
<1>6. Promise!On(Merged) = MergedIn(log)
  BY <1>1, <1>4, <1>5 DEF MergedIn
<1>7. Merged = <<>> <=> Len(log) = 0
  BY <1>1, <1>2, <1>3
<1> QED
  BY <1>3, <1>6, <1>7

\* A merge on the branch is a step of the promise.
LEMMA MergeIntegrates ==
  ASSUME IInv, flow = "git", DoMerge(NextMerge), disk' = disk
  PROVE  Promise!Next
<1>0. PICK t \in Task : t = NextMerge
  BY NextMergeQueued DEF IInv, QueueReady, TypeOK
<1> DEFINE m == [task |-> t, content |-> branch[PlaceOf(t)]]
<1>1. t \in queue /\ t \notin MergedIn(log)
  BY <1>0, NextMergeQueued DEF IInv, QueueReady
<1>2. DependsOn[t] \subseteq MergedIn(log)
  BY <1>1 DEF IInv, QueueReady, Coherent
<1>3. ~ disk.asked
  BY AskedAtRest
<1>4. log' = Append(log, m)
  BY <1>0 DEF DoMerge
<1>5. DOMAIN log = 1 .. Len(log) /\ Len(log) \in Nat /\ log \in Seq(Merge)
  BY LogFields DEF IInv
<1>6. DOMAIN log' = 1 .. (Len(log) + 1) /\ log'[Len(log) + 1] = m /\ \A i \in 1 .. Len(log) : log'[i] = log[i]
  BY <1>4, <1>5
<1>7. Merged' = Append(Merged, t)
  <2>1. Merged \in Seq(Task) /\ Merged' \in Seq(Task)
    <3>1. Merged \in [1 .. Len(log) -> Task] /\ Merged' \in [1 .. (Len(log) + 1) -> Task]
      BY <1>1, <1>5, <1>6, LogFields DEF IInv, Merged
    <3> QED
      BY <1>5, <3>1
  <2>2. Len(Merged) = Len(log) /\ Len(Merged') = Len(log) + 1
    <3>1. DOMAIN Merged = 1 .. Len(log) /\ DOMAIN Merged' = 1 .. (Len(log) + 1)
      BY <1>5, <1>6 DEF Merged
    <3> QED
      BY <1>5, <2>1, <3>1
  <2>3. Merged'[Len(log) + 1] = t /\ \A i \in 1 .. Len(log) : Merged'[i] = Merged[i]
    BY <1>5, <1>6 DEF Merged
  <2> DEFINE next == Append(Merged, t)
  <2>4. /\ next \in Seq(Task) /\ Len(next) = Len(log) + 1
        /\ next[Len(log) + 1] = t /\ \A i \in 1 .. Len(log) : next[i] = Merged[i]
    BY <1>1, <1>5, <2>1, <2>2, AppendProperties
  <2> HIDE DEF next
  <2>5. \A i \in 1 .. Len(Merged') : Merged'[i] = next[i]
    <3> HIDE DEF Merged
    <3> QED
      BY <1>5, <2>2, <2>3, <2>4
  <2> QED
    BY <2>1, <2>2, <2>4, <2>5, SeqEqual DEF next
<1>8. Offered = 0 /\ Offered' = 0
  BY <1>3 DEF Offered
<1>9. Promise!Integrate(t)
  BY <1>1, <1>2, <1>7, <1>8, MergedOn DEF Promise!Integrate, Merged, Offered
<1> QED
  BY <1>9 DEF Promise!Next

\* A step that neither merges nor asks for the approval leaves the promise alone.
LEMMA NeitherMergedNorAsked ==
  ASSUME log' = log, disk'.asked = disk.asked, disk.asked => disk'.checked = disk.checked
  PROVE  UNCHANGED Promise!vars
BY DEF Promise!vars

\* Asking for the approval of a run with nothing merged stutters; otherwise it is the Offer.
LEMMA AskOffers ==
  ASSUME IInv, ~ disk.asked, disk'.asked, disk'.checked = Len(log), log' = log
  PROVE  [Promise!Next]_Promise!vars
<1>1. Merged' = Merged /\ Offered = 0 /\ Offered' = Len(log)
  BY DEF Merged, Offered
<1>2. CASE Len(log) = 0
  BY <1>1, <1>2 DEF Promise!vars, Merged, Offered
<1>3. CASE Len(log) # 0
  <2>1. Promise!Offer
    BY <1>1, <1>3, MergedOn DEF Promise!Offer, Merged, Offered
  <2> QED
    BY <2>1 DEF Promise!Next
<1> QED
  BY <1>2, <1>3

\* While a workflow executes nothing is asked, and a save writes what memory has.
LEMMA SavedUnasked ==
  ASSUME IInv, flow \notin {"off", "down"}, log' = log, disk' \in {disk, mem, mem'}, ~ mem'.asked
  PROVE  UNCHANGED Promise!vars
<1>1. ~ disk.asked /\ ~ mem.asked /\ mem.asked = disk.asked
  BY AskedAtRest
<1> QED
  BY <1>1 DEF Promise!vars

LEMMA PromiseStep == IInv /\ [Next]_vars => [Promise!Next]_Promise!vars
<1> SUFFICES ASSUME IInv, [Next]_vars PROVE [Promise!Next]_Promise!vars
  OBVIOUS
<1>1. mem.asked = disk.asked /\ mem \in Run /\ disk \in Run
  BY AskedAtRest DEF IInv, TypeOK
<1> USE DEF GoFlow, KeepMem, KeepDisk, Save, OutOfWave, repo
<1>2. ASSUME NEW t \in Task, TaskStep(t) \/ WorkerEdits(t) PROVE UNCHANGED Promise!vars
  <2>1. TaskChange(t)
    BY <1>2, TaskStepChanges
  <2>2. flow \notin {"off", "down"} /\ log' = log /\ disk' \in {disk, mem, mem'} /\ mem'.asked = mem.asked
    BY <2>1 DEF TaskChange, SameHeader
  <2>3. ~ mem'.asked
    BY <2>2, AskedAtRest
  <2> QED
    BY <2>2, <2>3, SavedUnasked
<1>3. CASE GitMerge \/ WorkflowAborts \/ MergeFails
  <2>1. flow \notin {"off", "down"} /\ mem' = mem /\ disk' = disk
    BY <1>3 DEF GitMerge, WorkflowAborts, MergeFails
  <2>2. \/ flow = "git" /\ DoMerge(NextMerge)
        \/ log' = log
    BY <1>3 DEF GitMerge, WorkflowAborts, MergeFails
  <2>3. CASE log' = log
    BY <2>1, <2>3, NeitherMergedNorAsked
  <2> QED
    BY <2>1, <2>2, <2>3, MergeIntegrates
<1>4. CASE \/ MergePassed \/ StartWave \/ EndWave \/ MergeIntent \/ NoteMerge \/ CheckpointWave
           \/ SettleBlocked \/ CheckpointTasks \/ FinalChecks \/ Decide \/ SettleFailure
           \/ CleanTrees \/ CleanBranches \/ ReconcileMerges \/ RefuseResume \/ PrepareRecovery
  <2>1. flow \notin {"off", "down"} /\ log' = log /\ disk' \in {disk, mem, mem'}
    BY <1>4 DEF MergePassed, StartWave, EndWave, MergeIntent, NoteMerge, CheckpointWave, SettleBlocked,
       CheckpointTasks, FinalChecks, Decide, SettleFailure, CleanTrees, CleanBranches, ReconcileMerges,
       RefuseResume, Reconcile, PrepareRecovery, Fail
  <2>2. mem'.asked = mem.asked
    BY <1>1, <1>4 DEF MergePassed, StartWave, EndWave, MergeIntent, NoteMerge, CheckpointWave,
       SettleBlocked, CheckpointTasks, FinalChecks, Decide, SettleFailure, CleanTrees, CleanBranches,
       ReconcileMerges, RefuseResume, Reconcile, PrepareRecovery, Run, Set, SetRun, Checkpoint
  <2>3. ~ mem'.asked
    BY <2>1, <2>2, AskedAtRest
  <2> QED
    BY <2>1, <2>3, SavedUnasked
<1>5. CASE RequestApproval
  <2>1. flow = "approve" /\ log' = log /\ disk' = [mem EXCEPT !.status = "awaiting-human", !.asked = TRUE]
    BY <1>5 DEF RequestApproval, SetRun
  <2>2. disk'.asked /\ disk'.checked = mem.checked
    BY <1>1, <2>1 DEF Run
  <2>3. mem.checked = Len(log)
    BY <2>1 DEF IInv, OfferBacked
  <2>4. ~ disk.asked
    BY <2>1, AskedAtRest
  <2> QED
    BY <2>1, <2>2, <2>3, <2>4, AskOffers
<1>6. CASE Restart
  <2> DEFINE restored == disk.stage = "local-gates-passed" /\ disk.head = Len(log) /\ ~ dirty
  <2>1. /\ flow = "down" /\ log' = log
        /\ \E status : disk' = [disk EXCEPT !.status = status, !.asked = disk.asked \/ restored]
    BY <1>6 DEF Restart, SetRun
  <2>2. disk'.asked = (disk.asked \/ restored) /\ disk'.checked = disk.checked
    <3> HIDE DEF restored
    <3> QED
      BY <1>1, <2>1 DEF Run
  <2>3. CASE disk.asked \/ ~ restored
    <3>1. disk'.asked = disk.asked
      BY <2>2, <2>3, AskedAtRest
    <3> QED
      BY <2>1, <2>2, <3>1, NeitherMergedNorAsked
  <2>4. CASE ~ disk.asked /\ restored
    <3>1. disk.checked = Len(log)
      BY <2>4 DEF IInv, OfferBacked, CopiesAgree, SameHeader
    <3> QED
      BY <2>1, <2>2, <2>4, <3>1, AskOffers
  <2> QED
    BY <2>3, <2>4
<1>7. CASE Resume \/ Abort \/ Crash \/ CleanIntegration \/ UNCHANGED vars
  <2>1. log' = log /\ disk' = disk
    BY <1>7 DEF Resume, Abort, Crash, CleanIntegration, vars
  <2> QED
    BY <2>1, NeitherMergedNorAsked
<1> QED
  BY <1>2, <1>3, <1>4, <1>5, <1>6, <1>7, Zenon DEF Next, FlowStep

(***************************************************************************)
(* The workflow, with its aborts, crashes, resumes and restarts, keeps the *)
(* promise about the integration branch.                                   *)
(***************************************************************************)
THEOREM WorkflowKeepsPromise == Spec => ImplementsPromise
<1>1. Init => Promise!Init
  BY DEF Init, Promise!Init
<1> QED
  BY <1>1, InitHolds, StepKeeps, PromiseStep, PTL DEF Spec, ImplementsPromise, Promise!Spec
=============================================================================
