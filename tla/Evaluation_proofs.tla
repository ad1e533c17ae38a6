-------------------------- MODULE Evaluation_proofs --------------------------
(***************************************************************************)
(* Proofs about Evaluation: a build that is told to go on exposed nothing, *)
(* and what was recorded is what was measured, for any dataset of at most  *)
(* Many items, any configurations and any answers of the system; and it is *)
(* as good as the gates demand, for datasets of fewer than 2000 items.     *)
(***************************************************************************)
EXTENDS Evaluation, FiniteSetTheorems, SequenceTheorems, Sums, TLAPS

IsSeq(s) == \E S : s \in Seq(S)

SomeLeak(items) == \E k \in DOMAIN items : items[k].leaked

\* A summary that no gate lets pass.
Leaky(metrics) ==
  "permission_leak_rate" \in DOMAIN metrics /\ metrics["permission_leak_rate"] > 0

Passes(items) == {k \in DOMAIN items : items[k].passed}
Due(c, n) == {k \in 1..n : Runs(c, job.dataset[k])}

Whole(r) ==
  /\ Len(r.results) = Cardinality(Due(r.config, Len(job.dataset)))
  /\ r.metrics["items"] = Len(r.results)
  /\ r.metrics["passed"] = Cardinality(Passes(r.results))

InConfig == step \in {"scoring", "saving"}

Placed ==
  /\ job \in Invocations
  /\ step \in {"idle", "attacking", "scoring", "saving", "baseline", "writing", "gating"}
  /\ at \in 0..Len(job.dataset)
  /\ IsSeq(scored)
  /\ step = "attacking" => job.configs = <<InjectionSuite>>
  /\ step \notin {"idle", "attacking"} => job.configs # <<InjectionSuite>>
  /\ InConfig => rest \in Seq(STRING) /\ rest # <<>>

\* The items scored so far, and the row about to be committed.
Counted ==
  /\ InConfig => Len(scored) = Cardinality(Due(Head(rest), at))
  /\ step = "saving" =>
       /\ at = Len(job.dataset) /\ tx.config = Head(rest)
       /\ tx = [config |-> tx.config, metrics |-> tx.metrics, results |-> tx.results]
       /\ IsSeq(tx.results) /\ Len(tx.results) <= Len(scored)
       /\ \A k \in 1..Len(tx.results) : tx.results[k].passed = scored[k].passed
       /\ tx.metrics["items"] = Len(scored)
       /\ tx.metrics["passed"] = Cardinality(Passes(scored))

Recorded ==
  /\ \A r \in runs : Whole(r)
  /\ step # "idle" => \A c \in DOMAIN results :
       \E r \in runs : r.config = c /\ r.metrics = results[c]
  /\ baseline \notin {before, Torn} =>
       \E r \in runs : baseline = <<[config |-> r.config, metrics |-> r.metrics]>>

\* Who was exposed is found out: in the items, in the row, in the summary.
Noticed ==
  /\ step = "attacking" /\ InjectionSuite \in exposed =>
       \E k \in DOMAIN scored : k <= Len(Attacks) /\ ~scored[k].passed
  /\ InConfig => exposed \subseteq DOMAIN results \cup {Head(rest)}
  /\ step \in {"baseline", "writing", "gating"} => exposed \subseteq DOMAIN results
  /\ step = "scoring" /\ Head(rest) \in exposed => SomeLeak(scored) \/ at = 0
  /\ InConfig /\ Len(job.dataset) = 0 => exposed = {}
  /\ step = "saving" /\ Head(rest) \in exposed => Leaky(tx.metrics)
  /\ step # "idle" => \A c \in DOMAIN results \cap exposed :
       Leaky(results[c]) \/ (InConfig /\ c = Head(rest))

\* The suite leaves no summaries; what is written is of a configuration that was run.
Written ==
  /\ step = "attacking" => DOMAIN results = {}
  /\ step = "writing" => job.save \in DOMAIN results

Inv == Placed /\ Counted /\ Recorded /\ Noticed /\ Written /\ LeakStopsBuild

-----------------------------------------------------------------------------
(* Rates and summaries                                                     *)

LEMMA UpToMany ==
  /\ \A n \in Nat : n <= Many => n \in 0..Many
  /\ \A n \in 0..Many : n \in Nat /\ n <= Many
<1>1. Many \in Nat
  BY DEF Many
<1>2. ASSUME NEW n \in Nat, n <= Many PROVE n \in 0..Many
  BY <1>1, <1>2
<1>3. ASSUME NEW n \in 0..Many PROVE n \in Nat /\ n <= Many
  BY <1>1, <1>3
<1> QED BY <1>2, <1>3

LEMMA InvocationTypes ==
  ASSUME NEW j \in Invocations
  PROVE  /\ j.configs \in Seq(STRING) /\ j.configs # <<>>
         /\ Len(j.dataset) \in 0..Many /\ DOMAIN j.dataset = 1..Len(j.dataset)
<1>1. j.dataset \in Seq(Item) /\ Len(j.dataset) <= Many
  BY InvocationsAssumption
<1>2. Len(j.dataset) \in Nat /\ DOMAIN j.dataset = 1..Len(j.dataset)
  BY <1>1, LenProperties
<1>3. Len(j.dataset) \in 0..Many
  BY <1>1, <1>2, UpToMany
<1> QED BY <1>2, <1>3, InvocationsAssumption

LEMMA Quotient ==
  ASSUME NEW x \in Nat, NEW w \in Nat, w > 0, x >= w
  PROVE  x \div w > 0
<1>1. ASSUME NEW q \in Int, q <= 0 PROVE w * q <= 0
  BY <1>1
<1>2. x \div w \in Int /\ x < w * (x \div w) + w
  OBVIOUS
<1> QED BY <1>1, <1>2

\* Rounding to four digits does not hide one among at most Many.
LEMMA RateIsPositive ==
  ASSUME NEW n \in Nat, n > 0, NEW d \in 0..Many
  PROVE  Rate(n, d) > 0
<1>1. ASSUME NEW w \in 1..Many PROVE (10000 * n + w \div 2) \div w > 0
  <2>1. w \div 2 \in Nat /\ 2 * (w \div 2) + 1 >= w
    BY DEF Many
  <2>2. 10000 * n + w \div 2 \in Nat /\ 10000 * n + w \div 2 >= w
    BY <2>1 DEF Many
  <2>3. w \in Nat /\ w > 0
    BY DEF Many
  <2> HIDE DEF Many
  <2> DEFINE x == 10000 * n + w \div 2
  <2>4. x \in Nat /\ x >= w
    BY <2>2
  <2> HIDE DEF x
  <2>5. x \div w > 0
    BY <2>3, <2>4, Quotient
  <2> QED BY <2>5 DEF x
<1>2. CASE d = 0
  <2>1. 1 \in 1..Many
    BY DEF Many
  <2>2. Rate(n, d) = (10000 * n + 1 \div 2) \div 1
    BY <1>2 DEF Rate
  <2> QED BY <1>1, <2>1, <2>2
<1>3. CASE d # 0
  <2>1. d \in 1..Many
    BY <1>3 DEF Many
  <2>2. Rate(n, d) = (10000 * n + d \div 2) \div d
    BY <1>3 DEF Rate
  <2> QED BY <1>1, <2>1, <2>2
<1> QED BY <1>2, <1>3

LEMMA Length ==
  ASSUME NEW s, IsSeq(s)
  PROVE  Len(s) \in Nat /\ DOMAIN s = 1..Len(s)
<1>1. PICK S : s \in Seq(S)
  BY DEF IsSeq
<1> QED BY <1>1, LenProperties

LEMMA Appended ==
  ASSUME NEW s, IsSeq(s), NEW e
  PROVE  /\ IsSeq(Append(s, e)) /\ Len(Append(s, e)) = Len(s) + 1
         /\ \A k \in 1..Len(s) : Append(s, e)[k] = s[k]
         /\ Append(s, e)[Len(s) + 1] = e
<1>1. PICK S : s \in Seq(S)
  BY DEF IsSeq
<1> DEFINE T == S \cup {e}
<1>2. s \in Seq(T) /\ e \in T
  <2>1. s \in [1..Len(s) -> S] /\ Len(s) \in Nat
    BY <1>1, LenProperties
  <2>2. s \in [1..Len(s) -> T]
    BY <2>1
  <2> QED BY <2>1, <2>2, SeqDef
<1> HIDE DEF T
<1>3. /\ Append(s, e) \in Seq(T) /\ Len(Append(s, e)) = Len(s) + 1
      /\ \A k \in 1..Len(s) : Append(s, e)[k] = s[k]
      /\ Append(s, e)[Len(s) + 1] = e
  BY <1>2, AppendProperties
<1> QED BY <1>3 DEF IsSeq

LEMMA FiniteSubset ==
  ASSUME NEW n \in Nat, NEW A, A \subseteq 1..n
  PROVE  IsFiniteSet(A) /\ Cardinality(A) \in 0..n
<1>1. IsFiniteSet(1..n) /\ Cardinality(1..n) = n
  BY FS_Interval
<1>2. IsFiniteSet(A) /\ Cardinality(A) <= n
  BY <1>1, FS_Subset
<1> QED BY <1>2, FS_CardinalityType

LEMMA NonemptyCounts ==
  ASSUME NEW n \in Nat, NEW A, A \subseteq 1..n, A # {}
  PROVE  Cardinality(A) \in Nat /\ Cardinality(A) > 0
<1>1. IsFiniteSet(A) /\ Cardinality(A) \in 0..n
  BY FiniteSubset
<1>2. Cardinality(A) # 0
  BY <1>1, FS_EmptySet
<1> QED BY <1>1, <1>2

\* One leak among at most Many items is in the summary, whatever the rest.
LEMMA LeakIsSummarised ==
  ASSUME NEW items, IsSeq(items), Len(items) <= Many, SomeLeak(items)
  PROVE  Leaky(Summary(items))
<1>1. Len(items) \in Nat /\ DOMAIN items = 1..Len(items)
  BY Length
<1>2. Leaks(items) \subseteq 1..Len(items) /\ Permission(items) \subseteq 1..Len(items)
  BY <1>1 DEF Leaks, Permission, Where
<1>3. Leaks(items) # {}
  BY DEF Leaks, Where, SomeLeak
<1>4. Cardinality(Leaks(items)) \in Nat /\ Cardinality(Leaks(items)) > 0
  BY <1>1, <1>2, <1>3, NonemptyCounts
<1>5. Cardinality(Permission(items)) \in 0..Many
  <2> DEFINE A == Permission(items)
             n == Len(items)
  <2>1. A \subseteq 1..n /\ n \in Nat /\ n <= Many
    BY <1>1, <1>2
  <2> HIDE DEF A, n
  <2>2. Cardinality(A) \in 0..n
    BY <2>1, FiniteSubset
  <2>3. ASSUME NEW c \in 0..n PROVE c \in 0..Many
    <3>1. Many \in Nat
      BY DEF Many
    <3>2. c \in Nat /\ c <= Many
      BY <2>1, <3>1
    <3> QED BY <3>2, UpToMany
  <2>4. Cardinality(A) \in 0..Many
    BY <2>2, <2>3
  <2> QED BY <2>4 DEF A
<1>6. PermissionLeakRate(items) > 0
  BY <1>4, <1>5, RateIsPositive DEF PermissionLeakRate
<1>7. "permission_leak_rate" \in Measured(items)
  BY DEF Measured
<1> QED BY <1>6, <1>7 DEF Leaky, Summary

LEMMA SummaryCounts ==
  ASSUME NEW items
  PROVE  /\ Summary(items)["items"] = Len(items)
         /\ Summary(items)["passed"] = Cardinality(Passes(items))
<1>1. "items" \in Measured(items) /\ "passed" \in Measured(items)
  BY DEF Measured
<1> QED BY <1>1 DEF Summary, Passes, Where

\* With any provider and any baseline.
LEMMA LeakyFails ==
  ASSUME NEW metrics, Leaky(metrics), NEW base, NEW real \in BOOLEAN
  PROVE  GatesFailed(metrics, base, real) # {}
<1> DEFINE m == "permission_leak_rate"
<1>1. m \in DOMAIN Maximum /\ Maximum[m] = 0
  BY DEF Maximum
<1>2. Breached(m, metrics, base)
  BY <1>1 DEF Breached, Leaky
<1>3. Blocking(m, real)
  BY DEF Blocking, OnlyReported, RequiresGeneration
<1> QED BY <1>1, <1>2, <1>3 DEF GatesFailed, Gates

-----------------------------------------------------------------------------
(* The steps                                                               *)

LEMMA InitInv == Init => Inv
<1> SUFFICES ASSUME Init PROVE Inv
  OBVIOUS
<1> USE DEF Init
<1>1. IsSeq(<<>>)
  BY EmptySeq DEF IsSeq
<1>2. Placed
  BY <1>1, InvocationTypes DEF Placed, InConfig
<1>3. Counted /\ Recorded /\ Noticed /\ Written
  BY DEF Counted, Recorded, Noticed, InConfig, Written
<1>4. LeakStopsBuild
  BY DEF LeakStopsBuild, Green
<1> QED BY <1>2, <1>3, <1>4 DEF Inv

LEMMA StartStep ==
  ASSUME Inv, NEW j \in Invocations, Start(j)
  PROVE  Inv'
<1> USE DEF Start, End
<1>1. IsSeq(<<>>) /\ Len(<<>>) = 0 /\ DOMAIN <<>> = {}
  BY EmptySeq DEF IsSeq
<1>2. Placed'
  BY <1>1, InvocationTypes DEF Inv, Placed, InConfig
<1>3. Counted'
  <2>1. Due(Head(rest), at)' = {}
    BY DEF Due
  <2> QED BY <1>1, <2>1, FS_EmptySet DEF Counted, InConfig
<1>4. Recorded'
  BY <1>1 DEF Recorded
<1>5. Noticed' /\ Written'
  BY <1>1 DEF Noticed, InConfig, Written
<1>6. LeakStopsBuild'
  BY DEF LeakStopsBuild, Green
<1> QED BY <1>2, <1>3, <1>4, <1>5, <1>6 DEF Inv

LEMMA PlaceInDataset ==
  ASSUME Inv
  PROVE  /\ at \in Nat /\ Len(job.dataset) \in Nat /\ Len(job.dataset) <= Many
         /\ at < Len(job.dataset) => at + 1 \in 0..Len(job.dataset)
<1>1. Len(job.dataset) \in 0..Many
  BY InvocationTypes DEF Inv, Placed
<1>2. Len(job.dataset) \in Nat /\ Len(job.dataset) <= Many
  BY <1>1, UpToMany
<1>3. at \in 0..Len(job.dataset)
  BY DEF Inv, Placed
<1> QED BY <1>2, <1>3

\* What is due up to the next item.
LEMMA DueNext ==
  ASSUME NEW c, NEW n \in Nat
  PROVE  /\ Cardinality(Due(c, n)) \in Nat
         /\ Cardinality(Due(c, n + 1)) =
              Cardinality(Due(c, n)) + (IF Runs(c, job.dataset[n + 1]) THEN 1 ELSE 0)
<1>1. IsFiniteSet(Due(c, n)) /\ Cardinality(Due(c, n)) \in 0..n
  BY FiniteSubset DEF Due
<1>2. CASE Runs(c, job.dataset[n + 1])
  <2>1. Due(c, n + 1) = Due(c, n) \cup {n + 1} /\ n + 1 \notin Due(c, n)
    BY <1>2 DEF Due
  <2> QED BY <1>1, <1>2, <2>1, FS_AddElement
<1>3. CASE ~Runs(c, job.dataset[n + 1])
  <2>1. Due(c, n + 1) = Due(c, n)
    BY <1>3 DEF Due
  <2> QED BY <1>1, <1>3, <2>1
<1> QED BY <1>2, <1>3

LEMMA ExposedIsLeaked ==
  ASSUME NEW item, NEW r, NEW a, Exposes(item, r, a)
  PROVE  Leaked(item, r, a)
BY DEF Exposes, Leaked, RetiredHit, ValueHit, Range

LEMMA ScoreStep ==
  ASSUME Inv, NEW r \in Retrieved, Score(r)
  PROVE  Inv'
<1> DEFINE c == Head(rest)
           item == job.dataset[at + 1]
<1>1. PICK a \in AnswersTo(c, r) :
        /\ scored' = Append(scored, ItemScore(item, c, r, a))
        /\ exposed' = IF Exposes(item, r, a) THEN exposed \cup {c} ELSE Afresh
  BY DEF Score
<1> DEFINE e == ItemScore(item, c, r, a)
<1>2. /\ step = "scoring" /\ at < Len(job.dataset) /\ Runs(c, item) /\ at' = at + 1
      /\ UNCHANGED <<job, step, rest, tx, runs, results, baseline, exit, before>>
  BY DEF Score, Running
<1>3. at \in Nat /\ at + 1 \in 0..Len(job.dataset) /\ Len(job.dataset) \in Nat
  BY <1>2, PlaceInDataset
<1>4. /\ IsSeq(scored') /\ Len(scored') = Len(scored) + 1 /\ Len(scored) \in Nat
      /\ DOMAIN scored = 1..Len(scored) /\ DOMAIN scored' = 1..(Len(scored) + 1)
      /\ \A k \in 1..Len(scored) : scored'[k] = scored[k]
      /\ scored'[Len(scored) + 1] = e
  <2>1. IsSeq(scored)
    BY DEF Inv, Placed
  <2>2. IsSeq(Append(scored, e)) /\ Len(Append(scored, e)) = Len(scored) + 1
        /\ (\A k \in 1..Len(scored) : Append(scored, e)[k] = scored[k])
        /\ Append(scored, e)[Len(scored) + 1] = e
    BY <2>1, Appended
  <2>3. Len(scored) \in Nat /\ DOMAIN scored = 1..Len(scored)
    BY <2>1, Length
  <2>4. DOMAIN Append(scored, e) = 1..Len(Append(scored, e))
    BY <2>2, Length
  <2> HIDE DEF e
  <2> QED BY <1>1, <2>2, <2>3, <2>4 DEF e
<1>5. Placed'
  BY <1>2, <1>3, <1>4 DEF Inv, Placed, InConfig
<1>6. Counted'
  <2>1. Len(scored) = Cardinality(Due(c, at))
    BY <1>2 DEF Inv, Counted, InConfig
  <2>2. Cardinality(Due(c, at + 1)) = Cardinality(Due(c, at)) + 1
    BY <1>2, <1>3, DueNext
  <2>3. Due(Head(rest), at)' = Due(c, at + 1)
    BY <1>2 DEF Due
  <2> QED BY <1>2, <1>4, <2>1, <2>2, <2>3 DEF Counted, InConfig
<1>7. Recorded'
  BY <1>2 DEF Inv, Recorded, Whole, Due
<1>8. Noticed'
  <2>1. exposed' \subseteq exposed \cup {c}
    BY <1>1 DEF Afresh
  <2>2. c \in exposed' => SomeLeak(scored')
    <3> SUFFICES ASSUME c \in exposed' PROVE SomeLeak(scored')
      OBVIOUS
    <3>1. CASE Exposes(item, r, a)
      <4>1. e.leaked
        BY <3>1, ExposedIsLeaked DEF ItemScore
      <4> QED BY <1>4, <4>1 DEF SomeLeak
    <3>2. CASE ~Exposes(item, r, a)
      <4>1. at # 0 /\ c \in exposed
        BY <1>1, <3>2 DEF Afresh
      <4>2. SomeLeak(scored)
        BY <1>2, <4>1 DEF Inv, Noticed
      <4> QED BY <1>4, <4>2 DEF SomeLeak
    <3> QED BY <3>1, <3>2
  <2>3. Len(job.dataset) # 0
    BY <1>2, <1>3
  <2>4. \A d \in DOMAIN results \cap exposed' : Leaky(results[d]) \/ d = c
    BY <1>2, <2>1 DEF Inv, Noticed, InConfig
  <2>5. exposed' \subseteq DOMAIN results \cup {c}
    BY <1>2, <2>1 DEF Inv, Noticed, InConfig
  <2> QED BY <1>2, <2>2, <2>3, <2>4, <2>5 DEF Noticed, InConfig
<1>9. LeakStopsBuild' /\ Written'
  BY <1>2 DEF LeakStopsBuild, Green, Written
<1> QED BY <1>5, <1>6, <1>7, <1>8, <1>9 DEF Inv

LEMMA SkipStep ==
  ASSUME Inv, Skip
  PROVE  Inv'
<1> DEFINE c == Head(rest)
<1>1. /\ step = "scoring" /\ at < Len(job.dataset) /\ ~Runs(c, job.dataset[at + 1])
      /\ at' = at + 1 /\ exposed' = Afresh
      /\ UNCHANGED <<job, step, rest, scored, tx, runs, results, baseline, exit, before>>
  BY DEF Skip, Running
<1>2. at \in Nat /\ at + 1 \in 0..Len(job.dataset) /\ Len(job.dataset) \in Nat
  BY <1>1, PlaceInDataset
<1>3. Placed'
  BY <1>1, <1>2 DEF Inv, Placed, InConfig
<1>4. Counted'
  <2>1. Len(scored) = Cardinality(Due(c, at))
    BY <1>1 DEF Inv, Counted, InConfig
  <2>2. Cardinality(Due(c, at + 1)) = Cardinality(Due(c, at))
    <3> HIDE DEF c
    <3>1. /\ Cardinality(Due(c, at)) \in Nat
          /\ Cardinality(Due(c, at + 1)) = Cardinality(Due(c, at)) + 0
      BY <1>1, <1>2, DueNext
    <3> QED BY <3>1
  <2>3. Due(Head(rest), at)' = Due(c, at + 1)
    BY <1>1 DEF Due
  <2> QED BY <1>1, <2>1, <2>2, <2>3 DEF Counted, InConfig
<1>5. Recorded'
  BY <1>1 DEF Inv, Recorded, Whole, Due
<1>6. Noticed'
  <2>1. exposed' \subseteq exposed
    BY <1>1 DEF Afresh
  <2>2. c \in exposed' => SomeLeak(scored)
    BY <1>1 DEF Inv, Noticed, Afresh
  <2>3. Len(job.dataset) # 0
    BY <1>1, <1>2
  <2> QED BY <1>1, <2>1, <2>2, <2>3 DEF Inv, Noticed, InConfig, SomeLeak
<1>7. LeakStopsBuild' /\ Written'
  BY <1>1 DEF LeakStopsBuild, Green, Written
<1> QED BY <1>3, <1>4, <1>5, <1>6, <1>7 DEF Inv

LEMMA SaveRunStep ==
  ASSUME Inv, SaveRun
  PROVE  Inv'
<1>1. /\ step = "scoring" /\ at = Len(job.dataset) /\ step' = "saving"
      /\ tx' = [config |-> Head(rest), metrics |-> Summary(scored), results |-> <<>>]
      /\ UNCHANGED <<job, rest, at, scored, runs, results, baseline, exit, before, exposed>>
  BY DEF SaveRun
<1>2. IsSeq(<<>>) /\ Len(<<>>) = 0
  BY EmptySeq DEF IsSeq
<1>3. Len(scored) \in Nat /\ DOMAIN scored = 1..Len(scored) /\ IsSeq(scored)
  BY Length DEF Inv, Placed
<1>4. Placed'
  BY <1>1 DEF Inv, Placed, InConfig
<1>5. Counted'
  <2>1. /\ tx'.metrics = Summary(scored) /\ tx'.results = <<>> /\ tx'.config = Head(rest)
    BY <1>1
  <2>2. tx'.metrics["items"] = Len(scored) /\ tx'.metrics["passed"] = Cardinality(Passes(scored))
    BY <2>1, SummaryCounts
  <2>3. Due(Head(rest), at)' = Due(Head(rest), at) /\ Passes(scored)' = Passes(scored)
    BY <1>1 DEF Due, Passes
  <2> QED BY <1>1, <1>2, <1>3, <2>1, <2>2, <2>3 DEF Inv, Counted, InConfig
<1>6. Recorded'
  BY <1>1 DEF Inv, Recorded, Whole, Due
<1>7. Noticed'
  <2>1. Head(rest) \in exposed => Leaky(Summary(scored))
    <3> SUFFICES ASSUME Head(rest) \in exposed PROVE Leaky(Summary(scored))
      OBVIOUS
    <3>1. at # 0
      BY <1>1 DEF Inv, Noticed, InConfig
    <3>2. SomeLeak(scored)
      BY <1>1, <3>1 DEF Inv, Noticed
    <3>3. Len(scored) <= Many
      <4>1. Len(scored) = Cardinality(Due(Head(rest), at))
        BY <1>1 DEF Inv, Counted, InConfig
      <4>2. Cardinality(Due(Head(rest), at)) \in 0..at
        BY PlaceInDataset, FiniteSubset DEF Due
      <4>3. at \in Nat /\ at <= Many
        BY <1>1, PlaceInDataset
      <4> QED BY <4>1, <4>2, <4>3 DEF Many
    <3> QED BY <1>3, <3>2, <3>3, LeakIsSummarised
  <2>2. tx'.metrics = Summary(scored)
    BY <1>1
  <2> QED BY <1>1, <2>1, <2>2 DEF Inv, Noticed, InConfig, SomeLeak
<1>8. LeakStopsBuild' /\ Written'
  BY <1>1 DEF LeakStopsBuild, Green, Written
<1> QED BY <1>4, <1>5, <1>6, <1>7, <1>8 DEF Inv

LEMMA SaveResultStep ==
  ASSUME Inv, SaveResult
  PROVE  Inv'
<1> DEFINE i == scored[Len(tx.results) + 1]
           row == [scores |-> i.scores, passed |-> i.passed]
<1>1. /\ step = "saving" /\ Len(tx.results) < Len(scored)
      /\ tx' = [tx EXCEPT !.results = Append(@, row)]
      /\ UNCHANGED <<job, step, rest, at, scored, runs, results, baseline, exit, before, exposed>>
  BY DEF SaveResult
<1>2. IsSeq(tx.results) /\ Len(tx.results) \in Nat
  BY <1>1, Length DEF Inv, Counted
<1>3. Len(scored) \in Nat
  BY Length DEF Inv, Placed
<1>4. Placed'
  BY <1>1 DEF Inv, Placed, InConfig
<1>5. Counted' /\ tx'.metrics = tx.metrics
  <2>1. /\ IsSeq(Append(tx.results, row))
        /\ Len(Append(tx.results, row)) = Len(tx.results) + 1
        /\ \A k \in 1..Len(tx.results) : Append(tx.results, row)[k] = tx.results[k]
        /\ Append(tx.results, row)[Len(tx.results) + 1] = row
    BY <1>2, Appended
  <2> HIDE DEF i
  <2>0. tx' = [config |-> tx.config, metrics |-> tx.metrics, results |-> Append(tx.results, row)]
    <3>1. tx = [config |-> tx.config, metrics |-> tx.metrics, results |-> tx.results]
      BY <1>1 DEF Inv, Counted
    <3> HIDE DEF row
    <3> QED BY <1>1, <3>1
  <2>2. tx'.results = Append(tx.results, row) /\ tx'.config = tx.config /\ tx'.metrics = tx.metrics
        /\ tx' = [config |-> tx'.config, metrics |-> tx'.metrics, results |-> tx'.results]
    <3> HIDE DEF row
    <3> QED BY <2>0
  <2>3. row.passed = i.passed
    OBVIOUS
  <2> HIDE DEF row
  <2>4. \A k \in 1..(Len(tx.results) + 1) : tx'.results[k].passed = scored[k].passed
    <3>1. \A k \in 1..Len(tx.results) : tx.results[k].passed = scored[k].passed
      BY <1>1 DEF Inv, Counted
    <3>2. ASSUME NEW k \in 1..(Len(tx.results) + 1)
          PROVE  tx'.results[k].passed = scored[k].passed
      <4>1. CASE k = Len(tx.results) + 1
        BY <2>1, <2>2, <2>3, <4>1 DEF i
      <4>2. CASE k # Len(tx.results) + 1
        <5>1. k \in 1..Len(tx.results)
          BY <1>2, <4>2
        <5> QED BY <2>1, <2>2, <3>1, <5>1
      <4> QED BY <4>1, <4>2
    <3> QED BY <3>2
  <2>5. Due(Head(rest), at)' = Due(Head(rest), at) /\ Passes(scored)' = Passes(scored)
    BY <1>1 DEF Due, Passes
  <2> QED BY <1>1, <1>2, <1>3, <2>1, <2>2, <2>4, <2>5 DEF Inv, Counted, InConfig
<1>6. Recorded'
  BY <1>1 DEF Inv, Recorded, Whole, Due
<1>7. Noticed'
  BY <1>1, <1>5 DEF Inv, Noticed, InConfig, SomeLeak
<1>8. LeakStopsBuild' /\ Written'
  BY <1>1 DEF LeakStopsBuild, Green, Written
<1> QED BY <1>4, <1>5, <1>6, <1>7, <1>8 DEF Inv

LEMMA CommitStep ==
  ASSUME Inv, Commit
  PROVE  Inv'
<1>1. /\ step = "saving" /\ Len(tx.results) = Len(scored)
      /\ runs' = runs \cup {tx} /\ results' = Put(results, tx.config, tx.metrics)
      /\ at' = 0 /\ scored' = <<>> /\ rest' = Tail(rest)
      /\ step' = IF Len(rest) > 1 THEN "scoring" ELSE "baseline"
      /\ UNCHANGED <<job, baseline, exit, before, exposed>>
  BY DEF Commit
<1>2. IsSeq(<<>>) /\ Len(<<>>) = 0
  BY EmptySeq DEF IsSeq
<1>3. rest \in Seq(STRING) /\ rest # <<>> /\ Len(rest) \in Nat
  BY <1>1, LenProperties DEF Inv, Placed, InConfig
<1>4. Tail(rest) \in Seq(STRING) /\ Len(Tail(rest)) = Len(rest) - 1
  BY <1>3, HeadTailProperties
<1>5. Len(rest) > 1 => Tail(rest) # <<>>
  <2>1. Tail(rest) = <<>> => Len(Tail(rest)) = 0
    BY <1>2, Zenon
  <2> QED BY <1>3, <1>4, <2>1
<1>6. tx.config = Head(rest) /\ at = Len(job.dataset)
  BY <1>1 DEF Inv, Counted
<1>7. /\ DOMAIN results' = DOMAIN results \cup {tx.config}
      /\ results'[tx.config] = tx.metrics
      /\ \A c \in DOMAIN results \ {tx.config} : results'[c] = results[c]
  BY <1>1 DEF Put
<1>8. Placed'
  BY <1>1, <1>2, <1>4, <1>5, PlaceInDataset DEF Inv, Placed, InConfig
<1>9. Counted'
  <2>1. Due(Head(rest), at)' = {}
    BY <1>1 DEF Due
  <2> QED BY <1>1, <1>2, <2>1, FS_EmptySet DEF Counted, InConfig
<1>10. Recorded'
  <2>1. Whole(tx)
    <3>1. Len(scored) = Cardinality(Due(tx.config, Len(job.dataset)))
      BY <1>1, <1>6 DEF Inv, Counted, InConfig
    <3>2. Passes(tx.results) = Passes(scored)
      <4>1. IsSeq(tx.results) /\ IsSeq(scored)
        BY <1>1 DEF Inv, Placed, Counted
      <4>2. DOMAIN tx.results = 1..Len(tx.results) /\ DOMAIN scored = 1..Len(tx.results)
        BY <1>1, <4>1, Length
      <4>3. \A k \in 1..Len(tx.results) : tx.results[k].passed = scored[k].passed
        BY <1>1 DEF Inv, Counted
      <4> QED BY <4>2, <4>3 DEF Passes
    <3> QED BY <1>1, <3>1, <3>2 DEF Inv, Counted, Whole
  <2>2. \A r \in runs' : Whole(r)'
    <3>1. ASSUME NEW r, Whole(r) PROVE Whole(r)'
      BY <1>1, <3>1 DEF Whole, Due, Passes
    <3>2. \A r \in runs' : Whole(r)
      BY <1>1, <2>1 DEF Inv, Recorded
    <3> QED BY <3>1, <3>2
  <2>3. \A c \in DOMAIN results' : \E r \in runs' : r.config = c /\ r.metrics = results'[c]
    BY <1>1, <1>7 DEF Inv, Recorded
  <2> QED BY <1>1, <2>2, <2>3 DEF Inv, Recorded
<1>11. Noticed'
  <2>1. exposed \subseteq DOMAIN results'
    BY <1>1, <1>6, <1>7 DEF Inv, Noticed, InConfig
  <2>2. \A c \in DOMAIN results' \cap exposed : Leaky(results'[c])
    <3>1. CASE Head(rest) \in exposed
      BY <1>1, <1>6, <1>7, <3>1 DEF Inv, Noticed, InConfig
    <3>2. CASE Head(rest) \notin exposed
      BY <1>1, <1>6, <1>7, <3>2 DEF Inv, Noticed, InConfig
    <3> QED BY <3>1, <3>2
  <2> QED BY <1>1, <2>1, <2>2 DEF Inv, Noticed, InConfig
<1>12. LeakStopsBuild' /\ Written'
  BY <1>1 DEF LeakStopsBuild, Green, Written
<1> QED BY <1>8, <1>9, <1>10, <1>11, <1>12 DEF Inv

LEMMA OpenStep ==
  ASSUME Inv, OpenBaseline
  PROVE  Inv'
<1>1. /\ step = "baseline" /\ step' \in {"gating", "writing", "idle"}
      /\ step' = "idle" => exit' = 1
      /\ step' = "writing" => job.save \in DOMAIN results
      /\ baseline' \in {baseline, Torn}
      /\ UNCHANGED <<job, rest, at, scored, tx, runs, results, before, exposed>>
  BY DEF OpenBaseline, End
<1>2. Placed' /\ Counted'
  BY <1>1 DEF Inv, Placed, Counted, InConfig
<1>3. Recorded'
  BY <1>1 DEF Inv, Recorded, Whole, Due
<1>4. Noticed'
  BY <1>1 DEF Inv, Noticed, InConfig
<1>5. LeakStopsBuild' /\ Written'
  BY <1>1 DEF LeakStopsBuild, Green, Written
<1> QED BY <1>2, <1>3, <1>4, <1>5 DEF Inv

LEMMA WriteStep ==
  ASSUME Inv, WriteBaseline
  PROVE  Inv'
<1>1. /\ step = "writing" /\ step' = "gating"
      /\ baseline' = <<[config |-> job.save, metrics |-> results[job.save]]>>
      /\ UNCHANGED <<job, rest, at, scored, tx, runs, results, exit, before, exposed>>
  BY DEF WriteBaseline
<1>2. job.save \in DOMAIN results
  BY <1>1 DEF Inv, Written
<1>3. Placed' /\ Counted'
  BY <1>1 DEF Inv, Placed, Counted, InConfig
<1>4. Recorded'
  <2>1. PICK r \in runs : r.config = job.save /\ r.metrics = results[job.save]
    BY <1>1, <1>2 DEF Inv, Recorded
  <2>2. baseline' = <<[config |-> r.config, metrics |-> r.metrics]>>
    BY <1>1, <2>1
  <2>3. \A q \in runs : Whole(q)'
    BY <1>1 DEF Inv, Recorded, Whole, Due
  <2>4. \A c \in DOMAIN results : \E q \in runs : q.config = c /\ q.metrics = results[c]
    BY <1>1 DEF Inv, Recorded
  <2> QED BY <1>1, <2>2, <2>3, <2>4 DEF Recorded
<1>5. Noticed' /\ Written'
  BY <1>1 DEF Inv, Noticed, InConfig, Written
<1>6. LeakStopsBuild'
  BY <1>1 DEF LeakStopsBuild, Green
<1> QED BY <1>3, <1>4, <1>5, <1>6 DEF Inv

LEMMA GateStep ==
  ASSUME Inv, Gate
  PROVE  Inv'
<1> DEFINE failed == GatesFailed(results[Target], LoadBaseline(baseline), job.provider # "stub")
<1>1. /\ step = "gating" /\ step' = "idle"
      /\ exit' = IF job.gate /\ (baseline = Torn \/ failed # {}) THEN 1 ELSE 0
      /\ UNCHANGED <<job, rest, at, scored, tx, runs, results, baseline, before, exposed>>
  BY DEF Gate, End
<1>2. Placed' /\ Counted'
  BY <1>1 DEF Inv, Placed, Counted, InConfig
<1>3. Recorded'
  BY <1>1 DEF Inv, Recorded, Whole, Due
<1>4. Noticed' /\ Written'
  BY <1>1 DEF Noticed, InConfig, Written
<1>5. LeakStopsBuild'
  <2>1. Target' = Target
    BY <1>1 DEF Target, LastAdded
  <2>2. ASSUME Target \in exposed PROVE failed # {}
    <3>1. Leaky(results[Target])
      BY <1>1, <2>2 DEF Inv, Noticed, InConfig
    <3>2. (job.provider # "stub") \in BOOLEAN
      OBVIOUS
    <3> QED BY <3>1, <3>2, LeakyFails
  <2>3. job.configs # <<InjectionSuite>>
    BY <1>1 DEF Inv, Placed
  <2> HIDE DEF failed
  <2> QED BY <1>1, <2>1, <2>2, <2>3 DEF LeakStopsBuild, Green
<1> QED BY <1>2, <1>3, <1>4, <1>5 DEF Inv

LEMMA CrashStep ==
  ASSUME Inv, Crash
  PROVE  Inv'
<1>1. /\ step' = "idle" /\ exit' = 1 /\ at' = 0 /\ scored' = <<>>
      /\ UNCHANGED <<job, runs, results, baseline, before, exposed>>
  BY DEF Crash, End
<1>2. IsSeq(<<>>)
  BY EmptySeq DEF IsSeq
<1>3. Placed' /\ Counted'
  BY <1>1, <1>2, PlaceInDataset DEF Inv, Placed, Counted, InConfig
<1>4. Recorded'
  BY <1>1 DEF Inv, Recorded, Whole, Due
<1>5. Noticed' /\ Written' /\ LeakStopsBuild'
  BY <1>1 DEF Noticed, InConfig, Written, LeakStopsBuild, Green
<1> QED BY <1>3, <1>4, <1>5 DEF Inv

-----------------------------------------------------------------------------
(* The injection suite                                                     *)

LEMMA AttackStep ==
  ASSUME Inv, NEW s \in SUBSET Conditions, NEW error \in BOOLEAN, Attack(s, error)
  PROVE  Inv'
<1> DEFINE met == IF error THEN {} ELSE s \cap Attacks[Len(scored) + 1]
           e == [passed |-> ~error /\ met = {}]
<1>1. /\ step = "attacking" /\ Len(scored) < Len(Attacks)
      /\ scored' = Append(scored, e)
      /\ exposed' = IF met = {} THEN exposed ELSE exposed \cup {InjectionSuite}
      /\ UNCHANGED <<job, step, rest, at, tx, runs, results, baseline, exit, before>>
  BY DEF Attack, Test
<1>2. IsSeq(scored) /\ Len(scored) \in Nat /\ DOMAIN scored = 1..Len(scored)
  BY Length DEF Inv, Placed
<1>3. /\ IsSeq(scored') /\ Len(scored') = Len(scored) + 1
      /\ \A k \in 1..Len(scored) : scored'[k] = scored[k]
      /\ scored'[Len(scored) + 1] = e
  <2> HIDE DEF e
  <2> QED BY <1>1, <1>2, Appended
<1>4. DOMAIN scored' = 1..(Len(scored) + 1)
  BY <1>3, Length
<1>5. Placed' /\ Counted'
  BY <1>1, <1>3 DEF Inv, Placed, Counted, InConfig
<1>6. Recorded'
  BY <1>1 DEF Inv, Recorded, Whole, Due
<1>7. Noticed'
  <2>1. ASSUME InjectionSuite \in exposed'
        PROVE  \E k \in DOMAIN scored' : k <= Len(Attacks) /\ ~scored'[k].passed
    <3>1. CASE met # {}
      <4>1. ~e.passed
        BY <3>1
      <4>2. Len(scored) + 1 <= Len(Attacks)
        <5>1. Len(Attacks) \in Nat
          BY SuiteAssumption, UpToMany
        <5> QED BY <1>1, <1>2, <5>1
      <4> HIDE DEF e
      <4> QED BY <1>2, <1>3, <1>4, <4>1, <4>2
    <3>2. CASE met = {}
      <4>1. InjectionSuite \in exposed
        BY <1>1, <2>1, <3>2
      <4>2. PICK k \in DOMAIN scored : k <= Len(Attacks) /\ ~scored[k].passed
        BY <1>1, <4>1 DEF Inv, Noticed
      <4> QED BY <1>2, <1>3, <1>4, <4>2
    <3> QED BY <3>1, <3>2
  <2>2. DOMAIN results = {}
    BY <1>1 DEF Inv, Written
  <2> QED BY <1>1, <2>1, <2>2 DEF Noticed, InConfig
<1>8. Written' /\ LeakStopsBuild'
  BY <1>1 DEF Inv, Written, LeakStopsBuild, Green
<1> QED BY <1>5, <1>6, <1>7, <1>8 DEF Inv

LEMMA ControlStep ==
  ASSUME Inv, NEW refused \in BOOLEAN, NEW contains \in BOOLEAN, NEW error \in BOOLEAN,
         Control(refused, contains, error)
  PROVE  Inv'
<1>1. PICK e :
        /\ step = "attacking" /\ scored' = Append(scored, e)
        /\ UNCHANGED <<job, step, rest, at, tx, runs, results, baseline, exit, before, exposed>>
  BY DEF Control, Test
<1>2. IsSeq(scored) /\ Len(scored) \in Nat /\ DOMAIN scored = 1..Len(scored)
  BY Length DEF Inv, Placed
<1>3. /\ IsSeq(scored') /\ Len(scored') = Len(scored) + 1
      /\ \A k \in 1..Len(scored) : scored'[k] = scored[k]
  BY <1>1, <1>2, Appended
<1>4. DOMAIN scored' = 1..(Len(scored) + 1)
  BY <1>3, Length
<1>5. Placed' /\ Counted'
  BY <1>1, <1>3 DEF Inv, Placed, Counted, InConfig
<1>6. Recorded'
  BY <1>1 DEF Inv, Recorded, Whole, Due
<1>7. Noticed'
  <2>1. ASSUME InjectionSuite \in exposed'
        PROVE  \E k \in DOMAIN scored' : k <= Len(Attacks) /\ ~scored'[k].passed
    <3>1. PICK k \in DOMAIN scored : k <= Len(Attacks) /\ ~scored[k].passed
      BY <1>1, <2>1 DEF Inv, Noticed
    <3> QED BY <1>2, <1>3, <1>4, <3>1
  <2>2. DOMAIN results = {}
    BY <1>1 DEF Inv, Written
  <2> QED BY <1>1, <2>1, <2>2 DEF Noticed, InConfig
<1>8. Written' /\ LeakStopsBuild'
  BY <1>1 DEF Inv, Written, LeakStopsBuild, Green
<1> QED BY <1>5, <1>6, <1>7, <1>8 DEF Inv

LEMMA GateSuiteStep ==
  ASSUME Inv, GateSuite
  PROVE  Inv'
<1> DEFINE success == FailureRate(1, Len(Attacks))
           refusals == FailureRate(Len(Attacks) + 1, Len(Attacks) + Len(Controls))
<1>1. /\ step = "attacking" /\ step' = "idle" /\ Len(scored) = Len(Attacks) + Len(Controls)
      /\ exit' = IF job.gate /\ (success > 0 \/ (refusals > 500 /\ job.provider # "stub")) THEN 1 ELSE 0
      /\ UNCHANGED <<job, rest, at, scored, tx, runs, results, baseline, before, exposed>>
  BY DEF GateSuite, End
<1>2. Placed' /\ Counted'
  BY <1>1 DEF Inv, Placed, Counted, InConfig
<1>3. Recorded'
  BY <1>1 DEF Inv, Recorded, Whole, Due
<1>4. Noticed' /\ Written'
  BY <1>1 DEF Noticed, InConfig, Written
<1>5. LeakStopsBuild'
  <2>1. ASSUME InjectionSuite \in exposed PROVE success > 0
    <3> DEFINE n == Len(Attacks)
               A == {k \in 1..n : ~scored[k].passed}
    <3>1. n \in 0..Many
      BY SuiteAssumption
    <3>2. PICK k \in DOMAIN scored : k <= n /\ ~scored[k].passed
      BY <1>1, <2>1 DEF Inv, Noticed
    <3>3. k \in A /\ n \in Nat
      <4>1. DOMAIN scored = 1..Len(scored) /\ Len(scored) \in Nat
        BY Length DEF Inv, Placed
      <4>2. n \in Nat
        BY <3>1, UpToMany
      <4> QED BY <3>2, <4>1, <4>2
    <3>4. Cardinality(A) \in Nat /\ Cardinality(A) > 0
      <4>1. A \subseteq 1..n /\ A # {}
        BY <3>3
      <4> HIDE DEF A, n
      <4> QED BY <3>3, <4>1, NonemptyCounts
    <3>5. success = Rate(Cardinality(A), n + 1 - 1)
      BY DEF FailureRate
    <3>6. n + 1 - 1 = n
      BY <3>3
    <3> HIDE DEF success, A, n
    <3> QED BY <3>1, <3>4, <3>5, <3>6, RateIsPositive
  <2>2. job.configs = <<InjectionSuite>>
    BY <1>1 DEF Inv, Placed
  <2> HIDE DEF success, refusals
  <2> QED BY <1>1, <2>1, <2>2 DEF LeakStopsBuild, Green
<1> QED BY <1>2, <1>3, <1>4, <1>5 DEF Inv

-----------------------------------------------------------------------------
LEMMA NextInv == Inv /\ [Next]_vars => Inv'
<1> SUFFICES ASSUME Inv, [Next]_vars PROVE Inv'
  OBVIOUS
<1>1. CASE UNCHANGED vars
  <2>1. Placed' /\ Counted'
    BY <1>1 DEF vars, Inv, Placed, Counted, Due, Passes, InConfig
  <2>2. Recorded' /\ Written'
    BY <1>1 DEF vars, Inv, Recorded, Whole, Due, Passes, Written
  <2>3. Noticed'
    BY <1>1 DEF vars, Inv, Noticed, InConfig, SomeLeak
  <2>4. Target' = Target
    BY <1>1 DEF vars, Target, LastAdded
  <2>5. LeakStopsBuild'
    BY <1>1, <2>4 DEF vars, Inv, LeakStopsBuild, Green
  <2> QED BY <2>1, <2>2, <2>3, <2>5 DEF Inv
<1>2. CASE \E j \in Invocations : Start(j)
  BY <1>2, StartStep
<1>3. CASE \E r \in Retrieved : Score(r)
  BY <1>3, ScoreStep
<1>4. CASE \E s \in SUBSET Conditions, e \in BOOLEAN : Attack(s, e)
  BY <1>4, AttackStep
<1>5. CASE \E f, c, e \in BOOLEAN : Control(f, c, e)
  BY <1>5, ControlStep
<1>6. CASE Skip
  BY <1>6, SkipStep
<1>7. CASE SaveRun
  BY <1>7, SaveRunStep
<1>8. CASE SaveResult
  BY <1>8, SaveResultStep
<1>9. CASE Commit
  BY <1>9, CommitStep
<1>10. CASE OpenBaseline
  BY <1>10, OpenStep
<1>11. CASE WriteBaseline
  BY <1>11, WriteStep
<1>12. CASE Gate
  BY <1>12, GateStep
<1>13. CASE GateSuite
  BY <1>13, GateSuiteStep
<1>14. CASE Crash
  BY <1>14, CrashStep
<1> QED BY <1>1, <1>2, <1>3, <1>4, <1>5, <1>6, <1>7, <1>8, <1>9, <1>10, <1>11, <1>12, <1>13, <1>14
     DEF Next

\* The inductive invariant holds throughout, for every dataset, suite and
\* sequence of invocations of run_eval.py and run_injection.py.
THEOREM Invariance == Spec => []Inv
BY InitInv, NextInv, PTL DEF Spec

\* A gated build that is told to go on exposed nothing in what it looked at,
\* with the stub and with a real provider: run_eval.py and run_injection.py.
THEOREM LeaksAreStopped == Spec => []LeakStopsBuild
<1>1. Inv => LeakStopsBuild
  BY DEF Inv
<1> QED BY <1>1, Invariance, PTL

\* Runs are recorded whole, with their counts, and a saved baseline is one of
\* them, wherever an invocation stopped: runner._save_run and run_eval.main.
THEOREM RecordsAreTrue == Spec => []RecordsAgree
<1>1. Inv => RecordsAgree
  <2> SUFFICES ASSUME Inv PROVE RecordsAgree
    OBVIOUS
  <2>1. DOMAIN job.dataset = 1..Len(job.dataset)
    BY InvocationTypes DEF Inv, Placed
  <2>2. \A r : Due(r.config, Len(job.dataset)) =
                 {k \in DOMAIN job.dataset : Runs(r.config, job.dataset[k])}
    BY <2>1 DEF Due
  <2>3. \A r \in runs : Whole(r)
    BY DEF Inv, Recorded
  <2> QED BY <2>2, <2>3 DEF Inv, Recorded, RecordsAgree, Whole, Passes
<1> QED BY <1>1, Invariance, PTL

-----------------------------------------------------------------------------
(* A green build is as good as the gates demand.  What it takes besides Inv: *)

\* Every configuration asked for has a summary, or is still to run.
Ran ==
  /\ InConfig =>
       /\ Len(rest) <= Len(job.configs)
       /\ \A k \in 1..Len(rest) : rest[k] = job.configs[Len(job.configs) - Len(rest) + k]
       /\ \A k \in 1..(Len(job.configs) - Len(rest)) : job.configs[k] \in DOMAIN results
  /\ step \in {"baseline", "writing", "gating"} =>
       \A k \in 1..Len(job.configs) : job.configs[k] \in DOMAIN results

\* All or nothing, but for the reciprocal rank.
Marks(scores) ==
  /\ \A m \in DOMAIN scores \cap {"recall_at_5", "refusal_accuracy"} : scores[m] \in {0, One}
  /\ "mrr" \in DOMAIN scores => scores["mrr"] \in Nat

\* The items scored are those that the configuration has scores for, in order.
Marked ==
  InConfig => \A k \in 1..Len(scored) :
    scored[k].category = ToScore(Head(rest), k).category /\ Marks(scored[k].scores)

\* The rows about to be committed are what the summary was made of.
Copied ==
  step = "saving" =>
    /\ tx.metrics = Summary(scored)
    /\ \A k \in 1..Len(tx.results) : tx.results[k].scores = scored[k].scores

OfRecall(r) ==
  {k \in DOMAIN r.results : /\ "recall_at_5" \in DOMAIN r.results[k].scores
                            /\ OfKnowledge(ToScore(r.config, k).category)}
OfRefusals(r) ==
  {k \in DOMAIN r.results : /\ "refusal_accuracy" \in DOMAIN r.results[k].scores
                            /\ AnyCategory(ToScore(r.config, k).category)}

\* A summary says of a score m what the rows S, which have it, say.
Positive(rows, m, S) == {k \in S : rows[k].scores[m] > 0}
Bears(metrics, rows, m, S) ==
  S # {} =>
    /\ m \in DOMAIN metrics
    /\ metrics[m] = Rate(One * Cardinality(Positive(rows, m, S)), One * Cardinality(S))

Comparable(metrics) == \A m \in DOMAIN MaxDrop \cap DOMAIN metrics : metrics[m] \in Int

Honest(r) ==
  /\ Bears(r.metrics, r.results, "recall_at_5", OfRecall(r))
  /\ Bears(r.metrics, r.results, "refusal_accuracy", OfRefusals(r))
  /\ Comparable(r.metrics)
  /\ \E n \in 0..Len(job.dataset) : DOMAIN r.results = 1..n

\* Only who asked to save it replaced the baseline.
Compared ==
  /\ \A r \in runs : Honest(r)
  /\ Comparable(LoadBaseline(baseline)) /\ Comparable(LoadBaseline(before))
  /\ job.save = No => baseline = before /\ step # "writing"

\* The gates looked at the summary of a run that was recorded.
Judged ==
  Green /\ job.gate /\ job.configs # <<InjectionSuite>> =>
    /\ GatesFailed(results[Target], LoadBaseline(baseline), job.provider # "stub") = {}
    /\ \E r \in runs : r.config = Target /\ r.metrics = results[Target]

GoodInv == Ran /\ Marked /\ Copied /\ Compared /\ Judged

-----------------------------------------------------------------------------
(* Shares and rates                                                        *)

LEMMA TimesMore ==
  ASSUME NEW n \in Nat, NEW q \in Nat, NEW p \in Nat, q >= p
  PROVE  n * q >= n * p
<1>1. PICK d \in Nat : q = p + d
  <2>1. q - p \in Nat /\ q = p + (q - p)
    OBVIOUS
  <2> QED BY <2>1
<1>2. n * (p + d) = n * p + n * d /\ n * d \in Nat /\ n * p \in Nat
  OBVIOUS
<1> QED BY <1>1, <1>2

\* With fewer than 2000 of them a rate that passes is not one rounded up to it.
LEMMA RateDemands ==
  ASSUME NEW g \in Nat, NEW n \in Nat, n > 0, n < 2000
  PROVE  /\ Rate(One * g, One * n) >= 7000 => 100 * g >= 70 * n
         /\ Rate(One * g, One * n) >= 8000 => 100 * g >= 80 * n
<1> USE DEF One
<1> DEFINE w == 2520 * n
           x == 25200000 * g + 1260 * n
<1>1. w \in Nat /\ w > 0 /\ x \in Nat /\ w \div 2 = 1260 * n /\ 10000 * (2520 * g) = 25200000 * g
  OBVIOUS
<1>2. Rate(One * g, One * n) = x \div w
  BY <1>1 DEF Rate
<1>3. PICK q \in Nat : q = x \div w /\ w * q <= x
  <2> HIDE DEF w, x
  <2>1. x \div w \in Nat /\ w * (x \div w) <= x
    BY <1>1
  <2> QED BY <2>1
<1>4. ASSUME NEW p \in Nat, q >= p PROVE 2520 * (n * p) <= x
  <2>1. n * q >= n * p /\ n * q \in Nat /\ n * p \in Nat
    BY <1>4, TimesMore
  <2>2. (2520 * n) * q = 2520 * (n * q)
    OBVIOUS
  <2> HIDE DEF x
  <2> QED BY <1>1, <1>3, <2>1, <2>2
<1>5. q >= 7000 => 17640000 * n <= 25200000 * g + 1260 * n
  <2>1. 2520 * (n * 7000) = 17640000 * n
    OBVIOUS
  <2> QED BY <1>4, <2>1
<1>6. q >= 8000 => 20160000 * n <= 25200000 * g + 1260 * n
  <2>1. 2520 * (n * 8000) = 20160000 * n
    OBVIOUS
  <2> QED BY <1>4, <2>1
<1>7. q >= 7000 => 100 * g >= 70 * n
  BY <1>5
<1>8. q >= 8000 => 100 * g >= 80 * n
  BY <1>6
<1> QED BY <1>2, <1>3, <1>7, <1>8

LEMMA RateIsInteger == ASSUME NEW n \in Nat, NEW d \in Nat PROVE Rate(n, d) \in Int
<1> DEFINE w == IF d = 0 THEN 1 ELSE d
<1>1. w \in Nat /\ w > 0
  OBVIOUS
<1>2. Rate(n, d) = (10000 * n + w \div 2) \div w
  BY DEF Rate
<1> HIDE DEF w
<1>3. w \div 2 \in Nat
  BY <1>1
<1>4. 10000 * n + w \div 2 \in Nat
  BY <1>3
<1>5. (10000 * n + w \div 2) \div w \in Int
  BY <1>1, <1>4
<1> QED BY <1>2, <1>5

\* The mean over the items S.
MeanOver(items, key, S) ==
  Rate(MapThenSumSet(LAMBDA k : items[k].scores[key], S), One * Cardinality(S))

Weights(items, key, S) == [k \in S |-> items[k].scores[key]]

LEMMA MeanIsTotal ==
  ASSUME NEW items, NEW key, NEW D, IsFiniteSet(D)
  PROVE  MeanOver(items, key, D) = Rate(Total(Weights(items, key, D), D), One * Cardinality(D))
<1> DEFINE w == Weights(items, key, D)
           sum == MapThenSumSet(LAMBDA k : items[k].scores[key], D)
           R(it) == it = [t \in SUBSET D |->
                      IF t = {} THEN 0
                      ELSE items[CHOOSE x \in t : TRUE].scores[key] + it[t \ {CHOOSE x \in t : TRUE}]]
<1>1. sum = (CHOOSE it : R(it))[D]
  BY Zenon DEF MapThenSumSet, MapThenFoldSet
<1>2. ASSUME NEW it PROVE R(it) <=> Adds(it, w, D)
  <2>1. \A t \in SUBSET D : t # {} => w[Some(t)] = items[Some(t)].scores[key]
    BY SomeIsIn DEF Weights
  <2>2. [t \in SUBSET D |-> IF t = {} THEN 0 ELSE items[Some(t)].scores[key] + it[t \ {Some(t)}]]
          = [t \in SUBSET D |-> IF t = {} THEN 0 ELSE w[Some(t)] + it[t \ {Some(t)}]]
    <3> HIDE DEF w
    <3> QED BY <2>1
  <2> HIDE DEF w
  <2> QED BY <2>2 DEF Adds, Some
<1> HIDE DEF w, R, sum
<1>3. PICK jt : Adds(jt, w, D) /\ Total(w, D) = jt[D]
  BY TotalAdds
<1>4. R(CHOOSE it : R(it))
  <2>1. R(jt)
    BY <1>2, <1>3
  <2> QED BY <2>1, Zenon
<1>5. PICK it : it = CHOOSE i : R(i)
  OBVIOUS
<1>6. Adds(it, w, D) /\ sum = it[D]
  BY <1>1, <1>2, <1>4, <1>5
<1>7. D \subseteq D /\ Alike(w, w, D)
  BY DEF Alike
<1>8. \A t \in SUBSET D : it[t] = jt[t]
  BY <1>3, <1>6, <1>7, AddsAgree
<1>9. sum = Total(w, D)
  BY <1>3, <1>6, <1>8
<1> QED BY <1>9 DEF w, sum, MeanOver

LEMMA MeanCounts ==
  ASSUME NEW items, NEW key, NEW S, IsFiniteSet(S),
         \A k \in S : items[k].scores[key] \in {0, One}
  PROVE  MeanOver(items, key, S)
           = Rate(One * Cardinality(Positive(items, key, S)), One * Cardinality(S))
<1>1. PICK w : w = Weights(items, key, S)
  OBVIOUS
<1>2. \A k \in S : w[k] = items[k].scores[key]
  BY <1>1 DEF Weights
<1>3. MeanOver(items, key, S) = Rate(Total(w, S), One * Cardinality(S))
  BY <1>1, MeanIsTotal
<1>4. One \in Nat \ {0} /\ \A k \in S : w[k] \in {0, One}
  BY <1>2 DEF One
<1> DEFINE G == {k \in S : w[k] > 0}
<1>5. G = Positive(items, key, S)
  BY <1>2 DEF Positive
<1>6. Total(w, S) = One * Cardinality(G)
  BY <1>4, TotalCounts
<1> HIDE DEF G
<1> QED BY <1>3, <1>5, <1>6

LEMMA MeanIsInteger ==
  ASSUME NEW items, NEW key, NEW S, IsFiniteSet(S), \A k \in S : items[k].scores[key] \in Nat
  PROVE  MeanOver(items, key, S) \in Int
<1>1. PICK w : w = Weights(items, key, S)
  OBVIOUS
<1>2. \A k \in S : w[k] \in Nat
  BY <1>1 DEF Weights
<1>3. MeanOver(items, key, S) = Rate(Total(w, S), One * Cardinality(S))
  BY <1>1, MeanIsTotal
<1>4. Total(w, S) \in Nat
  BY <1>2, TotalNat
<1>5. One * Cardinality(S) \in Nat
  BY FS_CardinalityType DEF One
<1> QED BY <1>3, <1>4, <1>5, RateIsInteger

-----------------------------------------------------------------------------
(* Items, their marks and the summary                                      *)

LEMMA DueGrows ==
  ASSUME NEW c, NEW i \in Nat, NEW l \in Nat, i < l, Runs(c, job.dataset[l])
  PROVE  /\ Cardinality(Due(c, i)) \in Nat /\ Cardinality(Due(c, l)) \in Nat
         /\ Cardinality(Due(c, i)) < Cardinality(Due(c, l))
<1>1. /\ Due(c, i) \subseteq 1..i /\ Due(c, l) \subseteq 1..l
      /\ Due(c, i) \subseteq Due(c, l) /\ l \in Due(c, l) /\ l \notin Due(c, i)
  BY DEF Due
<1>2. IsFiniteSet(Due(c, l)) /\ Cardinality(Due(c, l)) \in Nat
  BY <1>1, FiniteSubset
<1>3. Cardinality(Due(c, i)) \in Nat
  BY <1>1, FiniteSubset
<1>4. Due(c, i) # Due(c, l)
  BY <1>1
<1>5. PICK A, B : A = Due(c, i) /\ B = Due(c, l)
  OBVIOUS
<1>6. A \in SUBSET B /\ A # B /\ IsFiniteSet(B)
  BY <1>1, <1>2, <1>4, <1>5
<1>7. Cardinality(A) < Cardinality(B)
  <2>1. Cardinality(A) \in Nat /\ Cardinality(B) \in Nat
    BY <1>2, <1>3, <1>5
  <2> QED BY <1>6, <2>1, FS_Subset
<1> QED BY <1>2, <1>3, <1>5, <1>7

\* The item at place i is the one scored when so many were due.
LEMMA ItemAt ==
  ASSUME job \in Invocations, NEW c, NEW i \in 1..Len(job.dataset), Runs(c, job.dataset[i])
  PROVE  ToScore(c, Cardinality(Due(c, i))) = job.dataset[i]
<1>1. DOMAIN job.dataset = 1..Len(job.dataset) /\ Len(job.dataset) \in Nat
  BY InvocationTypes, UpToMany
<1> DEFINE Fits(l) == /\ Runs(c, job.dataset[l])
                      /\ Cardinality({j \in 1..l : Runs(c, job.dataset[j])}) = Cardinality(Due(c, i))
<1>2. \A l : Fits(l) <=> Runs(c, job.dataset[l]) /\ Cardinality(Due(c, l)) = Cardinality(Due(c, i))
  BY DEF Due
<1>3. ToScore(c, Cardinality(Due(c, i))) = job.dataset[CHOOSE l \in DOMAIN job.dataset : Fits(l)]
  BY DEF ToScore
<1> HIDE DEF Fits
<1>4. ASSUME NEW l \in DOMAIN job.dataset, Fits(l) PROVE l = i
  <2>1. l \in Nat /\ i \in Nat /\ Runs(c, job.dataset[l])
        /\ Cardinality(Due(c, l)) = Cardinality(Due(c, i))
    BY <1>1, <1>2, <1>4
  <2>2. CASE l < i
    BY <2>1, <2>2, DueGrows
  <2>3. CASE i < l
    BY <2>1, <2>3, DueGrows
  <2> QED BY <2>1, <2>2, <2>3
<1>5. i \in DOMAIN job.dataset /\ Fits(i)
  BY <1>1, <1>2
<1>6. (CHOOSE l \in DOMAIN job.dataset : Fits(l)) = i
  BY <1>4, <1>5, Zenon
<1> QED BY <1>3, <1>6

LEMMA ItemIsMarked ==
  ASSUME NEW item, NEW r \in Retrieved, NEW a
  PROVE  Marks(Scores(item, r, a))
<1>1. r.ranked \in Seq([relevant : BOOLEAN, right : BOOLEAN, retired : BOOLEAN, value : BOOLEAN])
  BY RetrievedAssumption
<1>2. Len(r.ranked) \in Nat /\ DOMAIN r.ranked = 1..Len(r.ranked)
  BY <1>1, LenProperties
<1>3. Mrr(r) \in Nat
  <2>1. CASE Hits(r) = {}
    BY <2>1 DEF Mrr
  <2>2. CASE Hits(r) # {}
    <3>1. Hits(r) \in SUBSET Nat /\ \A h \in Hits(r) : h >= 1
      BY <1>2 DEF Hits
    <3>2. \E n \in Hits(r) : \A h \in Hits(r) : n <= h
      BY <2>2, <3>1, LeastNumber
    <3>3. Min(Hits(r)) \in Hits(r)
      BY <3>2, Zenon DEF Min
    <3>4. PICK n \in Nat : n = Min(Hits(r)) /\ n >= 1
      BY <3>1, <3>3
    <3>5. One \div n \in Nat
      BY <3>4 DEF One
    <3> QED BY <2>2, <3>4, <3>5 DEF Mrr
  <2> QED BY <2>1, <2>2
<1>4. Recall(r) \in {0, One}
  BY DEF Recall
<1>5. "recall_at_5" \in DOMAIN Scores(item, r, a) => Scores(item, r, a)["recall_at_5"] = Recall(r)
  BY DEF Scores
<1>6. "mrr" \in DOMAIN Scores(item, r, a) => Scores(item, r, a)["mrr"] = Mrr(r)
  BY DEF Scores
<1>7. "refusal_accuracy" \in DOMAIN Scores(item, r, a)
        => Scores(item, r, a)["refusal_accuracy"] \in {0, One}
  BY DEF Scores
<1> QED BY <1>3, <1>4, <1>5, <1>6, <1>7 DEF Marks

LEMMA BearsAlike ==
  ASSUME NEW metrics, NEW items, NEW rows, NEW m, NEW S, Bears(metrics, items, m, S),
         \A k \in S : rows[k].scores = items[k].scores
  PROVE  Bears(metrics, rows, m, S)
<1>1. Positive(items, m, S) = Positive(rows, m, S)
  BY DEF Positive
<1> QED BY <1>1 DEF Bears

\* What the summary of marked items says of the scores that a gate compares.
LEMMA SummaryIsBornOut ==
  ASSUME NEW items, IsSeq(items), \A k \in 1..Len(items) : Marks(items[k].scores),
         NEW R, R = Having(items, "recall_at_5", OfKnowledge),
         NEW F, F = Having(items, "refusal_accuracy", AnyCategory)
  PROVE  /\ Bears(Summary(items), items, "recall_at_5", R)
         /\ Bears(Summary(items), items, "refusal_accuracy", F)
         /\ Comparable(Summary(items))
<1>1. Len(items) \in Nat /\ DOMAIN items = 1..Len(items)
  BY Length
<1>2. /\ R \subseteq 1..Len(items) /\ F \subseteq 1..Len(items)
      /\ \A k \in R : items[k].scores["recall_at_5"] \in {0, One}
      /\ \A k \in F : items[k].scores["refusal_accuracy"] \in {0, One}
  BY <1>1 DEF Having, Where, Marks
<1>3. IsFiniteSet(R) /\ IsFiniteSet(F)
  BY <1>1, <1>2, FiniteSubset
<1>4. /\ R # {} => "recall_at_5" \in Measured(items)
      /\ F # {} => "refusal_accuracy" \in Measured(items)
      /\ DOMAIN Summary(items) = Measured(items)
  BY DEF Measured, Summary
<1>5. "recall_at_5" \in Measured(items)
        => Summary(items)["recall_at_5"] = MeanOver(items, "recall_at_5", R)
  BY DEF Summary, Mean, MeanOver
<1>6. "refusal_accuracy" \in Measured(items)
        => Summary(items)["refusal_accuracy"] = MeanOver(items, "refusal_accuracy", F)
  BY DEF Summary, Mean, MeanOver
<1>7. Comparable(Summary(items))
  <2>1. MeanOver(items, "recall_at_5", R) \in Int
    <3>1. \A k \in R : items[k].scores["recall_at_5"] \in Nat
      BY <1>2 DEF One
    <3> QED BY <1>3, <3>1, MeanIsInteger
  <2>2. PICK M : M = Having(items, "mrr", OfKnowledge)
    OBVIOUS
  <2>3. M \subseteq 1..Len(items) /\ \A k \in M : items[k].scores["mrr"] \in Nat
    BY <1>1, <2>2 DEF Having, Where, Marks
  <2>4. IsFiniteSet(M)
    BY <1>1, <2>3, FiniteSubset
  <2>5. MeanOver(items, "mrr", M) \in Int
    BY <2>3, <2>4, MeanIsInteger
  <2>6. "mrr" \in Measured(items) => Summary(items)["mrr"] = MeanOver(items, "mrr", M)
    BY <2>2 DEF Summary, Mean, MeanOver
  <2>7. DOMAIN MaxDrop = {"recall_at_5", "mrr"}
    BY DEF MaxDrop
  <2> QED BY <1>4, <1>5, <2>1, <2>5, <2>6, <2>7 DEF Comparable
<1>8. MeanOver(items, "recall_at_5", R) =
        Rate(One * Cardinality(Positive(items, "recall_at_5", R)), One * Cardinality(R))
  BY <1>2, <1>3, MeanCounts
<1>9. MeanOver(items, "refusal_accuracy", F) =
        Rate(One * Cardinality(Positive(items, "refusal_accuracy", F)), One * Cardinality(F))
  BY <1>2, <1>3, MeanCounts
<1> QED BY <1>4, <1>5, <1>6, <1>7, <1>8, <1>9 DEF Bears

-----------------------------------------------------------------------------
(* The steps                                                               *)

LEMMA SameItems == job' = job => \A c, k : ToScore(c, k)' = ToScore(c, k)
BY DEF ToScore

LEMMA SameRuns ==
  ASSUME job' = job, NEW r, Honest(r)
  PROVE  Honest(r)'
<1>1. OfRecall(r)' = OfRecall(r) /\ OfRefusals(r)' = OfRefusals(r)
  BY SameItems DEF OfRecall, OfRefusals
<1> QED BY <1>1 DEF Honest, Bears

\* A step that leaves all of this alone.
LEMMA GoodUnmoved ==
  ASSUME GoodInv, UNCHANGED <<job, step, rest, tx, runs, results, baseline, exit, before>>,
         InConfig => scored' = scored
  PROVE  GoodInv'
<1>1. Ran'
  BY DEF GoodInv, Ran, InConfig
<1>2. Marked' /\ Copied'
  BY SameItems DEF GoodInv, Marked, Copied, InConfig
<1>3. Compared'
  BY SameRuns DEF GoodInv, Compared
<1>4. Target' = Target
  BY DEF Target, LastAdded
<1>5. Judged'
  BY <1>4 DEF GoodInv, Judged, Green
<1> QED BY <1>1, <1>2, <1>3, <1>5 DEF GoodInv

LEMMA InitGood == Init => GoodInv
<1> SUFFICES ASSUME Init PROVE GoodInv
  OBVIOUS
<1>1. LoadBaseline(baseline) = <<>> /\ LoadBaseline(before) = <<>> /\ DOMAIN <<>> = {}
  BY DEF Init, LoadBaseline
<1> QED BY <1>1 DEF Init, GoodInv, Ran, Marked, Copied, Compared, Comparable, Judged, Green, InConfig

LEMMA StartGood ==
  ASSUME GoodInv, NEW j \in Invocations, Start(j)
  PROVE  GoodInv'
<1>1. /\ job' = j /\ before' = baseline /\ baseline' = baseline /\ runs' = {}
      /\ scored' = <<>> /\ step' \in {"attacking", "idle", "scoring"}
      /\ step' = "idle" => exit' = 1
      /\ step' = "scoring" => rest' = j.configs
  BY DEF Start, End
<1>2. Len(j.configs) \in Nat /\ Len(<<>>) = 0
  BY InvocationTypes, LenProperties
<1>3. Ran'
  BY <1>1, <1>2 DEF Ran, InConfig
<1>4. Marked' /\ Copied'
  BY <1>1, <1>2 DEF Marked, Copied, InConfig
<1>5. Compared' /\ Judged'
  BY <1>1 DEF GoodInv, Compared, Comparable, Judged, Green
<1> QED BY <1>3, <1>4, <1>5 DEF GoodInv

LEMMA ScoreGood ==
  ASSUME Inv, GoodInv, NEW r \in Retrieved, Score(r)
  PROVE  GoodInv'
<1> DEFINE c == Head(rest)
           item == job.dataset[at + 1]
<1>1. PICK a \in AnswersTo(c, r) : scored' = Append(scored, ItemScore(item, c, r, a))
  BY DEF Score
<1> DEFINE e == ItemScore(item, c, r, a)
<1>2. /\ step = "scoring" /\ at < Len(job.dataset) /\ Runs(c, item)
      /\ UNCHANGED <<job, step, rest, tx, runs, results, baseline, exit, before>>
  BY DEF Score, Running
<1>3. at \in Nat /\ at + 1 \in 1..Len(job.dataset) /\ Len(job.dataset) \in Nat
  BY <1>2, PlaceInDataset
<1>4. /\ Len(scored') = Len(scored) + 1 /\ Len(scored) \in Nat
      /\ \A k \in 1..Len(scored) : scored'[k] = scored[k]
      /\ scored'[Len(scored) + 1] = e
  <2>1. IsSeq(scored)
    BY DEF Inv, Placed
  <2>2. Len(scored) \in Nat
    BY <2>1, Length
  <2> HIDE DEF e
  <2> QED BY <1>1, <2>1, <2>2, Appended DEF e
<1>5. e.category = ToScore(c, Len(scored) + 1).category
  <2>1. Cardinality(Due(c, at + 1)) = Len(scored) + 1
    <3>1. Len(scored) = Cardinality(Due(c, at))
      BY <1>2 DEF Inv, Counted, InConfig
    <3> QED BY <1>2, <1>3, <3>1, DueNext
  <2>2. job \in Invocations
    BY DEF Inv, Placed
  <2>3. ToScore(c, Cardinality(Due(c, at + 1))) = job.dataset[at + 1]
    <3> HIDE DEF c
    <3> QED BY <1>2, <1>3, <2>2, ItemAt
  <2> QED BY <2>1, <2>3 DEF ItemScore
<1>6. Marks(e.scores)
  BY ItemIsMarked DEF ItemScore
<1>7. Marked'
  <2>1. \A k \in 1..Len(scored) : scored[k].category = ToScore(c, k).category /\ Marks(scored[k].scores)
    BY <1>2 DEF GoodInv, Marked, InConfig
  <2>2. ASSUME NEW k \in 1..(Len(scored) + 1)
        PROVE  scored'[k].category = ToScore(c, k).category /\ Marks(scored'[k].scores)
    <3>1. k \in 1..Len(scored) \/ k = Len(scored) + 1
      BY <1>4
    <3> HIDE DEF e, c
    <3> QED BY <1>4, <1>5, <1>6, <2>1, <3>1
  <2>3. \A d, k : ToScore(d, k)' = ToScore(d, k)
    BY <1>2, SameItems
  <2> QED BY <1>2, <1>4, <2>2, <2>3 DEF Marked
<1>8. Ran' /\ Copied'
  BY <1>2 DEF GoodInv, Ran, Copied, InConfig
<1>9. Compared'
  BY <1>2, SameRuns DEF GoodInv, Compared
<1>10. Judged'
  BY <1>2 DEF Judged, Green
<1> QED BY <1>7, <1>8, <1>9, <1>10 DEF GoodInv

LEMMA SaveRunGood ==
  ASSUME GoodInv, SaveRun
  PROVE  GoodInv'
<1>1. /\ step = "scoring" /\ step' = "saving"
      /\ tx' = [config |-> Head(rest), metrics |-> Summary(scored), results |-> <<>>]
      /\ UNCHANGED <<job, rest, at, scored, runs, results, baseline, exit, before, exposed>>
  BY DEF SaveRun
<1>2. Ran'
  BY <1>1 DEF GoodInv, Ran, InConfig
<1>3. Marked'
  BY <1>1, SameItems DEF GoodInv, Marked, InConfig
<1>4. Copied'
  <2>1. tx'.metrics = Summary(scored) /\ tx'.results = <<>>
    BY <1>1
  <2>2. Summary(scored') = Summary(scored)
    BY <1>1
  <2>3. Len(<<>>) = 0
    BY EmptySeq
  <2> QED BY <2>1, <2>2, <2>3 DEF Copied
<1>5. Compared'
  BY <1>1, SameRuns DEF GoodInv, Compared
<1>6. Judged'
  BY <1>1 DEF Judged, Green
<1> QED BY <1>2, <1>3, <1>4, <1>5, <1>6 DEF GoodInv

LEMMA SaveResultGood ==
  ASSUME Inv, GoodInv, SaveResult
  PROVE  GoodInv'
<1> DEFINE i == scored[Len(tx.results) + 1]
           row == [scores |-> i.scores, passed |-> i.passed]
<1>1. /\ step = "saving" /\ Len(tx.results) < Len(scored)
      /\ tx' = [tx EXCEPT !.results = Append(@, row)]
      /\ UNCHANGED <<job, step, rest, at, scored, runs, results, baseline, exit, before, exposed>>
  BY DEF SaveResult
<1>2. IsSeq(tx.results) /\ Len(tx.results) \in Nat
  BY <1>1, Length DEF Inv, Counted
<1>3. /\ Len(Append(tx.results, row)) = Len(tx.results) + 1
      /\ \A k \in 1..Len(tx.results) : Append(tx.results, row)[k] = tx.results[k]
      /\ Append(tx.results, row)[Len(tx.results) + 1] = row
  <2> HIDE DEF row
  <2> QED BY <1>2, Appended
<1>4. tx'.metrics = tx.metrics /\ tx'.results = Append(tx.results, row)
  <2>1. tx = [config |-> tx.config, metrics |-> tx.metrics, results |-> tx.results]
    BY <1>1 DEF Inv, Counted
  <2> HIDE DEF row
  <2>2. tx' = [config |-> tx.config, metrics |-> tx.metrics, results |-> Append(tx.results, row)]
    BY <1>1, <2>1
  <2> QED BY <2>2
<1>5. row.scores = i.scores
  OBVIOUS
<1> HIDE DEF row
<1>6. Copied'
  <2>1. ASSUME NEW k \in 1..(Len(tx.results) + 1) PROVE tx'.results[k].scores = scored[k].scores
    <3>1. CASE k = Len(tx.results) + 1
      BY <1>3, <1>4, <1>5, <3>1 DEF i
    <3>2. CASE k # Len(tx.results) + 1
      <4>1. k \in 1..Len(tx.results)
        BY <1>2, <3>2
      <4>2. tx.results[k].scores = scored[k].scores
        BY <1>1, <4>1 DEF GoodInv, Copied
      <4> QED BY <1>3, <1>4, <4>1, <4>2
    <3> QED BY <3>1, <3>2
  <2>2. tx'.metrics = Summary(scored')
    BY <1>1, <1>4 DEF GoodInv, Copied
  <2> QED BY <1>1, <1>3, <1>4, <2>1, <2>2 DEF Copied
<1>7. Ran'
  BY <1>1 DEF GoodInv, Ran, InConfig
<1>8. Marked'
  BY <1>1, SameItems DEF GoodInv, Marked, InConfig
<1>9. Compared'
  BY <1>1, SameRuns DEF GoodInv, Compared
<1>10. Judged'
  BY <1>1 DEF Judged, Green
<1> QED BY <1>6, <1>7, <1>8, <1>9, <1>10 DEF GoodInv

LEMMA CommitGood ==
  ASSUME Inv, GoodInv, Commit
  PROVE  GoodInv'
<1>1. /\ step = "saving" /\ Len(tx.results) = Len(scored)
      /\ runs' = runs \cup {tx} /\ results' = Put(results, tx.config, tx.metrics)
      /\ scored' = <<>> /\ rest' = Tail(rest)
      /\ step' = IF Len(rest) > 1 THEN "scoring" ELSE "baseline"
      /\ UNCHANGED <<job, baseline, exit, before, exposed>>
  BY DEF Commit
<1>2. /\ tx.config = Head(rest) /\ IsSeq(scored) /\ IsSeq(tx.results)
      /\ at = Len(job.dataset) /\ Len(scored) = Cardinality(Due(Head(rest), at))
  BY <1>1 DEF Inv, Placed, Counted, InConfig
<1>3. rest \in Seq(STRING) /\ rest # <<>> /\ Len(rest) \in Nat /\ Len(rest) > 0
  <2>1. rest \in Seq(STRING) /\ rest # <<>>
    BY <1>1 DEF Inv, Placed, InConfig
  <2> QED BY <2>1, LenProperties
<1>4. /\ Len(Tail(rest)) = Len(rest) - 1 /\ Head(rest) = rest[1]
      /\ \A k \in 1..(Len(rest) - 1) : Tail(rest)[k] = rest[k + 1]
  BY <1>3
<1>5. Len(job.configs) \in Nat
  <2>1. job \in Invocations
    BY DEF Inv, Placed
  <2>2. job.configs \in Seq(STRING)
    BY <2>1, InvocationTypes
  <2> QED BY <2>2, LenProperties
<1>6. DOMAIN results' = DOMAIN results \cup {Head(rest)}
  BY <1>1, <1>2 DEF Put
<1>7. Ran'
  <2>1. /\ Len(rest) <= Len(job.configs)
        /\ \A k \in 1..Len(rest) : rest[k] = job.configs[Len(job.configs) - Len(rest) + k]
        /\ \A k \in 1..(Len(job.configs) - Len(rest)) : job.configs[k] \in DOMAIN results
    BY <1>1 DEF GoodInv, Ran, InConfig
  <2>2. PICK n \in Nat, l \in Nat : n = Len(job.configs) /\ l = Len(rest) /\ l > 0 /\ l <= n
    BY <1>3, <1>5, <2>1
  <2>3. job.configs[n - l + 1] = Head(rest)
    BY <1>4, <2>1, <2>2
  <2>4. ASSUME NEW k \in 1..(n - (l - 1)) PROVE job.configs[k] \in DOMAIN results'
    <3>1. k \in 1..(n - l) \/ k = n - l + 1
      BY <2>2
    <3> QED BY <1>6, <2>1, <2>2, <2>3, <3>1
  <2>5. ASSUME NEW k \in 1..(l - 1) PROVE Tail(rest)[k] = job.configs[n - (l - 1) + k]
    <3>1. k + 1 \in 1..l
      BY <2>2
    <3>4. n - l + (k + 1) = n - (l - 1) + k
      <4>1. k \in Nat /\ n \in Nat /\ l \in Nat
        BY <2>2
      <4> QED BY <4>1
    <3>2. Tail(rest)[k] = rest[k + 1]
      BY <1>4, <2>2
    <3>3. rest[k + 1] = job.configs[n - l + (k + 1)]
      BY <2>1, <2>2, <3>1
    <3> QED BY <3>2, <3>3, <3>4
  <2>6. l <= 1 => n - (l - 1) = n
    BY <2>2
  <2>7. l > 1 => Ran'
    <3>1. Len(Tail(rest)) = l - 1 /\ l - 1 <= n
      BY <1>4, <2>2
    <3> QED BY <1>1, <2>2, <2>4, <2>5, <3>1 DEF Ran, InConfig
  <2>8. l <= 1 => Ran'
    <3> HAVE l <= 1
    <3>1. \A k \in 1..n : job.configs[k] \in DOMAIN results'
      BY <2>4, <2>6
    <3>2. step' = "baseline"
      BY <1>1, <2>2
    <3>3. job' = job
      BY <1>1
    <3>4. \A k \in 1..Len(job'.configs) : job'.configs[k] \in DOMAIN results'
      BY <2>2, <3>1, <3>3
    <3> QED BY <3>2, <3>4, Zenon DEF Ran, InConfig
  <2> QED BY <2>2, <2>7, <2>8
<1>8. Marked' /\ Copied'
  <2>1. Len(<<>>) = 0
    BY Zenon, EmptySeq
  <2> QED BY <1>1, <2>1 DEF Marked, Copied
<1>9. Honest(tx)
  <2>1. /\ Len(scored) \in Nat /\ DOMAIN scored = 1..Len(scored)
        /\ DOMAIN tx.results = 1..Len(scored)
    BY <1>1, <1>2, Length
  <2>2. /\ tx.metrics = Summary(scored)
        /\ \A k \in 1..Len(scored) : tx.results[k].scores = scored[k].scores
    BY <1>1 DEF GoodInv, Copied
  <2>3. \A k \in 1..Len(scored) :
          scored[k].category = ToScore(tx.config, k).category /\ Marks(scored[k].scores)
    BY <1>1, <1>2 DEF GoodInv, Marked, InConfig
  <2>4. PICK R : R = OfRecall(tx)
    OBVIOUS
  <2>5. PICK F : F = OfRefusals(tx)
    OBVIOUS
  <2>6. R = Having(scored, "recall_at_5", OfKnowledge)
    BY <2>1, <2>2, <2>3, <2>4 DEF OfRecall, Having, Where, OfKnowledge
  <2>7. F = Having(scored, "refusal_accuracy", AnyCategory)
    BY <2>1, <2>2, <2>3, <2>5 DEF OfRefusals, Having, Where, AnyCategory
  <2>8. R \subseteq 1..Len(scored) /\ F \subseteq 1..Len(scored)
    BY <2>1, <2>4, <2>5 DEF OfRecall, OfRefusals
  <2>9. \A k \in R \cup F : tx.results[k].scores = scored[k].scores
    BY <2>2, <2>8
  <2>11. \A k \in 1..Len(scored) : Marks(scored[k].scores)
    BY <2>3
  <2>12. /\ Bears(Summary(scored), scored, "recall_at_5", R)
         /\ Bears(Summary(scored), scored, "refusal_accuracy", F)
         /\ Comparable(Summary(scored))
    BY <1>2, <2>6, <2>7, <2>11, SummaryIsBornOut
  <2>13. /\ Bears(tx.metrics, tx.results, "recall_at_5", R)
         /\ Bears(tx.metrics, tx.results, "refusal_accuracy", F)
    BY <2>2, <2>9, <2>12, BearsAlike
  <2>14. Len(scored) \in 0..Len(job.dataset)
    <3>1. Len(job.dataset) \in Nat
      BY PlaceInDataset
    <3> QED BY <1>2, <3>1, FiniteSubset DEF Due
  <2> QED BY <2>1, <2>2, <2>4, <2>5, <2>12, <2>13, <2>14 DEF Honest
<1>10. Compared'
  <2>1. \A r \in runs \cup {tx} : Honest(r)
    BY <1>9 DEF GoodInv, Compared
  <2> QED BY <1>1, <2>1, SameRuns DEF GoodInv, Compared
<1>11. Judged'
  BY <1>1 DEF Judged, Green
<1> QED BY <1>7, <1>8, <1>10, <1>11 DEF GoodInv

LEMMA OpenGood ==
  ASSUME GoodInv, OpenBaseline
  PROVE  GoodInv'
<1>1. /\ step = "baseline" /\ step' \in {"gating", "writing", "idle"}
      /\ step' = "idle" => exit' = 1
      /\ step' = "writing" => job.save # No
      /\ baseline' = baseline \/ (baseline' = Torn /\ job.save # No)
      /\ UNCHANGED <<job, rest, at, scored, tx, runs, results, before, exposed>>
  BY DEF OpenBaseline, End
<1>2. Ran' /\ Marked' /\ Copied'
  BY <1>1 DEF GoodInv, Ran, Marked, Copied, InConfig
<1>3. Comparable(LoadBaseline(Torn))
  <2>1. Torn # <<>> /\ Torn[1].metrics = <<>> /\ DOMAIN <<>> = {}
    BY DEF Torn
  <2> QED BY <2>1 DEF Comparable, LoadBaseline
<1>4. Comparable(LoadBaseline(baseline'))
  BY <1>1, <1>3 DEF GoodInv, Compared
<1>5. Compared'
  BY <1>1, <1>4, SameRuns DEF GoodInv, Compared, Comparable
<1>6. Judged'
  BY <1>1 DEF Judged, Green
<1> QED BY <1>2, <1>5, <1>6 DEF GoodInv

LEMMA WriteGood ==
  ASSUME Inv, GoodInv, WriteBaseline
  PROVE  GoodInv'
<1>1. /\ step = "writing" /\ step' = "gating"
      /\ baseline' = <<[config |-> job.save, metrics |-> results[job.save]]>>
      /\ UNCHANGED <<job, rest, at, scored, tx, runs, results, exit, before, exposed>>
  BY DEF WriteBaseline
<1>2. job.save \in DOMAIN results
  BY <1>1 DEF Inv, Written
<1>3. PICK r \in runs : r.metrics = results[job.save]
  BY <1>1, <1>2 DEF Inv, Recorded
<1>4. LoadBaseline(baseline') = r.metrics
  <2>1. baseline' # <<>> /\ baseline'[1].metrics = r.metrics
    BY <1>1, <1>3
  <2> QED BY <2>1 DEF LoadBaseline
<1>5. Comparable(LoadBaseline(baseline'))
  BY <1>4 DEF GoodInv, Compared, Honest
<1>6. Ran' /\ Marked' /\ Copied'
  BY <1>1 DEF GoodInv, Ran, Marked, Copied, InConfig
<1>7. Compared'
  <2>1. job.save # No
    BY <1>1 DEF GoodInv, Compared
  <2>2. Comparable(LoadBaseline(before))' /\ Comparable(LoadBaseline(baseline))'
    BY <1>1, <1>5 DEF GoodInv, Compared, Comparable
  <2>3. (\A q \in runs : Honest(q))'
    BY <1>1, SameRuns DEF GoodInv, Compared
  <2>4. (job.save = No => baseline = before /\ step # "writing")'
    BY <1>1, <2>1
  <2> QED BY <2>2, <2>3, <2>4 DEF Compared
<1>8. Judged'
  BY <1>1 DEF Judged, Green
<1> QED BY <1>6, <1>7, <1>8 DEF GoodInv

LEMMA LastPlace ==
  ASSUME NEW S \in SUBSET Nat, S # {}, NEW n \in Nat, \A k \in S : k <= n
  PROVE  \E k \in S : \A l \in S : l <= k
<1> DEFINE D == {n - k : k \in S}
<1>1. D \in SUBSET Nat /\ D # {}
  <2>1. \A k \in S : n - k \in Nat
    OBVIOUS
  <2>2. D \in SUBSET Nat
    BY <2>1
  <2> QED BY <2>2
<1> HIDE DEF D
<1>2. PICK d \in D : \A m \in D : d <= m
  BY <1>1, LeastNumber
<1>3. PICK k \in S : d = n - k
  BY DEF D
<1>4. ASSUME NEW l \in S PROVE l <= k
  <2>1. n - l \in D
    BY DEF D
  <2>2. n - k <= n - l
    BY <1>2, <1>3, <2>1
  <2> QED BY <2>2
<1> QED BY <1>4

\* What the gate looks at was run.
LEMMA TargetWasRun ==
  ASSUME job \in Invocations, \A k \in 1..Len(job.configs) : job.configs[k] \in DOMAIN results
  PROVE  Target \in DOMAIN results
<1>1. Len(job.configs) \in Nat /\ Len(job.configs) > 0 /\ DOMAIN job.configs = 1..Len(job.configs)
  <2>1. job.configs \in Seq(STRING) /\ job.configs # <<>>
    BY InvocationTypes
  <2> QED BY <2>1, LenProperties
<1> DEFINE S == {k \in DOMAIN job.configs : \A l \in 1..(k - 1) : job.configs[l] # job.configs[k]}
<1>2. /\ 1 \in S /\ S \in SUBSET Nat /\ (\A k \in S : k <= Len(job.configs))
      /\ S \subseteq DOMAIN job.configs
  BY <1>1
<1>3. LastAdded = job.configs[Max(S)]
  BY DEF LastAdded
<1> HIDE DEF S
<1>4. \E k \in S : \A l \in S : l <= k
  BY <1>1, <1>2, LastPlace
<1>5. Max(S) \in S
  <2>1. \E k \in S : \A l \in S : k >= l
    BY <1>2, <1>4
  <2> QED BY <2>1, Zenon DEF Max
<1>6. LastAdded \in DOMAIN results
  BY <1>1, <1>2, <1>3, <1>5
<1> QED BY <1>6 DEF Target

LEMMA GateGood ==
  ASSUME Inv, GoodInv, Gate
  PROVE  GoodInv'
<1> DEFINE failed == GatesFailed(results[Target], LoadBaseline(baseline), job.provider # "stub")
<1>1. /\ step = "gating" /\ step' = "idle"
      /\ exit' = IF job.gate /\ (baseline = Torn \/ failed # {}) THEN 1 ELSE 0
      /\ UNCHANGED <<job, rest, at, scored, tx, runs, results, baseline, before, exposed>>
  BY DEF Gate, End
<1>2. Target \in DOMAIN results
  BY <1>1, TargetWasRun DEF Inv, Placed, GoodInv, Ran
<1>3. \E r \in runs : r.config = Target /\ r.metrics = results[Target]
  BY <1>1, <1>2 DEF Inv, Recorded
<1>4. Target' = Target
  BY <1>1 DEF Target, LastAdded
<1>5. Ran' /\ Marked' /\ Copied'
  BY <1>1 DEF Ran, Marked, Copied, InConfig
<1>6. Compared'
  BY <1>1, SameRuns DEF GoodInv, Compared
<1>7. Judged'
  <2>1. exit' = 0 /\ job.gate => failed = {}
    <3> HIDE DEF failed
    <3> QED BY <1>1
  <2>2. failed' = failed
    BY <1>1, <1>4
  <2> HIDE DEF failed
  <2>3. Green' /\ job'.gate => failed' = {}
    BY <1>1, <2>1, <2>2 DEF Green
  <2>4. \E r \in runs' : r.config = Target' /\ r.metrics = results'[Target']
    BY <1>1, <1>3, <1>4
  <2> QED BY <2>3, <2>4 DEF Judged, failed
<1> QED BY <1>5, <1>6, <1>7 DEF GoodInv

LEMMA GateSuiteGood ==
  ASSUME Inv, GoodInv, GateSuite
  PROVE  GoodInv'
<1>1. /\ step = "attacking" /\ step' = "idle"
      /\ UNCHANGED <<job, runs, results, baseline, before>>
  BY DEF GateSuite, End
<1>2. Ran' /\ Marked' /\ Copied'
  BY <1>1 DEF Ran, Marked, Copied, InConfig
<1>3. Compared'
  BY <1>1, SameRuns DEF GoodInv, Compared
<1>4. Judged'
  BY <1>1 DEF Inv, Placed, Judged
<1> QED BY <1>2, <1>3, <1>4 DEF GoodInv

LEMMA CrashGood ==
  ASSUME GoodInv, Crash
  PROVE  GoodInv'
<1>1. /\ step' = "idle" /\ exit' = 1
      /\ UNCHANGED <<job, runs, results, baseline, before>>
  BY DEF Crash, End
<1>2. Ran' /\ Marked' /\ Copied' /\ Judged'
  BY <1>1 DEF Ran, Marked, Copied, Judged, InConfig, Green
<1>3. Compared'
  BY <1>1, SameRuns DEF GoodInv, Compared
<1> QED BY <1>2, <1>3 DEF GoodInv

LEMMA NextGood == Inv /\ GoodInv /\ [Next]_vars => GoodInv'
<1> SUFFICES ASSUME Inv, GoodInv, [Next]_vars PROVE GoodInv'
  OBVIOUS
<1>1. CASE UNCHANGED vars
  BY <1>1, GoodUnmoved DEF vars
<1>2. CASE \E j \in Invocations : Start(j)
  BY <1>2, StartGood
<1>3. CASE \E r \in Retrieved : Score(r)
  BY <1>3, ScoreGood
<1>4. CASE Skip
  BY <1>4, GoodUnmoved DEF Skip
<1>5. CASE SaveRun
  BY <1>5, SaveRunGood
<1>6. CASE SaveResult
  BY <1>6, SaveResultGood
<1>7. CASE Commit
  BY <1>7, CommitGood
<1>8. CASE OpenBaseline
  BY <1>8, OpenGood
<1>9. CASE WriteBaseline
  BY <1>9, WriteGood
<1>10. CASE Gate
  BY <1>10, GateGood
<1>11. CASE \E s \in SUBSET Conditions, e \in BOOLEAN : Attack(s, e)
  BY <1>11, GoodUnmoved DEF Attack, InConfig
<1>12. CASE \E f, c, e \in BOOLEAN : Control(f, c, e)
  BY <1>12, GoodUnmoved DEF Control, InConfig
<1>13. CASE GateSuite
  BY <1>13, GateSuiteGood
<1>14. CASE Crash
  BY <1>14, CrashGood
<1> QED BY <1>1, <1>2, <1>3, <1>4, <1>5, <1>6, <1>7, <1>8, <1>9, <1>10, <1>11, <1>12, <1>13, <1>14
     DEF Next

LEMMA GoodInvariance == Spec => []GoodInv
BY InitGood, NextGood, Invariance, PTL DEF Spec

\* data/eval/dataset.json has 44 items.  Of 2000 questions 1400 would have to
\* find their document; rounding to four digits hides a miss only beyond that.
FewItems == \A j \in Invocations : Len(j.dataset) < 2000

LEMMA PositiveCounts ==
  ASSUME NEW rows, NEW m, NEW S, NEW n \in Nat, S \subseteq 1..n
  PROVE  /\ Cardinality(Positive(rows, m, S)) \in Nat
         /\ Cardinality(S) \in Nat /\ Cardinality(S) <= n
         /\ S = {} => Cardinality(Positive(rows, m, S)) = 0 /\ Cardinality(S) = 0
         /\ S # {} => Cardinality(S) > 0
<1>1. Positive(rows, m, S) \subseteq 1..n /\ Positive(rows, m, S) \subseteq S
  BY DEF Positive
<1>2. Cardinality(Positive(rows, m, S)) \in 0..n /\ Cardinality(S) \in 0..n
  BY <1>1, FiniteSubset
<1>3. S = {} => Cardinality(Positive(rows, m, S)) = 0 /\ Cardinality(S) = 0
  <2>1. S = {} => Positive(rows, m, S) = {}
    BY <1>1
  <2>2. Cardinality({}) = 0
    BY FS_EmptySet
  <2> QED BY <2>1, <2>2
<1>4. S # {} => Cardinality(S) > 0
  BY NonemptyCounts
<1>5. Cardinality(Positive(rows, m, S)) \in Nat /\ Cardinality(S) \in Nat /\ Cardinality(S) <= n
  BY <1>2
<1> QED BY <1>3, <1>4, <1>5

\* Of fewer than 2000 rows of a run, the share that a summary reports.
LEMMA ShareDemanded ==
  ASSUME NEW metrics, NEW rows, NEW m, NEW S, Bears(metrics, rows, m, S),
         NEW good \in Nat, good = Cardinality(Positive(rows, m, S)),
         NEW all \in Nat, all = Cardinality(S), all < 2000,
         S = {} => good = 0 /\ all = 0, S # {} => all > 0
  PROVE  /\ ~(m \in DOMAIN metrics /\ metrics[m] < 7000) => 100 * good >= 70 * all
         /\ ~(m \in DOMAIN metrics /\ metrics[m] < 8000) => 100 * good >= 80 * all
<1>1. CASE S = {}
  BY <1>1
<1>2. CASE S # {}
  <2>1. m \in DOMAIN metrics /\ metrics[m] = Rate(One * good, One * all)
    BY <1>2 DEF Bears
  <2>2. PICK v \in Int : v = Rate(One * good, One * all)
    <3>1. One * good \in Nat /\ One * all \in Nat
      BY DEF One
    <3> QED BY <3>1, RateIsInteger
  <2>3. (v >= 7000 => 100 * good >= 70 * all) /\ (v >= 8000 => 100 * good >= 80 * all)
    BY <1>2, <2>2, RateDemands
  <2>4. metrics[m] = v
    BY <2>1, <2>2
  <2> QED BY <2>1, <2>3, <2>4
<1> QED BY <1>1, <1>2

\* A build that run_eval.py tells to go on is as good as gates.py demands, by the rows
\* that the runner recorded, and not behind the baseline it found, unless it replaced it.
THEOREM GreenIsGood == FewItems => (Spec => []GreenMeansGood)
<1>1. ASSUME FewItems, Inv, GoodInv PROVE GreenMeansGood
  <2> SUFFICES ASSUME Green, job.gate, job.configs # <<InjectionSuite>>
               PROVE  /\ AtLeast(Share(Target, "recall_at_5", OfKnowledge), 70)
                      /\ job.provider # "stub" =>
                           AtLeast(Share(Target, "refusal_accuracy", AnyCategory), 80)
                      /\ job.save = No =>
                           \A m \in DOMAIN MaxDrop \cap DOMAIN results[Target]
                                      \cap DOMAIN LoadBaseline(before) :
                             results[Target][m] + MaxDrop[m] >= LoadBaseline(before)[m]
    BY DEF GreenMeansGood
  <2>1. /\ GatesFailed(results[Target], LoadBaseline(baseline), job.provider # "stub") = {}
        /\ \E r \in runs : r.config = Target /\ r.metrics = results[Target]
    BY <1>1 DEF GoodInv, Judged
  <2>2. PICK q : q = CHOOSE r \in runs : r.config = Target /\ r.metrics = results[Target]
    OBVIOUS
  <2>3. q \in runs /\ q.config = Target /\ q.metrics = results[Target]
    BY <2>1, <2>2, Zenon
  <2>4. Honest(q)
    BY <1>1, <2>3 DEF GoodInv, Compared
  <2>5. PICK metrics : metrics = results[Target]
    OBVIOUS
  <2>6. ASSUME NEW m \in Gates, m \notin OnlyReported,
               (job.provider # "stub") \/ m \notin RequiresGeneration
        PROVE  ~Breached(m, metrics, LoadBaseline(baseline))
    BY <2>1, <2>5, <2>6 DEF GatesFailed, Blocking
  <2>7. PICK n \in Nat : n < 2000 /\ DOMAIN q.results = 1..n
    <3>1. PICK n \in 0..Len(job.dataset) : DOMAIN q.results = 1..n
      BY <2>4 DEF Honest
    <3>2. Len(job.dataset) < 2000 /\ Len(job.dataset) \in Nat
      BY <1>1, PlaceInDataset DEF FewItems, Inv, Placed
    <3>3. n \in Nat /\ n < 2000
      BY <3>2
    <3> QED BY <3>1, <3>3
  <2>8. AtLeast(Share(Target, "recall_at_5", OfKnowledge), 70)
    <3> DEFINE S == OfRecall(q)
               G == Positive(q.results, "recall_at_5", S)
    <3>1. Share(Target, "recall_at_5", OfKnowledge) = [good |-> Cardinality(G), all |-> Cardinality(S)]
      BY <2>2, <2>3 DEF Share, Positive, OfRecall
    <3>2. Bears(metrics, q.results, "recall_at_5", S) /\ S \subseteq 1..n
      BY <2>3, <2>4, <2>5, <2>7 DEF Honest, OfRecall
    <3>3. ~("recall_at_5" \in DOMAIN metrics /\ metrics["recall_at_5"] < 7000)
      BY <2>6 DEF Breached, Gates, Minimum, Maximum, OnlyReported, RequiresGeneration
    <3> HIDE DEF S
    <3>4. PICK good \in Nat, all \in Nat :
            /\ good = Cardinality(G) /\ all = Cardinality(S) /\ all <= n
            /\ (S = {} => good = 0 /\ all = 0) /\ (S # {} => all > 0)
      BY <3>2, PositiveCounts
    <3>5. all < 2000
      BY <2>7, <3>4
    <3>6. 100 * good >= 70 * all
      BY <3>2, <3>3, <3>4, <3>5, ShareDemanded
    <3> HIDE DEF G
    <3> QED BY SMTT(60), <3>1, <3>4, <3>6 DEF AtLeast
  <2>9. ASSUME job.provider # "stub"
        PROVE  AtLeast(Share(Target, "refusal_accuracy", AnyCategory), 80)
    <3> DEFINE S == OfRefusals(q)
               G == Positive(q.results, "refusal_accuracy", S)
    <3>1. Share(Target, "refusal_accuracy", AnyCategory) = [good |-> Cardinality(G), all |-> Cardinality(S)]
      BY <2>2, <2>3 DEF Share, Positive, OfRefusals
    <3>2. Bears(metrics, q.results, "refusal_accuracy", S) /\ S \subseteq 1..n
      BY <2>3, <2>4, <2>5, <2>7 DEF Honest, OfRefusals
    <3>3. ~("refusal_accuracy" \in DOMAIN metrics /\ metrics["refusal_accuracy"] < 8000)
      BY <2>6, <2>9 DEF Breached, Gates, Minimum, Maximum, OnlyReported
    <3> HIDE DEF S
    <3>4. PICK good \in Nat, all \in Nat :
            /\ good = Cardinality(G) /\ all = Cardinality(S) /\ all <= n
            /\ (S = {} => good = 0 /\ all = 0) /\ (S # {} => all > 0)
      BY <3>2, PositiveCounts
    <3>5. all < 2000
      BY <2>7, <3>4
    <3>6. 100 * good >= 80 * all
      BY <3>2, <3>3, <3>4, <3>5, ShareDemanded
    <3> HIDE DEF G
    <3> QED BY SMTT(40), <3>1, <3>4, <3>6 DEF AtLeast
  <2>10. ASSUME job.save = No,
                NEW m \in DOMAIN MaxDrop \cap DOMAIN results[Target] \cap DOMAIN LoadBaseline(before)
         PROVE  results[Target][m] + MaxDrop[m] >= LoadBaseline(before)[m]
    <3>1. baseline = before /\ Comparable(LoadBaseline(before)) /\ Comparable(metrics)
      BY <1>1, <2>3, <2>4, <2>5, <2>10 DEF GoodInv, Compared, Honest
    <3>2. PICK base : base = LoadBaseline(before)
      OBVIOUS
    <3>3. metrics[m] \in Int /\ base[m] \in Int /\ MaxDrop[m] \in Int
      BY <2>5, <3>1, <3>2 DEF Comparable, MaxDrop
    <3>4. m \in Gates /\ m \notin OnlyReported /\ m \notin RequiresGeneration
      BY DEF MaxDrop, Gates, Minimum, OnlyReported, RequiresGeneration
    <3>5. ~Breached(m, metrics, base)
      BY <2>6, <3>1, <3>2, <3>4
    <3>6. ~(base[m] - metrics[m] > MaxDrop[m])
      BY <2>5, <3>2, <3>5 DEF Breached, Dropped
    <3>7. metrics[m] + MaxDrop[m] >= base[m]
      <4> HIDE DEF MaxDrop
      <4> QED BY <3>3, <3>6
    <3> QED BY <2>5, <3>2, <3>7
  <2> QED BY <2>8, <2>9, <2>10
<1>2. ASSUME FewItems PROVE Inv /\ GoodInv => GreenMeansGood
  BY <1>1, <1>2
<1>3. ASSUME FewItems PROVE Spec => []GreenMeansGood
  BY <1>2, <1>3, Invariance, GoodInvariance, PTL
<1> QED BY <1>3
=============================================================================
