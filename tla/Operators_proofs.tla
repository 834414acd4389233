--------------------------- MODULE Operators_proofs --------------------------
(***************************************************************************)
(* Facts about the operators the modules are built from, for all data: the *)
(* bench is a fold that takes one step after the other, and steps without  *)
(* an issue of the validator all run on it; the topological order is one,  *)
(* and the only one of its kind; the ends and the critical path computed   *)
(* along it add up; the comparison of two programs loses no step and       *)
(* invents no change; the analytics count what there is. Induction over a  *)
(* list goes through the set of positions where the claim holds (UpFrom),  *)
(* since the library's induction theorems take an operator.                *)
(***************************************************************************)
EXTENDS Reports, Validator, Bench, Scheduler,
        FiniteSetTheorems, SequenceTheorems, WellFoundedInduction, TLAPS

-----------------------------------------------------------------------------
(* Numbers                                                                 *)

\* A set of naturals that is not empty has a least element.
LEMMA Least ==
  ASSUME NEW S \in SUBSET Nat, S # {}
  PROVE  \E m \in S : \A k \in S : m <= k
<1>1. \E m \in S : \A k \in S : ~ (<<k, m>> \in OpToRel(<, Nat))
  BY NatLessThanWellFounded, WFMin
<1>2. PICK m \in S : \A k \in S : ~ (<<k, m>> \in OpToRel(<, Nat))
  BY <1>1
<1>3. \A k \in S : k \in Nat /\ m \in Nat /\ ~(k < m)
  BY <1>2 DEF OpToRel
<1> QED BY <1>3

\* One that is bounded has a greatest.
LEMMA Greatest ==
  ASSUME NEW N \in Nat, NEW S \in SUBSET (1..N), S # {}
  PROVE  \E m \in S : \A k \in S : k <= m
<1> DEFINE T == {n \in Nat : \E s \in S : n = N - s}
<1>1. T \in SUBSET Nat /\ T # {}
  <2>1. PICK s \in S : TRUE
    OBVIOUS
  <2>2. N - s \in T
    BY <2>1
  <2> QED BY <2>2
<1>2. PICK t \in T : \A u \in T : t <= u
  BY <1>1, Least
<1>3. PICK m \in S : t = N - m
  BY <1>2
<1>4. \A k \in S : N - k \in T
  OBVIOUS
<1>5. \A k \in S : N - m <= N - k
  BY <1>2, <1>3, <1>4
<1>6. \A k \in S : k <= m
  BY <1>5
<1> QED BY <1>6

\* which is what Max chooses.
LEMMA MaxIsGreatest ==
  ASSUME NEW n \in Nat, NEW S \in SUBSET (1 .. n), S # {}
  PROVE  Max(S) \in S /\ \A y \in S : Max(S) >= y
<1>1. PICK m \in S : \A k \in S : k <= m
  BY Greatest
<1>2. \A k \in S : m >= k
  BY <1>1
<1> QED BY <1>2 DEF Max

\* Induction over an interval, for the set of the numbers where the claim holds.
LEMMA UpFrom ==
  ASSUME NEW a \in Nat, NEW b \in Nat, NEW Good,
         a \in Good, \A i \in a .. (b - 1) : i \in Good => i + 1 \in Good
  PROVE  \A i \in a .. b : i \in Good
<1> DEFINE Bad == (a .. b) \ Good
<1> SUFFICES ASSUME Bad # {} PROVE FALSE
  OBVIOUS
<1>1. Bad \in SUBSET Nat
  OBVIOUS
<1>2. PICK m \in Bad : \A k \in Bad : m <= k
  BY <1>1, Least
<1>3. m # a /\ m - 1 \in a .. (b - 1) /\ m - 1 \notin Bad
  BY <1>1, <1>2
<1> QED BY <1>3

\* Of finitely many integers one is the greatest, ...
LEMMA GreatestValue ==
  ASSUME NEW n \in Nat, n >= 1, NEW f \in [1 .. n -> Int]
  PROVE  \E m \in 1 .. n : \A k \in 1 .. n : f[k] <= f[m]
<1> DEFINE Good == {i \in 1 .. n : \E m \in 1 .. i : \A k \in 1 .. i : f[k] <= f[m]}
<1>1. 1 \in Good
  <2>1. \A k \in 1 .. 1 : k = 1
    OBVIOUS
  <2>2. 1 \in 1 .. n /\ f[1] <= f[1]
    OBVIOUS
  <2> QED BY <2>1, <2>2
<1>2. \A i \in 1 .. (n - 1) : i \in Good => i + 1 \in Good
  <2> SUFFICES ASSUME NEW i \in 1 .. (n - 1), i \in Good PROVE i + 1 \in Good
    OBVIOUS
  <2>1. PICK m \in 1 .. i : \A k \in 1 .. i : f[k] <= f[m]
    OBVIOUS
  <2>2. /\ i + 1 \in 1 .. n /\ m \in 1 .. (i + 1) /\ i + 1 \in 1 .. (i + 1)
        /\ \A k \in 1 .. (i + 1) : k \in 1 .. i \/ k = i + 1
        /\ f[m] \in Int /\ f[i + 1] \in Int /\ \A k \in 1 .. i : f[k] \in Int
    OBVIOUS
  <2>3. CASE f[m] <= f[i + 1]
    <3>1. \A k \in 1 .. (i + 1) : f[k] <= f[i + 1]
      BY <2>1, <2>2, <2>3
    <3> QED BY <2>2, <3>1
  <2>4. CASE f[i + 1] <= f[m]
    <3>1. \A k \in 1 .. (i + 1) : f[k] <= f[m]
      BY <2>1, <2>2, <2>4
    <3> QED BY <2>2, <3>1
  <2>5. f[m] <= f[i + 1] \/ f[i + 1] <= f[m]
    BY ONLY <2>2
  <2> QED BY <2>3, <2>4, <2>5
<1>3. n \in Good
  <2> HIDE DEF Good
  <2>1. \A i \in 1 .. n : i \in Good
    BY ONLY <1>1, <1>2, UpFrom, 1 \in Nat, n \in Nat
  <2> QED BY <2>1
<1> QED BY <1>3

\* ... the one Max chooses, and one is the least, the one Min chooses.
LEMMA FiniteExtremes ==
  ASSUME NEW T \in SUBSET Int, IsFiniteSet(T), T # {}
  PROVE  /\ Max(T) \in T /\ \A x \in T : x <= Max(T)
         /\ Min(T) \in T /\ \A x \in T : Min(T) <= x
<1> DEFINE n == Cardinality(T)
<1>1. n \in Nat /\ n >= 1
  BY FS_CardinalityType, FS_EmptySet
<1>2. PICK f : f \in Bijection(1 .. n, T)
  BY FS_CardinalityType DEF ExistsBijection
<1>3. f \in [1 .. n -> T] /\ \A x \in T : \E k \in 1 .. n : f[k] = x
  BY <1>2 DEF Bijection, Surjection
<1> HIDE DEF n
<1>4. f \in [1 .. n -> Int]
  BY <1>3
<1>5. PICK m \in 1 .. n : \A k \in 1 .. n : f[k] <= f[m]
  BY <1>1, <1>4, GreatestValue
<1>6. f[m] \in T /\ \A x \in T : f[m] >= x
  BY <1>3, <1>4, <1>5
<1>7. Max(T) \in T /\ \A x \in T : Max(T) >= x
  BY <1>6 DEF Max
<1> DEFINE g == [k \in 1 .. n |-> -f[k]]
<1>8. g \in [1 .. n -> Int]
  BY <1>4
<1>9. PICK l \in 1 .. n : \A k \in 1 .. n : g[k] <= g[l]
  BY ONLY <1>1, <1>8, GreatestValue
<1>10. \A k \in 1 .. n : f[l] <= f[k]
  BY <1>4, <1>9
<1>11. f[l] \in T /\ \A x \in T : f[l] <= x
  BY <1>3, <1>10
<1>12. Min(T) \in T /\ \A x \in T : Min(T) <= x
  BY <1>11 DEF Min
<1>13. \A x \in T : x <= Max(T)
  BY <1>7
<1> QED BY <1>7, <1>12, <1>13

\* The values of a function on a finite set.
LEMMA ValuesFinite ==
  ASSUME NEW D, IsFiniteSet(D), NEW f, DOMAIN f = D
  PROVE  IsFiniteSet({f[d] : d \in D}) /\ Cardinality({f[d] : d \in D}) <= Cardinality(D)
<1> DEFINE T == {f[d] : d \in D}
           g == [d \in D |-> f[d]]
<1>1. g \in Surjection(D, T)
  BY DEF Surjection
<1> QED BY <1>1, FS_Surjection

\* MaxOf takes 0 for the greatest of no times.
LEMMA MaxOfTimes ==
  ASSUME NEW T \in SUBSET Nat, IsFiniteSet(T)
  PROVE  /\ MaxOf(T) \in Nat /\ MaxOf(T) \in T \cup {0} /\ \A x \in T : x <= MaxOf(T)
<1>1. IsFiniteSet(T \cup {0})
  BY FS_AddElement
<1>2. {0} \cup T = T \cup {0} /\ T \cup {0} \in SUBSET Int /\ T \cup {0} # {}
  OBVIOUS
<1>3. Max(T \cup {0}) \in T \cup {0} /\ \A x \in T \cup {0} : x <= Max(T \cup {0})
  BY ONLY <1>1, <1>2, FiniteExtremes
<1>4. MaxOf(T) = Max(T \cup {0})
  BY <1>2 DEF MaxOf
<1>5. T \cup {0} \subseteq Nat /\ \A x \in T : x \in T \cup {0}
  OBVIOUS
<1>6. MaxOf(T) \in T \cup {0} /\ \A x \in T : x <= MaxOf(T)
  BY ONLY <1>3, <1>4, <1>5
<1> QED BY <1>5, <1>6

-----------------------------------------------------------------------------
(* Sequences                                                               *)

\* Short sequences, put together.
LEMMA Joined ==
  ASSUME NEW S, NEW p \in S, NEW r \in S, NEW c \in S
  PROVE  /\ <<>> \o <<r>> = <<r>> /\ <<r>> \o <<>> = <<r>> /\ <<p, r>> \o <<>> = <<p, r>>
         /\ <<p>> \o <<r>> = <<p, r>> /\ <<p, r>> \o <<c>> = <<p, r, c>>
<1>1. /\ <<>> \in Seq(S) /\ <<p>> \in Seq(S) /\ <<r>> \in Seq(S) /\ <<c>> \in Seq(S)
      /\ <<p, r>> \in Seq(S)
  OBVIOUS
<1>2. <<>> \o <<r>> = <<r>> /\ <<r>> \o <<>> = <<r>> /\ <<p, r>> \o <<>> = <<p, r>>
  BY <1>1, ConcatEmptySeq
<1>3. <<p>> \o <<r>> = Append(<<p>>, r) /\ <<p, r>> \o <<c>> = Append(<<p, r>>, c)
  BY <1>1, AppendIsConcat
<1>4. <<p, r>> = Append(<<p>>, r)
  OBVIOUS
<1>5. <<p, r, c>> = Append(<<p, r>>, c)
  OBVIOUS
<1> QED BY ONLY <1>2, <1>3, <1>4, <1>5

\* What short sequences hold.
LEMMA RangeOfShort ==
  ASSUME NEW x
  PROVE  Range(<<>>) = {} /\ Range(<<x>>) = {x}
<1>1. DOMAIN <<>> = {} /\ DOMAIN <<x>> = {1} /\ <<x>>[1] = x
  OBVIOUS
<1> QED BY <1>1 DEF Range

\* Sequences of one element, put together.
LEMMA JoinedThree ==
  ASSUME NEW p, NEW r, NEW c
  PROVE  /\ <<>> \o <<r>> \o <<>> = <<r>> /\ <<>> \o <<r>> \o <<c>> = <<r, c>>
         /\ <<p>> \o <<r>> \o <<>> = <<p, r>> /\ <<p>> \o <<r>> \o <<c>> = <<p, r, c>>
<1>1. PICK S : S = {p, r, c}
  OBVIOUS
<1>2. p \in S /\ r \in S /\ c \in S
  BY <1>1
<1>3. /\ <<>> \o <<r>> = <<r>> /\ <<r>> \o <<>> = <<r>> /\ <<p, r>> \o <<>> = <<p, r>>
      /\ <<p>> \o <<r>> = <<p, r>> /\ <<p, r>> \o <<c>> = <<p, r, c>> /\ <<r>> \o <<c>> = <<r, c>>
  BY <1>2, Joined
<1> QED BY ONLY <1>3, Zenon

-----------------------------------------------------------------------------
(* Folds                                                                   *)

\* One turn of each of the folds of the modules: acc is what the fold has so far, x
\* the next element, ctx what else the turn reads.
Ended(steps, end, o) ==
  [p \in DOMAIN end \cup {o} |->
     IF p = o THEN BestStart(StepAt(steps, o), end) + StepAt(steps, o).estimated_seconds
              ELSE end[p]]

\* The channel and the end that _cycle_time_for_channels chooses for o.
ChannelFor(steps, acc, o) ==
  CHOOSE k \in DOMAIN acc.free : IsPick(acc.free, BestStart(StepAt(steps, o), acc.end), k)
EndFor(steps, acc, o) ==
  StartOn(acc.free, BestStart(StepAt(steps, o), acc.end), ChannelFor(steps, acc, o))
    + StepAt(steps, o).estimated_seconds

Occupied(steps, acc, o) ==
  [free |-> [acc.free EXCEPT ![ChannelFor(steps, acc, o)] = EndFor(steps, acc, o)],
   end |-> [p \in DOMAIN acc.end \cup {o} |->
              IF p = o THEN EndFor(steps, acc, o) ELSE acc.end[p]],
   makespan |-> IF EndFor(steps, acc, o) > acc.makespan
                  THEN EndFor(steps, acc, o) ELSE acc.makespan]

OneTurn(fold, ctx, acc, x) ==
  CASE fold = "bench" -> AfterStep(ctx, acc, x)
    [] fold = "end" -> Ended(ctx, acc, x)
    [] fold = "channels" -> Occupied(ctx, acc, x)
    [] fold = "sum" -> acc + x.estimated_seconds
    [] fold = "path" -> acc + StepAt(ctx, x).estimated_seconds
    [] fold = "spent" -> acc + (IF x.order \in ctx THEN x.estimated_seconds ELSE 0)

\* iter folds the elements at the positions of T, for every T within S.
Folds(fold, ctx, base, s, S, iter) ==
  iter = [T \in SUBSET S |->
            IF T = {} THEN base
            ELSE OneTurn(fold, ctx, iter[T \ {Max(T)}], s[Max(T)])]

\* There is such an iter: from the positions up to m to the next.
LEMMA FoldExists ==
  ASSUME NEW fold, NEW ctx, NEW base, NEW s, NEW N \in Nat
  PROVE  \E iter : Folds(fold, ctx, base, s, 1 .. N, iter)
<1> DEFINE Bad == {n \in Nat : ~ \E iter : Folds(fold, ctx, base, s, 1 .. n, iter)}
<1> SUFFICES ASSUME Bad # {} PROVE FALSE
  OBVIOUS
<1>1. PICK n \in Bad : \A k \in Bad : n <= k
  BY Least
<1>2. n # 0
  <2>1. 1 .. 0 = {} /\ SUBSET {} = {{}}
    OBVIOUS
  <2>2. Folds(fold, ctx, base, s, {}, [T \in SUBSET {} |-> base])
    BY <2>1 DEF Folds
  <2> QED BY <2>1, <2>2
<1>3. PICK m \in Nat : n = m + 1
  BY <1>1, <1>2
<1>4. PICK iter : Folds(fold, ctx, base, s, 1 .. m, iter)
  BY <1>1, <1>3
<1> DEFINE next == [T \in SUBSET (1 .. n) |->
                      IF n \in T THEN OneTurn(fold, ctx, iter[T \ {n}], s[n]) ELSE iter[T]]
<1>5. ASSUME NEW T \in SUBSET (1 .. n)
      PROVE  next[T] = IF T = {} THEN base
                       ELSE OneTurn(fold, ctx, next[T \ {Max(T)}], s[Max(T)])
  <2>1. CASE n \in T
    <3>1. Max(T) = n
      <4>1. T \subseteq 1 .. n /\ T # {}
        BY <2>1
      <4>2. Max(T) \in T /\ Max(T) >= n
        BY ONLY <2>1, <4>1, n \in Nat, MaxIsGreatest
      <4>3. Max(T) \in 1 .. n
        BY <4>1, <4>2
      <4> QED BY ONLY <4>2, <4>3, n \in Nat
    <3>2. T \ {n} \in SUBSET (1 .. n) /\ n \notin T \ {n}
      OBVIOUS
    <3>3. next[T \ {n}] = iter[T \ {n}]
      BY <3>2
    <3> QED BY <2>1, <3>1, <3>3
  <2>2. CASE n \notin T /\ T # {}
    <3>1. T \in SUBSET (1 .. m)
      BY <1>3, <2>2
    <3>2. Max(T) \in T
      BY ONLY <3>1, <2>2, MaxIsGreatest, m \in Nat
    <3>3. iter[T] = OneTurn(fold, ctx, iter[T \ {Max(T)}], s[Max(T)])
      BY <3>1, <2>2, <1>4 DEF Folds
    <3>4. T \ {Max(T)} \in SUBSET (1 .. n) /\ n \notin T \ {Max(T)}
      BY <2>2
    <3>5. next[T \ {Max(T)}] = iter[T \ {Max(T)}] /\ next[T] = iter[T]
      BY <3>4, <2>2
    <3> QED BY <3>3, <3>5, <2>2
  <2>3. CASE T = {}
    <3>1. {} \in SUBSET (1 .. m) /\ {} \in SUBSET (1 .. n)
      OBVIOUS
    <3>2. iter[{}] = base
      BY <1>4, <3>1 DEF Folds
    <3> QED BY <2>3, <3>1, <3>2
  <2> QED BY <2>1, <2>2, <2>3
<1>6. Folds(fold, ctx, base, s, 1 .. n, next)
  <2>1. next = [T \in SUBSET (1 .. n) |-> next[T]]
    OBVIOUS
  <2> HIDE DEF next
  <2> QED BY <1>5, <2>1 DEF Folds
<1> QED BY <1>1, <1>6

\* v goes from base through the elements of s, one turn each.
Trace(fold, ctx, base, s, v) ==
  v[0] = base /\ \A i \in 1 .. Len(s) : v[i] = OneTurn(fold, ctx, v[i - 1], s[i])

\* What a fold computes is the end of such a trace.
LEMMA FoldTrace ==
  ASSUME NEW fold, NEW ctx, NEW base, NEW S, NEW s \in Seq(S),
         NEW iter, Folds(fold, ctx, base, s, DOMAIN s, iter)
  PROVE  \E v : Trace(fold, ctx, base, s, v) /\ iter[DOMAIN s] = v[Len(s)]
<1> DEFINE v == [i \in 0 .. Len(s) |-> iter[1 .. i]]
<1>1. DOMAIN s = 1 .. Len(s) /\ Len(s) \in Nat
  OBVIOUS
<1>2. Folds(fold, ctx, base, s, 1 .. Len(s), iter)
  BY <1>1
<1>3. iter[DOMAIN s] = v[Len(s)]
  BY <1>1
<1>4. v[0] = base
  <2>1. v[0] = iter[{}]
    <3>1. 1 .. 0 = {} /\ 0 \in 0 .. Len(s)
      BY <1>1
    <3> QED BY ONLY <3>1
  <2>2. {} \in SUBSET (1 .. Len(s))
    OBVIOUS
  <2>3. iter[{}] = base
    BY <1>2, <2>2 DEF Folds
  <2> QED BY <2>1, <2>3
<1>5. ASSUME NEW i \in 1 .. Len(s)
      PROVE  v[i] = OneTurn(fold, ctx, v[i - 1], s[i])
  <2>1. Max(1 .. i) = i /\ (1 .. i) \ {i} = 1 .. (i - 1) /\ 1 .. i \in SUBSET (1 .. Len(s))
    BY <1>1 DEF Max
  <2>2. v[i] = iter[1 .. i] /\ v[i - 1] = iter[1 .. (i - 1)]
    <3>1. i \in 0 .. Len(s) /\ i - 1 \in 0 .. Len(s)
      BY <1>1
    <3> QED BY ONLY <3>1
  <2>3. 1 .. i # {}
    <3>1. i \in Nat /\ 1 <= i
      BY <1>1
    <3>2. 1 \in 1 .. i
      BY ONLY <3>1
    <3> QED BY <3>2
  <2>4. iter[1 .. i] = OneTurn(fold, ctx, iter[(1 .. i) \ {Max(1 .. i)}], s[Max(1 .. i)])
    BY <1>2, <2>1, <2>3 DEF Folds
  <2> HIDE DEF v
  <2> QED BY <2>1, <2>2, <2>4
<1> HIDE DEF v
<1>6. Trace(fold, ctx, base, s, v)
  BY <1>4, <1>5 DEF Trace
<1> QED BY <1>3, <1>6

-----------------------------------------------------------------------------
(* The bench                                                               *)

\* The bench goes from state to state, one step of the list after the other.
LEMMA BenchTrace ==
  ASSUME NEW spec, NEW bench, NEW S, NEW steps \in Seq(S)
  PROVE  \E v : /\ v[0] = bench
                /\ \A i \in 1 .. Len(steps) : v[i] = AfterStep(spec, v[i - 1], steps[i])
                /\ BenchAfter(spec, bench, steps) = v[Len(steps)]
<1>1. \A acc, x : OneTurn("bench", spec, acc, x) = AfterStep(spec, acc, x)
  BY DEF OneTurn
<1> DEFINE IsFold(it) == it = [T \in SUBSET DOMAIN steps |->
                            IF T = {} THEN bench
                            ELSE AfterStep(spec, it[T \ {Max(T)}], steps[Max(T)])]
<1>2. BenchAfter(spec, bench, steps) = (CHOOSE it : IsFold(it))[DOMAIN steps]
  BY DEF BenchAfter, FoldLeft, MapThenFoldSet
<1>3. \A it : IsFold(it) <=> Folds("bench", spec, bench, steps, DOMAIN steps, it)
  BY <1>1 DEF Folds
<1> DEFINE iter == CHOOSE it : IsFold(it)
<1> HIDE DEF IsFold
<1>4. Folds("bench", spec, bench, steps, DOMAIN steps, iter)
  BY <1>3, FoldExists
<1> HIDE DEF iter
<1>5. PICK v : /\ Trace("bench", spec, bench, steps, v)
               /\ iter[DOMAIN steps] = v[Len(steps)]
  BY ONLY steps \in Seq(S), <1>4, FoldTrace
<1>6. BenchAfter(spec, bench, steps) = iter[DOMAIN steps]
  BY <1>2 DEF iter
<1> QED BY <1>1, <1>5, <1>6 DEF Trace

\* A bench that runs carries out a step if that is possible and stops if not.
LEMMA StepTaken ==
  ASSUME NEW spec, NEW done, NEW unlocked, NEW step,
         Possible(spec, [runs |-> TRUE, done |-> done, unlocked |-> unlocked], step)
  PROVE  AfterStep(spec, [runs |-> TRUE, done |-> done, unlocked |-> unlocked], step)
           = [runs |-> TRUE, done |-> done \cup {step.order},
              unlocked |-> unlocked \cup
                {id \in {step.ecu_id} : step.step_type = "security_access"}]
  BY DEF AfterStep

LEMMA StepRefused ==
  ASSUME NEW spec, NEW done, NEW unlocked, NEW step,
         ~Possible(spec, [runs |-> TRUE, done |-> done, unlocked |-> unlocked], step)
  PROVE  AfterStep(spec, [runs |-> TRUE, done |-> done, unlocked |-> unlocked], step)
           = [runs |-> FALSE, done |-> done, unlocked |-> unlocked]
  BY DEF AfterStep

\* A bench that has stopped stays as it is.
LEMMA StoppedStays ==
  ASSUME NEW spec, NEW done, NEW unlocked, NEW step
  PROVE  AfterStep(spec, [runs |-> FALSE, done |-> done, unlocked |-> unlocked], step)
           = [runs |-> FALSE, done |-> done, unlocked |-> unlocked]
  BY DEF AfterStep

\* The state of a bench that started as bench and has carried out the first i
\* steps, all of them possible when their turn came.
Ordered(bench, steps, i) == bench.done \cup {steps[j].order : j \in 1 .. i}
Unlocked(bench, steps, i) ==
  bench.unlocked \cup
    {steps[j].ecu_id : j \in {k \in 1 .. i : steps[k].step_type = "security_access"}}
StateAfter(bench, steps, i) ==
  [runs |-> TRUE, done |-> Ordered(bench, steps, i), unlocked |-> Unlocked(bench, steps, i)]

\* Any running bench is such a state, with no step carried out yet.
LEMMA BenchAtStart ==
  ASSUME NEW done, NEW unlocked, NEW bench, NEW steps,
         bench = [runs |-> TRUE, done |-> done, unlocked |-> unlocked]
  PROVE  bench = StateAfter(bench, steps, 0)
<1>1. 1 .. 0 = {}
  OBVIOUS
<1>2. Ordered(bench, steps, 0) = done /\ Unlocked(bench, steps, 0) = unlocked
  BY <1>1 DEF Ordered, Unlocked
<1> QED BY <1>2 DEF StateAfter

\* A possible step takes the bench to the next of these states.
LEMMA PossibleStep ==
  ASSUME NEW spec, NEW bench, NEW steps, NEW i \in Nat,
         Possible(spec, StateAfter(bench, steps, i), steps[i + 1])
  PROVE  AfterStep(spec, StateAfter(bench, steps, i), steps[i + 1])
           = StateAfter(bench, steps, i + 1)
<1>1. 1 .. (i + 1) = (1 .. i) \cup {i + 1}
  OBVIOUS
<1> DEFINE own == {id \in {steps[i + 1].ecu_id} : steps[i + 1].step_type = "security_access"}
<1>2. Ordered(bench, steps, i) \cup {steps[i + 1].order} = Ordered(bench, steps, i + 1)
  BY <1>1 DEF Ordered
<1>3. Unlocked(bench, steps, i) \cup own = Unlocked(bench, steps, i + 1)
  BY <1>1 DEF Unlocked
<1> QED BY <1>2, <1>3, StepTaken DEF StateAfter

\* A bench whose steps are all possible when their turn comes runs to the end.
LEMMA BenchCompletes ==
  ASSUME NEW spec, NEW bench, NEW S, NEW steps \in Seq(S), bench = StateAfter(bench, steps, 0),
         \A i \in 0 .. (Len(steps) - 1) :
           Possible(spec, StateAfter(bench, steps, i), steps[i + 1])
  PROVE  BenchAfter(spec, bench, steps) = StateAfter(bench, steps, Len(steps))
<1>1. PICK v : /\ v[0] = bench
               /\ \A i \in 1 .. Len(steps) : v[i] = AfterStep(spec, v[i - 1], steps[i])
               /\ BenchAfter(spec, bench, steps) = v[Len(steps)]
  BY ONLY steps \in Seq(S), BenchTrace
<1> DEFINE n == Len(steps)
           Good == {i \in 0 .. n : v[i] = StateAfter(bench, steps, i)}
<1>2. n \in Nat /\ 0 \in Good
  BY <1>1
<1>3. \A i \in 0 .. (n - 1) : i \in Good => i + 1 \in Good
  <2> SUFFICES ASSUME NEW i \in 0 .. (n - 1), i \in Good PROVE i + 1 \in Good
    OBVIOUS
  <2>1. i \in Nat /\ i + 1 \in 1 .. n /\ (i + 1) - 1 = i
    BY <1>2
  <2>2. v[i + 1] = AfterStep(spec, StateAfter(bench, steps, i), steps[i + 1])
    BY <1>1, <2>1
  <2>3. v[i + 1] = StateAfter(bench, steps, i + 1)
    <3>1. i \in 0 .. (Len(steps) - 1)
      OBVIOUS
    <3>2. Possible(spec, StateAfter(bench, steps, i), steps[i + 1])
      BY <3>1
    <3>3. AfterStep(spec, StateAfter(bench, steps, i), steps[i + 1])
            = StateAfter(bench, steps, i + 1)
      BY ONLY <2>1, <3>2, PossibleStep
    <3> QED BY <2>2, <3>3
  <2> QED BY <2>1, <2>3
<1>4. n \in Good
  <2> HIDE DEF Good, n
  <2>1. \A i \in 0 .. n : i \in Good
    BY ONLY <1>2, <1>3, UpFrom, 0 \in Nat
  <2> QED BY <1>2, <2>1
<1> QED BY <1>1, <1>4

\* A bench that still runs at the end has carried out every step.
LEMMA BenchDidAll ==
  ASSUME NEW spec, NEW bench, NEW S, NEW steps \in Seq(S), bench = StateAfter(bench, steps, 0),
         BenchAfter(spec, bench, steps).runs
  PROVE  BenchAfter(spec, bench, steps) = StateAfter(bench, steps, Len(steps))
<1>1. PICK v : /\ v[0] = bench
               /\ \A i \in 1 .. Len(steps) : v[i] = AfterStep(spec, v[i - 1], steps[i])
               /\ BenchAfter(spec, bench, steps) = v[Len(steps)]
  BY ONLY steps \in Seq(S), BenchTrace
<1> DEFINE n == Len(steps)
           Stopped(b) == b = [runs |-> FALSE, done |-> b.done, unlocked |-> b.unlocked]
           Good == {i \in 0 .. n : Stopped(v[i]) \/ v[i] = StateAfter(bench, steps, i)}
<1>2. n \in Nat /\ 0 \in Good
  BY <1>1
<1>3. \A i \in 0 .. (n - 1) : i \in Good => i + 1 \in Good
  <2> SUFFICES ASSUME NEW i \in 0 .. (n - 1), i \in Good PROVE i + 1 \in Good
    OBVIOUS
  <2>1. i \in Nat /\ i + 1 \in 1 .. n /\ (i + 1) - 1 = i
    BY <1>2
  <2>2. v[i + 1] = AfterStep(spec, v[i], steps[i + 1])
    BY <1>1, <2>1
  <2>3. CASE Stopped(v[i])
    <3>1. AfterStep(spec, v[i], steps[i + 1]) = v[i]
      BY <2>3, StoppedStays
    <3>2. Stopped(v[i + 1])
      BY <2>2, <2>3, <3>1
    <3> QED BY <2>1, <3>2
  <2>4. CASE v[i] = StateAfter(bench, steps, i) /\ Possible(spec, v[i], steps[i + 1])
    <3>1. v[i + 1] = AfterStep(spec, StateAfter(bench, steps, i), steps[i + 1])
      BY <2>2, <2>4
    <3>2. v[i + 1] = StateAfter(bench, steps, i + 1)
      BY <2>1, <2>4, <3>1, PossibleStep
    <3> QED BY <2>1, <3>2
  <2>5. CASE v[i] = StateAfter(bench, steps, i) /\ ~Possible(spec, v[i], steps[i + 1])
    <3>1. v[i + 1] = AfterStep(spec, StateAfter(bench, steps, i), steps[i + 1])
      BY <2>2, <2>5
    <3>2. v[i + 1] = [runs |-> FALSE, done |-> Ordered(bench, steps, i),
                      unlocked |-> Unlocked(bench, steps, i)]
      BY <2>5, <3>1, StepRefused DEF StateAfter
    <3>3. Stopped(v[i + 1])
      BY <3>2
    <3> QED BY <2>1, <3>3
  <2> QED BY <2>3, <2>4, <2>5
<1>4. n \in Good
  <2> HIDE DEF Good, n
  <2>1. \A i \in 0 .. n : i \in Good
    BY ONLY <1>2, <1>3, UpFrom, 0 \in Nat
  <2> QED BY <1>2, <2>1
<1>5. ~Stopped(v[n])
  BY <1>1
<1> QED BY <1>1, <1>4, <1>5

-----------------------------------------------------------------------------
(* The topological order                                                   *)

\* What can come next once the orders of placed are there.
Ready(steps, placed) ==
  {o \in Orders(steps) \ placed : Deps(steps, o) \subseteq placed}

\* v[n] lists the first n orders of the topological sort.
SortTrace(steps, v) ==
  /\ v[0] = <<>>
  /\ \A n \in 1 .. Len(steps) : v[n] = Append(v[n - 1], Min(Ready(steps, Range(v[n - 1]))))

LEMMA SortExists ==
  ASSUME NEW steps, NEW N \in Nat
  PROVE  \E f : f = [n \in 0 .. N |->
                       IF n = 0 THEN <<>>
                       ELSE Append(f[n - 1], Min(Ready(steps, Range(f[n - 1]))))]
<1> DEFINE Is(f, n) == f = [k \in 0 .. n |->
                              IF k = 0 THEN <<>>
                              ELSE Append(f[k - 1], Min(Ready(steps, Range(f[k - 1]))))]
           Good == {n \in 0 .. N : \E f : Is(f, n)}
<1>1. 0 \in Good
  <2>1. Is([k \in 0 .. 0 |-> <<>>], 0)
    OBVIOUS
  <2>2. 0 \in 0 .. N
    OBVIOUS
  <2> HIDE DEF Is
  <2> QED BY <2>1, <2>2
<1>2. \A n \in 0 .. (N - 1) : n \in Good => n + 1 \in Good
  <2> SUFFICES ASSUME NEW n \in 0 .. (N - 1), n \in Good PROVE n + 1 \in Good
    OBVIOUS
  <2>1. PICK f : Is(f, n)
    OBVIOUS
  <2> DEFINE g == [k \in 0 .. (n + 1) |->
                     IF k = n + 1 THEN Append(f[n], Min(Ready(steps, Range(f[n])))) ELSE f[k]]
  <2>2. \A k \in 0 .. n : g[k] = f[k]
    OBVIOUS
  <2>3. \A k \in 0 .. (n + 1) :
          g[k] = IF k = 0 THEN <<>> ELSE Append(g[k - 1], Min(Ready(steps, Range(g[k - 1]))))
    <3> SUFFICES ASSUME NEW k \in 0 .. (n + 1)
                 PROVE  g[k] = IF k = 0 THEN <<>>
                               ELSE Append(g[k - 1], Min(Ready(steps, Range(g[k - 1]))))
      OBVIOUS
    <3>1. CASE k = n + 1
      <4>1. k # 0 /\ k - 1 = n /\ n \in 0 .. n
        BY <3>1
      <4> QED BY <2>2, <3>1, <4>1
    <3>2. CASE k # n + 1 /\ k # 0
      <4>1. k \in 0 .. n /\ k - 1 \in 0 .. n
        BY <3>2
      <4>2. f[k] = Append(f[k - 1], Min(Ready(steps, Range(f[k - 1]))))
        BY <2>1, <3>2, <4>1
      <4> QED BY <2>2, <3>2, <4>1, <4>2
    <3>3. CASE k = 0
      <4>1. 0 \in 0 .. n /\ f[0] = <<>>
        BY <2>1
      <4> QED BY <2>2, <3>3, <4>1
    <3> QED BY <3>1, <3>2, <3>3
  <2>4. Is(g, n + 1)
    <3>1. g = [k \in 0 .. (n + 1) |-> g[k]]
      OBVIOUS
    <3> HIDE DEF g
    <3> QED BY <2>3, <3>1
  <2>5. n + 1 \in 0 .. N
    OBVIOUS
  <2> HIDE DEF Is, g
  <2> QED BY <2>4, <2>5
<1>3. N \in Good
  <2> HIDE DEF Good
  <2>1. \A n \in 0 .. N : n \in Good
    BY ONLY <1>1, <1>2, UpFrom, 0 \in Nat, N \in Nat
  <2> QED BY <2>1
<1> QED BY <1>3

LEMMA SortTraced ==
  ASSUME NEW S, NEW steps \in Seq(S)
  PROVE  \E v : SortTrace(steps, v) /\ TopologicalOrder(steps) = v[Len(steps)]
<1> DEFINE IsOrder(f) == f = [n \in 0 .. Len(steps) |->
                              IF n = 0 THEN <<>>
                              ELSE Append(f[n - 1], Min(Ready(steps, Range(f[n - 1]))))]
           v == CHOOSE f : IsOrder(f)
<1>1. Len(steps) \in Nat
  OBVIOUS
<1>2. IsOrder(v)
  BY <1>1, SortExists
<1>3. TopologicalOrder(steps) = v[Len(steps)]
  BY DEF TopologicalOrder, Ready
<1> HIDE DEF v
<1>4. SortTrace(steps, v)
  <2>1. v[0] = <<>>
    <3>1. 0 \in 0 .. Len(steps)
      BY <1>1
    <3> QED BY <1>2, <3>1
  <2>2. ASSUME NEW n \in 1 .. Len(steps)
        PROVE  v[n] = Append(v[n - 1], Min(Ready(steps, Range(v[n - 1]))))
    <3>1. n \in 0 .. Len(steps) /\ n # 0
      BY <1>1
    <3> QED BY <1>2, <3>1
  <2> QED BY <2>1, <2>2 DEF SortTrace
<1> QED BY <1>3, <1>4

\* A list of steps as far as the scheduler reads it.
Timed(steps) ==
  \A i \in DOMAIN steps :
    steps[i].order \in Int /\ steps[i].estimated_seconds \in Nat /\ steps[i].depends_on \in Seq(Int)

\* A program without repeated orders has as many orders as steps, and by_order
\* finds each step.
LEMMA OneStepPerOrder ==
  ASSUME NEW S, NEW steps \in Seq(S), DistinctOrders(steps)
  PROVE  /\ IsFiniteSet(Orders(steps)) /\ Cardinality(Orders(steps)) = Len(steps)
         /\ \A i \in DOMAIN steps :
              steps[i].order \in Orders(steps) /\ StepAt(steps, steps[i].order) = steps[i]
         /\ \A o \in Orders(steps) :
              \E i \in DOMAIN steps : steps[i].order = o /\ StepAt(steps, o) = steps[i]
<1>1. DOMAIN steps = 1 .. Len(steps) /\ Len(steps) \in Nat
  OBVIOUS
<1>2. /\ \A i \in DOMAIN steps : steps[i].order \in Orders(steps) /\ steps[i] \in Range(steps)
      /\ \A o \in Orders(steps) : \E i \in DOMAIN steps : steps[i].order = o
      /\ \A step \in Range(steps) : \E i \in DOMAIN steps : steps[i] = step
  BY DEF Orders, Range
<1> DEFINE f == [i \in 1 .. Len(steps) |-> steps[i].order]
<1>3. f \in Bijection(1 .. Len(steps), Orders(steps))
  <2>1. f \in [1 .. Len(steps) -> Orders(steps)]
    BY <1>1, <1>2
  <2>2. \A i, j \in 1 .. Len(steps) : f[i] = f[j] => i = j
    BY <1>1 DEF DistinctOrders
  <2>3. \A o \in Orders(steps) : \E i \in 1 .. Len(steps) : f[i] = o
    BY <1>1, <1>2
  <2> QED BY <2>1, <2>2, <2>3 DEF Bijection, Injection, Surjection, IsInjective
<1>4. IsFiniteSet(1 .. Len(steps)) /\ Cardinality(1 .. Len(steps)) = Len(steps)
  BY <1>1, FS_Interval
<1>5. ExistsBijection(1 .. Len(steps), Orders(steps))
  BY <1>3 DEF ExistsBijection
<1>6. IsFiniteSet(Orders(steps)) /\ Cardinality(Orders(steps)) = Len(steps)
  BY <1>4, <1>5, FS_Bijection
<1>7. ASSUME NEW i \in DOMAIN steps PROVE StepAt(steps, steps[i].order) = steps[i]
  <2>1. \A step \in Range(steps) : step.order = steps[i].order => step = steps[i]
    BY <1>2, <1>7 DEF DistinctOrders
  <2> QED BY <1>2, <1>7, <2>1 DEF StepAt
<1> QED BY <1>2, <1>6, <1>7

\* t lists every order once, each after the orders it depends on.
Topological(steps, t) ==
  /\ t \in Seq(Orders(steps)) /\ Len(t) = Len(steps)
  /\ \A i, j \in 1 .. Len(t) : t[i] = t[j] => i = j
  /\ \A i \in 1 .. Len(t) : Deps(steps, t[i]) \subseteq {t[j] : j \in 1 .. (i - 1)}
  /\ \A o \in Orders(steps) : \E i \in 1 .. Len(t) : t[i] = o

\* Of the programs that can be scheduled, some step is always ready.
LEMMA SomeReady ==
  ASSUME NEW S, NEW steps \in Seq(S), DistinctOrders(steps), Closed(steps), Acyclic(steps),
         NEW placed, Orders(steps) \ placed # {}
  PROVE  Ready(steps, placed) # {}
<1> DEFINE Left == {i \in DOMAIN steps : steps[i].order \notin placed}
<1>1. Left # {}
  BY OneStepPerOrder
<1>2. PICK i \in Left : \A j \in Left : steps[j].order \notin Range(steps[i].depends_on)
  BY <1>1 DEF Acyclic
<1>3. Deps(steps, steps[i].order) = Range(steps[i].depends_on) /\ steps[i].order \in Orders(steps)
  BY OneStepPerOrder DEF Deps
<1>4. ASSUME NEW d \in Range(steps[i].depends_on)
      PROVE  d \in placed
  <2>1. d \in Orders(steps)
    BY DEF Closed
  <2>2. PICK j \in DOMAIN steps : steps[j].order = d
    BY <2>1, OneStepPerOrder
  <2> QED BY <1>2, <2>2
<1> QED BY <1>3, <1>4 DEF Ready

\* Such programs have a topological order, and _topological_order finds it.
LEMMA SortIsTopological ==
  ASSUME NEW S, NEW steps \in Seq(S), Timed(steps),
         DistinctOrders(steps), Closed(steps), Acyclic(steps)
  PROVE  Topological(steps, TopologicalOrder(steps))
<1> DEFINE N == Len(steps)
           O == Orders(steps)
<1>1. PICK v : SortTrace(steps, v) /\ TopologicalOrder(steps) = v[N]
  BY SortTraced
<1>2. N \in Nat /\ IsFiniteSet(O) /\ Cardinality(O) = N
  BY OneStepPerOrder
<1>3. O \subseteq Int
  BY OneStepPerOrder, SMTT(30) DEF Timed
<1> DEFINE Prefix(t, n) ==
             /\ t \in Seq(O) /\ Len(t) = n
             /\ \A i, j \in 1 .. n : t[i] = t[j] => i = j
             /\ \A i \in 1 .. n : Deps(steps, t[i]) \subseteq {t[j] : j \in 1 .. (i - 1)}
           Good == {n \in 0 .. N : Prefix(v[n], n)}
<1>4. 0 \in Good
  <2>1. v[0] = <<>> /\ 0 \in 0 .. N
    BY <1>1, <1>2 DEF SortTrace
  <2>2. Prefix(<<>>, 0)
    OBVIOUS
  <2> HIDE DEF Prefix
  <2> QED BY <2>1, <2>2
<1>5. \A n \in 0 .. (N - 1) : n \in Good => n + 1 \in Good
  <2> SUFFICES ASSUME NEW n \in 0 .. (N - 1), n \in Good PROVE n + 1 \in Good
    OBVIOUS
  <2> DEFINE s == v[n]
             placed == Range(s)
             o == Min(Ready(steps, placed))
             t == v[n + 1]
  <2>1. n \in Nat /\ n < N /\ n + 1 \in 1 .. N /\ n + 1 \in 0 .. N /\ (n + 1) - 1 = n
    BY <1>2
  <2>2. /\ s \in Seq(O) /\ Len(s) = n /\ DOMAIN s = 1 .. n
        /\ \A i, j \in 1 .. n : s[i] = s[j] => i = j
        /\ \A i \in 1 .. n : Deps(steps, s[i]) \subseteq {s[j] : j \in 1 .. (i - 1)}
    <3>1. Prefix(s, n)
      OBVIOUS
    <3> HIDE DEF s, Good, O
    <3> QED BY <3>1
  <2>3. t = Append(s, o)
    BY <1>1, <2>1 DEF SortTrace
  <2> HIDE DEF Good, s, t, N, O
  <2>4. placed \subseteq O /\ placed = {s[i] : i \in 1 .. n}
    BY <2>2 DEF Range
  <2>5. O \ placed # {}
    <3>1. IsFiniteSet(1 .. n) /\ Cardinality(1 .. n) = n
      BY <2>1, FS_Interval
    <3>2. IsFiniteSet({s[i] : i \in 1 .. n}) /\ Cardinality({s[i] : i \in 1 .. n}) <= n
      BY <2>2, <3>1, ValuesFinite
    <3>3. Cardinality(placed) <= n
      BY <2>4, <3>2
    <3>4. placed # O
      BY <1>2, <2>1, <3>3
    <3> QED BY <2>4, <3>4
  <2>6. o \in O \ placed /\ Deps(steps, o) \subseteq placed
    <3>1. Ready(steps, placed) # {} /\ Ready(steps, placed) \subseteq O
      BY <2>5, SomeReady DEF Ready, O
    <3>2. IsFiniteSet(Ready(steps, placed)) /\ Ready(steps, placed) \in SUBSET Int
      BY <1>2, <1>3, <3>1, FS_Subset
    <3>3. o \in Ready(steps, placed)
      BY <3>1, <3>2, FiniteExtremes
    <3> QED BY <3>3 DEF Ready, O
  <2> HIDE DEF placed, o
  <2>7. /\ t \in Seq(O) /\ Len(t) = n + 1 /\ t[n + 1] = o
        /\ \A i \in 1 .. n : t[i] = s[i]
    BY <2>2, <2>3, <2>6, AppendProperties
  <2>8. \A i \in 1 .. (n + 1) : i \in 1 .. n \/ i = n + 1
    BY <2>1
  <2>9. \A i, j \in 1 .. (n + 1) : t[i] = t[j] => i = j
    BY <2>2, <2>4, <2>6, <2>7, <2>8
  <2>10. ASSUME NEW i \in 1 .. (n + 1)
         PROVE  Deps(steps, t[i]) \subseteq {t[j] : j \in 1 .. (i - 1)}
    <3>1. CASE i \in 1 .. n
      <4>1. \A j \in 1 .. (i - 1) : j \in 1 .. n
        BY <2>1, <3>1
      <4>2. {s[j] : j \in 1 .. (i - 1)} = {t[j] : j \in 1 .. (i - 1)}
        BY <2>7, <4>1
      <4> QED BY <2>2, <2>7, <3>1, <4>2
    <3>2. CASE i = n + 1
      <4>1. {t[j] : j \in 1 .. (i - 1)} = placed
        BY <2>1, <2>4, <2>7, <3>2
      <4> QED BY <2>6, <2>7, <3>2, <4>1
    <3> QED BY <2>8, <3>1, <3>2
  <2>11. Prefix(t, n + 1)
    BY <2>7, <2>9, <2>10
  <2> HIDE DEF Prefix
  <2> QED BY <2>1, <2>11 DEF Good, t
<1>6. N \in Good
  <2> HIDE DEF Good, N
  <2>1. \A n \in 0 .. N : n \in Good
    BY ONLY <1>2, <1>4, <1>5, UpFrom, 0 \in Nat
  <2> QED BY <1>2, <2>1
<1> DEFINE t == v[N]
<1>7. /\ t \in Seq(O) /\ Len(t) = N
      /\ \A i, j \in 1 .. N : t[i] = t[j] => i = j
      /\ \A i \in 1 .. N : Deps(steps, t[i]) \subseteq {t[j] : j \in 1 .. (i - 1)}
  BY <1>6
<1> HIDE DEF t, N, O
<1>8. \A o \in O : \E i \in 1 .. N : t[i] = o
  <2>1. IsFiniteSet(1 .. N) /\ Cardinality(1 .. N) = N
    BY <1>2, FS_Interval
  <2>2. t \in [1 .. N -> O]
    BY <1>7
  <2>3. t \in Injection(1 .. N, O)
    BY <1>7, <2>2 DEF Injection, IsInjective
  <2>4. t \in Surjection(1 .. N, O)
    BY <1>2, <2>1, <2>3, FS_Injection
  <2> QED BY <2>4 DEF Surjection
<1>9. Topological(steps, t)
  BY <1>7, <1>8 DEF Topological, N, O
<1> QED BY <1>1, <1>9 DEF t

\* A sort that always takes the least of what can come next is the topological order.
SortedByReady(steps, t) ==
  \A n \in 1 .. Len(t) : t[n] = Min(Ready(steps, {t[j] : j \in 1 .. (n - 1)}))

LEMMA SortIsUnique ==
  ASSUME NEW S, NEW steps \in Seq(S), NEW T, NEW t \in Seq(T),
         Len(t) = Len(steps), SortedByReady(steps, t)
  PROVE  TopologicalOrder(steps) = t
<1> DEFINE N == Len(steps)
<1>1. PICK v : SortTrace(steps, v) /\ TopologicalOrder(steps) = v[N]
  BY SortTraced
<1>2. N \in Nat /\ \A i \in 1 .. N : t[i] \in T
  OBVIOUS
<1> DEFINE Prefix(s, n) == s \in Seq(T) /\ Len(s) = n /\ \A i \in 1 .. n : s[i] = t[i]
           Good == {n \in 0 .. N : Prefix(v[n], n)}
<1>3. 0 \in Good
  <2>1. v[0] = <<>> /\ 0 \in 0 .. N
    BY <1>1, <1>2 DEF SortTrace
  <2>2. Prefix(<<>>, 0)
    OBVIOUS
  <2> HIDE DEF Prefix
  <2> QED BY <2>1, <2>2
<1>4. \A n \in 0 .. (N - 1) : n \in Good => n + 1 \in Good
  <2> SUFFICES ASSUME NEW n \in 0 .. (N - 1), n \in Good PROVE n + 1 \in Good
    OBVIOUS
  <2>1. n \in Nat /\ n + 1 \in 1 .. N /\ n + 1 \in 0 .. N /\ (n + 1) - 1 = n
    BY <1>2
  <2> DEFINE s == v[n]
             r == v[n + 1]
  <2>2. Prefix(s, n)
    OBVIOUS
  <2> HIDE DEF s, r, Good
  <2>3. Range(s) = {t[j] : j \in 1 .. n}
    <3>1. DOMAIN s = 1 .. n
      BY <2>2
    <3> QED BY <2>2, <3>1 DEF Range
  <2>4. r = Append(s, Min(Ready(steps, Range(s))))
    BY <1>1, <2>1 DEF SortTrace, s, r
  <2>5. t[n + 1] = Min(Ready(steps, {t[j] : j \in 1 .. n}))
    BY <2>1 DEF SortedByReady
  <2>6. r = Append(s, t[n + 1]) /\ t[n + 1] \in T
    BY <1>2, <2>1, <2>3, <2>4, <2>5
  <2>7. /\ r \in Seq(T) /\ Len(r) = n + 1 /\ r[n + 1] = t[n + 1]
        /\ \A i \in 1 .. n : r[i] = s[i]
    BY <2>2, <2>6, AppendProperties
  <2>8. \A i \in 1 .. (n + 1) : i \in 1 .. n \/ i = n + 1
    BY <2>1
  <2>9. Prefix(r, n + 1)
    BY <2>2, <2>7, <2>8
  <2> HIDE DEF Prefix
  <2> QED BY <2>1, <2>9 DEF Good, r
<1>5. N \in Good
  <2> HIDE DEF Good, N
  <2>1. \A n \in 0 .. N : n \in Good
    BY ONLY <1>2, <1>3, <1>4, UpFrom, 0 \in Nat
  <2> QED BY <1>2, <2>1
<1>6. v[N] \in Seq(T) /\ Len(v[N]) = Len(t) /\ \A i \in 1 .. Len(v[N]) : v[N][i] = t[i]
  BY <1>5
<1> HIDE DEF N
<1>7. v[N] = t
  BY ONLY t \in Seq(T), <1>6, SeqEqual
<1> QED BY <1>1, <1>7

-----------------------------------------------------------------------------
(* The schedules                                                           *)

\* The forward pass goes through the topological order.
LEMMA EndTrace ==
  ASSUME NEW steps, NEW S, NEW t \in Seq(S), t = TopologicalOrder(steps)
  PROVE  \E v : /\ v[0] = [o \in {} |-> 0]
                /\ \A i \in 1 .. Len(t) : v[i] = Ended(steps, v[i - 1], t[i])
                /\ EarliestEnd(steps) = v[Len(t)]
<1> DEFINE none == [o \in {} |-> 0]
<1>1. \A acc, x : OneTurn("end", steps, acc, x) = Ended(steps, acc, x)
  BY DEF OneTurn
<1> DEFINE IsFold(it) == it = [T \in SUBSET DOMAIN t |->
                            IF T = {} THEN none
                            ELSE Ended(steps, it[T \ {Max(T)}], t[Max(T)])]
<1>2. EarliestEnd(steps) = (CHOOSE it : IsFold(it))[DOMAIN t]
  BY DEF EarliestEnd, FoldLeft, MapThenFoldSet, Ended
<1> HIDE DEF none
<1>3. \A it : IsFold(it) <=> Folds("end", steps, none, t, DOMAIN t, it)
  BY ONLY <1>1, Zenon DEF Folds
<1> DEFINE iter == CHOOSE it : IsFold(it)
<1> HIDE DEF IsFold
<1>4. Folds("end", steps, none, t, DOMAIN t, iter)
  BY <1>3, FoldExists
<1>5. EarliestEnd(steps) = iter[DOMAIN t]
  BY <1>2
<1> HIDE DEF iter
<1>6. PICK v : Trace("end", steps, none, t, v) /\ iter[DOMAIN t] = v[Len(t)]
  BY ONLY t \in Seq(S), <1>4, FoldTrace
<1>7. /\ v[0] = none
      /\ \A i \in 1 .. Len(t) : v[i] = Ended(steps, v[i - 1], t[i])
      /\ EarliestEnd(steps) = v[Len(t)]
  BY <1>1, <1>5, <1>6 DEF Trace
<1> QED BY <1>7 DEF none

\* What the scheduler reads of the step of an order.
LEMMA LookupTyped ==
  ASSUME NEW S, NEW steps \in Seq(S), Timed(steps), DistinctOrders(steps), NEW o \in Orders(steps)
  PROVE  /\ o \in Int
         /\ StepAt(steps, o).estimated_seconds \in Nat
         /\ StepAt(steps, o).depends_on \in Seq(Int)
<1>1. PICK i \in DOMAIN steps : steps[i].order = o /\ StepAt(steps, o) = steps[i]
  BY OneStepPerOrder
<1> QED BY <1>1 DEF Timed

\* A step depends on steps of the program.
LEMMA DepsAreOrders ==
  ASSUME NEW S, NEW steps \in Seq(S), DistinctOrders(steps), Closed(steps),
         NEW o \in Orders(steps)
  PROVE  Deps(steps, o) \subseteq Orders(steps)
<1>1. PICK i \in DOMAIN steps : steps[i].order = o /\ StepAt(steps, o) = steps[i]
  BY OneStepPerOrder
<1> QED BY <1>1 DEF Deps, Closed

\* The latest end among the dependencies.
LEMMA BestStartLatest ==
  ASSUME NEW step, step.depends_on \in Seq(Int), NEW e,
         \A d \in Range(step.depends_on) : e[d] \in Nat
  PROVE  /\ BestStart(step, e) \in Nat
         /\ \A d \in Range(step.depends_on) : e[d] <= BestStart(step, e)
         /\ BestStart(step, e) = 0 \/ \E d \in Range(step.depends_on) : e[d] = BestStart(step, e)
<1> DEFINE deps == step.depends_on
           D == Range(deps)
           f == [d \in D |-> e[d]]
           T == {f[d] : d \in D}
<1>1. IsFiniteSet(D)
  <2>1. DOMAIN deps = 1 .. Len(deps) /\ Len(deps) \in Nat
    OBVIOUS
  <2>2. IsFiniteSet(DOMAIN deps)
    BY <2>1, FS_Interval
  <2>3. IsFiniteSet({deps[k] : k \in DOMAIN deps})
    BY <2>2, ValuesFinite
  <2> QED BY <2>3 DEF Range
<1>2. T = {e[d] : d \in D} /\ T \in SUBSET Nat
  OBVIOUS
<1>3. IsFiniteSet(T)
  BY <1>1, ValuesFinite
<1>4. BestStart(step, e) = MaxOf(T)
  BY <1>2 DEF BestStart
<1>5. /\ MaxOf(T) \in Nat /\ MaxOf(T) \in T \cup {0} /\ \A x \in T : x <= MaxOf(T)
  BY ONLY <1>2, <1>3, MaxOfTimes
<1> HIDE DEF T, D
<1> QED BY <1>2, <1>4, <1>5 DEF D

\* It reads nothing else.
LEMMA BestStartReads ==
  ASSUME NEW step, NEW e, NEW f, \A d \in Range(step.depends_on) : e[d] = f[d]
  PROVE  BestStart(step, e) = BestStart(step, f)
<1>1. {e[d] : d \in Range(step.depends_on)} = {f[d] : d \in Range(step.depends_on)}
  OBVIOUS
<1> QED BY <1>1 DEF BestStart

\* The forward pass ends every step as early as its dependencies allow.
THEOREM EndsCertified ==
  ASSUME NEW S, NEW steps \in Seq(S), Timed(steps), DistinctOrders(steps),
         Topological(steps, TopologicalOrder(steps)), NEW end, end = EarliestEnd(steps)
  PROVE  /\ DOMAIN end = Orders(steps)
         /\ \A o \in Orders(steps) :
              /\ end[o] \in Nat
              /\ BestStart(StepAt(steps, o), end) \in Nat
              /\ end[o] = BestStart(StepAt(steps, o), end) + StepAt(steps, o).estimated_seconds
<1> DEFINE O == Orders(steps)
           Sec(o) == StepAt(steps, o).estimated_seconds
           Best(o, e) == BestStart(StepAt(steps, o), e)
<1>1. PICK t : t = TopologicalOrder(steps)
  OBVIOUS
<1> DEFINE N == Len(t)
<1>2. /\ t \in Seq(O) /\ N \in Nat
      /\ \A i, j \in 1 .. N : t[i] = t[j] => i = j
      /\ \A i \in 1 .. N : Deps(steps, t[i]) \subseteq {t[j] : j \in 1 .. (i - 1)}
      /\ \A o \in O : \E i \in 1 .. N : t[i] = o
      /\ \A i \in 1 .. N : t[i] \in O
  <2>1. Topological(steps, t)
    BY <1>1
  <2>2. t \in Seq(O)
    BY <2>1 DEF Topological
  <2>3. N \in Nat /\ \A i \in 1 .. N : t[i] \in O
    BY <2>2
  <2> HIDE DEF O, N
  <2> QED BY <2>1, <2>2, <2>3 DEF Topological, O, N
<1>3. PICK v : /\ v[0] = [o \in {} |-> 0]
               /\ \A i \in 1 .. N : v[i] = Ended(steps, v[i - 1], t[i])
               /\ end = v[N]
  <2>1. t \in Seq(O)
    BY <1>2
  <2> HIDE DEF O
  <2>2. \E v : /\ v[0] = [o \in {} |-> 0]
               /\ \A i \in 1 .. Len(t) : v[i] = Ended(steps, v[i - 1], t[i])
               /\ EarliestEnd(steps) = v[Len(t)]
    BY ONLY <1>1, <2>1, EndTrace
  <2> QED BY <2>2
<1>4. \A o \in O : Sec(o) \in Nat /\ StepAt(steps, o).depends_on \in Seq(Int)
                   /\ Range(StepAt(steps, o).depends_on) = Deps(steps, o)
  BY LookupTyped DEF Deps
<1> DEFINE Certified(n, e) ==
             /\ DOMAIN e = {t[j] : j \in 1 .. n}
             /\ \A j \in 1 .. n : e[t[j]] \in Nat /\ Best(t[j], e) \in Nat
                                  /\ e[t[j]] = Best(t[j], e) + Sec(t[j])
           Good == {n \in 0 .. N : Certified(n, v[n])}
<1>5. 0 \in Good
  <2>1. v[0] = [o \in {} |-> 0] /\ 1 .. 0 = {} /\ 0 \in 0 .. N
    BY <1>2, <1>3
  <2>2. Certified(0, [o \in {} |-> 0])
    BY ONLY 1 .. 0 = {}, <2>1
  <2> HIDE DEF Certified
  <2> QED BY <2>1, <2>2
<1> HIDE DEF O, N
<1>6. \A n \in 0 .. (N - 1) : n \in Good => n + 1 \in Good
  <2> SUFFICES ASSUME NEW n \in 0 .. (N - 1), n \in Good PROVE n + 1 \in Good
    OBVIOUS
  <2> DEFINE e == v[n]
             f == v[n + 1]
             o == t[n + 1]
  <2>1. n \in Nat /\ n + 1 \in 1 .. N /\ n + 1 \in 0 .. N /\ (n + 1) - 1 = n
    BY <1>2
  <2>2. Certified(n, e)
    OBVIOUS
  <2>3. f = Ended(steps, e, o)
    BY <1>3, <2>1
  <2> HIDE DEF Good, e, f, Certified, Sec, Best
  <2>4. DOMAIN e = {t[j] : j \in 1 .. n} /\ o \in O /\ o \notin DOMAIN e
    <3>1. \A j \in 1 .. n : j \in 1 .. N /\ j # n + 1
      BY <1>2, <2>1
    <3>2. DOMAIN e = {t[j] : j \in 1 .. n}
      BY <2>2 DEF Certified
    <3>3. \A j \in 1 .. n : t[j] # t[n + 1]
      BY <1>2, <2>1, <3>1
    <3> QED BY <1>2, <2>1, <3>2, <3>3
  <2>5. /\ DOMAIN f = DOMAIN e \cup {o} /\ f[o] = Best(o, e) + Sec(o)
        /\ \A p \in DOMAIN e : f[p] = e[p]
    BY <2>3, <2>4 DEF Ended, Best, Sec
  <2>6. DOMAIN f = {t[j] : j \in 1 .. (n + 1)}
    <3>1. 1 .. (n + 1) = (1 .. n) \cup {n + 1}
      BY <2>1
    <3> QED BY <2>4, <2>5, <3>1
  <2>7. \A j \in 1 .. (n + 1) : Deps(steps, t[j]) \subseteq DOMAIN e
    <3> SUFFICES ASSUME NEW j \in 1 .. (n + 1) PROVE Deps(steps, t[j]) \subseteq DOMAIN e
      OBVIOUS
    <3>1. j \in 1 .. N /\ \A k \in 1 .. (j - 1) : k \in 1 .. n
      BY <1>2, <2>1
    <3>2. Deps(steps, t[j]) \subseteq {t[k] : k \in 1 .. (j - 1)}
      BY <1>2, <3>1
    <3>3. {t[k] : k \in 1 .. (j - 1)} \subseteq DOMAIN e
      BY <2>4, <3>1
    <3> QED BY <3>2, <3>3
  <2>8. \A j \in 1 .. (n + 1) : t[j] \in O /\ Best(t[j], f) = Best(t[j], e)
    <3> SUFFICES ASSUME NEW j \in 1 .. (n + 1)
                 PROVE  t[j] \in O /\ Best(t[j], f) = Best(t[j], e)
      OBVIOUS
    <3>1. t[j] \in O
      BY <1>2, <2>1
    <3>2. \A d \in Range(StepAt(steps, t[j]).depends_on) : f[d] = e[d]
      BY <1>4, <2>5, <2>7, <3>1
    <3> QED BY <3>1, <3>2, BestStartReads DEF Best
  <2>9. ASSUME NEW j \in 1 .. n
        PROVE  f[t[j]] \in Nat /\ Best(t[j], f) \in Nat /\ f[t[j]] = Best(t[j], f) + Sec(t[j])
    <3>1. t[j] \in DOMAIN e /\ j \in 1 .. (n + 1)
      BY <2>1, <2>4
    <3>2. f[t[j]] = e[t[j]] /\ Best(t[j], f) = Best(t[j], e)
      BY <2>5, <2>8, <3>1
    <3> QED BY <2>2, <3>2 DEF Certified
  <2>10. f[o] \in Nat /\ Best(o, f) \in Nat /\ f[o] = Best(o, f) + Sec(o)
    <3>1. \A d \in DOMAIN e : e[d] \in Nat
      BY <2>2, <2>4 DEF Certified
    <3>2. \A d \in Range(StepAt(steps, o).depends_on) : e[d] \in Nat
      <4>1. n + 1 \in 1 .. (n + 1)
        BY <2>1
      <4>2. Deps(steps, o) \subseteq DOMAIN e
        BY <2>7, <4>1
      <4>3. Range(StepAt(steps, o).depends_on) = Deps(steps, o)
        BY <1>4, <2>4
      <4> QED BY <3>1, <4>2, <4>3
    <3>3. Best(o, e) \in Nat
      BY <1>4, <2>4, <3>2, BestStartLatest DEF Best
    <3>4. Best(o, f) = Best(o, e) /\ Sec(o) \in Nat
      BY <1>4, <2>1, <2>4, <2>8
    <3> QED BY <2>5, <3>3, <3>4
  <2>11. \A j \in 1 .. (n + 1) : j \in 1 .. n \/ t[j] = o
    BY <2>1
  <2>12. Certified(n + 1, f)
    BY <2>6, <2>9, <2>10, <2>11 DEF Certified
  <2> QED BY <2>1, <2>12 DEF Good, f
<1>7. N \in Good
  <2> HIDE DEF Good
  <2>1. \A n \in 0 .. N : n \in Good
    BY ONLY <1>2, <1>5, <1>6, UpFrom, 0 \in Nat
  <2> QED BY <1>2, <2>1
<1>8. Certified(N, end)
  BY <1>3, <1>7
<1> HIDE DEF Best, Sec
<1>9. DOMAIN end = O
  BY <1>2, <1>8
<1>10. \A o \in O : end[o] \in Nat /\ Best(o, end) \in Nat /\ end[o] = Best(o, end) + Sec(o)
  BY <1>2, <1>8
<1> QED BY <1>9, <1>10 DEF O, Best, Sec

\* What the forward pass knows of the predecessor: a step that can start at once has
\* none, any other one of its dependencies, which ends as it starts.
LEMMA PredecessorEndsThen ==
  ASSUME NEW step, step.depends_on \in Seq(Int), NEW e,
         \A d \in Range(step.depends_on) : e[d] \in Nat
  PROVE  \/ BestStart(step, e) = 0 /\ BestPred(step, e) = <<>>
         \/ /\ BestStart(step, e) # 0
            /\ \E d \in Range(step.depends_on) :
                 BestPred(step, e) = <<d>> /\ e[d] = BestStart(step, e)
<1> DEFINE deps == step.depends_on
           best == BestStart(step, e)
           At == {k \in DOMAIN deps : e[deps[k]] = best}
<1>1. CASE best = 0
  BY <1>1 DEF BestPred
<1>2. CASE best # 0
  <2>1. PICK d \in Range(deps) : e[d] = best
    BY <1>2, BestStartLatest
  <2>2. PICK k \in DOMAIN deps : deps[k] = d
    BY <2>1 DEF Range
  <2>3. At # {} /\ At \in SUBSET Int
    <3>1. k \in At
      BY <2>1, <2>2
    <3>2. DOMAIN deps \subseteq Int
      OBVIOUS
    <3> QED BY <3>1, <3>2
  <2>4. IsFiniteSet(At)
    <3>1. DOMAIN deps = 1 .. Len(deps) /\ Len(deps) \in Nat
      OBVIOUS
    <3>2. IsFiniteSet(DOMAIN deps)
      BY <3>1, FS_Interval
    <3> QED BY <3>2, FS_Subset
  <2>5. Min(At) \in At
    BY <2>3, <2>4, FiniteExtremes
  <2>6. BestPred(step, e) = << deps[Min(At)] >>
    BY <1>2 DEF BestPred
  <2>7. deps[Min(At)] \in Range(deps)
    BY <2>5 DEF Range
  <2> HIDE DEF deps
  <2> QED BY <1>2, <2>5, <2>6, <2>7 DEF deps
<1> QED BY <1>1, <1>2

\* The walk back: p[n] is the path after n steps of it.
Back(steps, end, from, N, p) ==
  p = [n \in 1 .. N |->
         IF n = 1 THEN <<from>>
         ELSE BestPred(StepAt(steps, Head(p[n - 1])), end) \o p[n - 1]]

LEMMA BackExists ==
  ASSUME NEW steps, NEW end, NEW from, NEW N \in Nat, N >= 1
  PROVE  \E p : Back(steps, end, from, N, p)
<1> DEFINE Next(path) == BestPred(StepAt(steps, Head(path)), end) \o path
           Is(f, n) == f = [k \in 1 .. n |-> IF k = 1 THEN <<from>> ELSE Next(f[k - 1])]
           Good == {n \in 1 .. N : \E f : Is(f, n)}
<1> HIDE DEF Next
<1>1. 1 \in Good
  <2>1. Is([k \in 1 .. 1 |-> <<from>>], 1)
    OBVIOUS
  <2>2. 1 \in 1 .. N
    OBVIOUS
  <2> HIDE DEF Is
  <2> QED BY <2>1, <2>2
<1>2. \A n \in 1 .. (N - 1) : n \in Good => n + 1 \in Good
  <2> SUFFICES ASSUME NEW n \in 1 .. (N - 1), n \in Good PROVE n + 1 \in Good
    OBVIOUS
  <2>1. PICK f : Is(f, n)
    OBVIOUS
  <2> DEFINE g == [k \in 1 .. (n + 1) |-> IF k = n + 1 THEN Next(f[n]) ELSE f[k]]
  <2>2. \A k \in 1 .. n : g[k] = f[k]
    OBVIOUS
  <2>3. \A k \in 1 .. (n + 1) : g[k] = IF k = 1 THEN <<from>> ELSE Next(g[k - 1])
    <3> SUFFICES ASSUME NEW k \in 1 .. (n + 1)
                 PROVE  g[k] = IF k = 1 THEN <<from>> ELSE Next(g[k - 1])
      OBVIOUS
    <3>1. CASE k = n + 1
      <4>1. k # 1 /\ k - 1 = n /\ n \in 1 .. n
        BY <3>1
      <4> QED BY <2>2, <3>1, <4>1
    <3>2. CASE k # n + 1 /\ k # 1
      <4>1. k \in 1 .. n /\ k - 1 \in 1 .. n
        BY <3>2
      <4>2. f[k] = Next(f[k - 1])
        BY <2>1, <3>2, <4>1
      <4> QED BY <2>2, <3>2, <4>1, <4>2
    <3>3. CASE k = 1
      <4>1. 1 \in 1 .. n /\ f[1] = <<from>>
        BY <2>1
      <4> QED BY <2>2, <3>3, <4>1
    <3> QED BY <3>1, <3>2, <3>3
  <2>4. Is(g, n + 1)
    <3>1. g = [k \in 1 .. (n + 1) |-> g[k]]
      OBVIOUS
    <3> HIDE DEF g
    <3> QED BY <2>3, <3>1
  <2>5. n + 1 \in 1 .. N
    OBVIOUS
  <2> HIDE DEF Is, g
  <2> QED BY <2>4, <2>5
<1>3. N \in Good
  <2> HIDE DEF Good
  <2>1. \A n \in 1 .. N : n \in Good
    BY ONLY <1>1, <1>2, UpFrom, 1 \in Nat, N \in Nat
  <2> QED BY <2>1
<1> QED BY <1>3 DEF Back, Next

\* The step the walk starts from: of those that end last the one of the highest order.
LastToEnd(end) == Max({o \in DOMAIN end : end[o] = MaxOf({end[p] : p \in DOMAIN end})})

LEMMA LastToEndIsCritical ==
  ASSUME NEW end, DOMAIN end \in SUBSET Int, DOMAIN end # {}, IsFiniteSet(DOMAIN end),
         \A o \in DOMAIN end : end[o] \in Nat
  PROVE  /\ LastToEnd(end) \in DOMAIN end
         /\ end[LastToEnd(end)] = MaxOf({end[p] : p \in DOMAIN end})
         /\ \A o \in DOMAIN end : end[o] <= end[LastToEnd(end)]
<1> DEFINE T == {end[p] : p \in DOMAIN end}
           L == {o \in DOMAIN end : end[o] = MaxOf(T)}
<1>1. T \in SUBSET Nat /\ IsFiniteSet(T) /\ \A o \in DOMAIN end : end[o] \in T
  BY ValuesFinite
<1>2. /\ MaxOf(T) \in Nat /\ MaxOf(T) \in T \cup {0} /\ \A x \in T : x <= MaxOf(T)
  BY ONLY <1>1, MaxOfTimes
<1>3. L # {}
  <2>1. CASE MaxOf(T) \in T
    BY <2>1
  <2>2. CASE MaxOf(T) = 0
    <3>1. PICK o \in DOMAIN end : TRUE
      OBVIOUS
    <3>2. end[o] \in Nat /\ end[o] <= 0
      BY <1>1, <1>2, <2>2
    <3>3. end[o] = MaxOf(T)
      BY <2>2, <3>2
    <3> QED BY <3>3
  <2> QED BY <1>2, <2>1, <2>2
<1>4. L \in SUBSET Int /\ IsFiniteSet(L)
  BY FS_Subset
<1>5. Max(L) \in L
  BY <1>3, <1>4, FiniteExtremes
<1>6. LastToEnd(end) = Max(L)
  BY DEF LastToEnd
<1> QED BY <1>1, <1>2, <1>5, <1>6

\* The walk back from there follows dependencies, each ending as the next step
\* starts, and gets to a step that starts at once before it runs out of steps.
IsPath(steps, end, path) ==
  /\ path \in Seq(Orders(steps)) /\ Len(path) >= 1
  /\ \A i \in 1 .. (Len(path) - 1) :
       /\ path[i] \in Deps(steps, path[i + 1])
       /\ end[path[i]] = BestStart(StepAt(steps, path[i + 1]), end)
  /\ BestStart(StepAt(steps, path[1]), end) = 0
  /\ path[Len(path)] = LastToEnd(end)

LEMMA CriticalPathFound ==
  ASSUME NEW S, NEW steps \in Seq(S), steps # <<>>, Timed(steps), DistinctOrders(steps),
         Topological(steps, TopologicalOrder(steps)), NEW end, end = EarliestEnd(steps)
  PROVE  /\ IsPath(steps, end, CriticalPath(steps))
         /\ LastToEnd(end) \in Orders(steps)
         /\ end[LastToEnd(end)] = MaxOf({end[p] : p \in DOMAIN end})
         /\ \A o \in Orders(steps) : end[o] <= end[LastToEnd(end)]
<1> DEFINE O == Orders(steps)
           N == Len(steps)
           Best(o) == BestStart(StepAt(steps, o), end)
           Pred(o) == BestPred(StepAt(steps, o), end)
           last == LastToEnd(end)
<1>1. /\ DOMAIN end = O
      /\ \A o \in O : end[o] \in Nat
  BY EndsCertified
<1>2. PICK t : t = TopologicalOrder(steps)
  OBVIOUS
<1>3. /\ \A i \in 1 .. N : Deps(steps, t[i]) \subseteq {t[j] : j \in 1 .. (i - 1)}
      /\ \A o \in O : \E i \in 1 .. N : t[i] = o
      /\ \A i \in 1 .. N : t[i] \in O
      /\ N \in Nat /\ N >= 1
  <2>1. Topological(steps, t)
    BY <1>2
  <2>2. t \in Seq(O) /\ Len(t) = N
    BY <2>1 DEF Topological
  <2>3. \A i \in 1 .. N : t[i] \in O
    BY <2>2
  <2>4. N \in Nat /\ N >= 1
    OBVIOUS
  <2> HIDE DEF O, N
  <2> QED BY <2>1, <2>2, <2>3, <2>4 DEF Topological, O, N
<1>4. O \in SUBSET Int /\ IsFiniteSet(O) /\ O # {}
  <2>1. IsFiniteSet(O)
    BY OneStepPerOrder
  <2>2. O \in SUBSET Int
    BY LookupTyped
  <2>3. 1 \in DOMAIN steps
    OBVIOUS
  <2>4. steps[1].order \in O
    BY <2>3, OneStepPerOrder
  <2> QED BY <2>1, <2>2, <2>4
<1>5. /\ last \in O /\ end[last] = MaxOf({end[p] : p \in DOMAIN end})
      /\ \A o \in O : end[o] <= end[last]
  BY <1>1, <1>4, LastToEndIsCritical
<1>6. \A o \in O : \/ Best(o) = 0 /\ Pred(o) = <<>>
                   \/ \E d \in Deps(steps, o) : Pred(o) = <<d>> /\ d \in O /\ end[d] = Best(o)
  <2> SUFFICES ASSUME NEW o \in O
               PROVE  \/ Best(o) = 0 /\ Pred(o) = <<>>
                      \/ \E d \in Deps(steps, o) : Pred(o) = <<d>> /\ d \in O /\ end[d] = Best(o)
    OBVIOUS
  <2>1. Deps(steps, o) \subseteq O
    <3>1. PICK i \in 1 .. N : t[i] = o
      BY <1>3
    <3>2. \A j \in 1 .. (i - 1) : j \in 1 .. N
      BY <1>3
    <3> HIDE DEF O, N
    <3>3. Deps(steps, t[i]) \subseteq {t[j] : j \in 1 .. (i - 1)}
      BY <1>3
    <3>4. {t[j] : j \in 1 .. (i - 1)} \subseteq O
      BY <1>3, <3>2
    <3> QED BY <3>1, <3>3, <3>4
  <2>2. Deps(steps, o) = Range(StepAt(steps, o).depends_on)
    BY DEF Deps
  <2>3. StepAt(steps, o).depends_on \in Seq(Int)
    BY LookupTyped
  <2>4. \A d \in Range(StepAt(steps, o).depends_on) : end[d] \in Nat
    BY <1>1, <2>1, <2>2
  <2> HIDE DEF O, N
  <2> QED BY <2>1, <2>2, <2>3, <2>4, PredecessorEndsThen
<1> DEFINE IsBack(f) == f = [n \in 1 .. N |->
                               IF n = 1 THEN <<last>> ELSE Pred(Head(f[n - 1])) \o f[n - 1]]
           p == CHOOSE f : IsBack(f)
           whole == {n \in 1 .. N : Pred(Head(p[n])) = <<>>}
<1>7. IsBack(p)
  <2> HIDE DEF N, last
  <2>1. \E f : Back(steps, end, last, N, f)
    BY <1>3, BackExists
  <2>2. \E f : IsBack(f)
    BY <2>1 DEF Back
  <2> HIDE DEF IsBack
  <2> QED BY <2>2
<1>8. CriticalPath(steps) = p[Min(whole)]
  BY DEF CriticalPath, LastToEnd
<1> HIDE DEF p, O, N, last, Best, Pred
<1>9. /\ p[1] = <<last>>
      /\ \A n \in 1 .. (N - 1) : p[n + 1] = Pred(Head(p[n])) \o p[n]
  <2>1. 1 \in 1 .. N
    BY <1>3
  <2>2. \A n \in 1 .. (N - 1) : n + 1 \in 1 .. N /\ n + 1 # 1 /\ (n + 1) - 1 = n
    BY <1>3
  <2> QED BY <1>7, <2>1, <2>2
<1> DEFINE Walked(n) ==
             /\ p[n] \in Seq(O) /\ Len(p[n]) = n
             /\ \A i \in 1 .. (n - 1) : /\ p[n][i] \in Deps(steps, p[n][i + 1])
                                        /\ end[p[n][i]] = Best(p[n][i + 1])
             /\ p[n][n] = last
             /\ \E k \in 1 .. (N - n + 1) : t[k] = p[n][1]
           Good == {n \in 1 .. N : (\A m \in 1 .. (n - 1) : m \notin whole) => Walked(n)}
<1>10. 1 \in Good
  <2>1. PICK k \in 1 .. N : t[k] = last
    BY <1>3, <1>5
  <2>2. /\ <<last>> \in Seq(O) /\ Len(<<last>>) = 1 /\ <<last>>[1] = last
        /\ 1 .. (1 - 1) = {} /\ N - 1 + 1 = N /\ 1 \in 1 .. N
    BY <1>3, <1>5
  <2>3. Walked(1)
    BY <1>9, <2>1, <2>2
  <2> HIDE DEF Walked
  <2> QED BY <2>2, <2>3
<1>11. \A n \in 1 .. (N - 1) : n \in Good => n + 1 \in Good
  <2> SUFFICES ASSUME NEW n \in 1 .. (N - 1), n \in Good,
                      \A m \in 1 .. n : m \notin whole
               PROVE  Walked(n + 1)
    <3>1. \A n \in 1 .. (N - 1) : n + 1 \in 1 .. N /\ (n + 1) - 1 = n
      BY <1>3
    <3> HIDE DEF Walked, whole
    <3> QED BY <3>1
  <2>1. n \in Nat /\ n >= 1 /\ n \in 1 .. N /\ n \in 1 .. n /\ \A m \in 1 .. (n - 1) : m \in 1 .. n
    BY <1>3
  <2>2. Walked(n)
    <3> HIDE DEF Walked, whole
    <3> QED BY <2>1
  <2> DEFINE q == p[n]
             r == p[n + 1]
             o == q[1]
  <2>3. /\ q \in Seq(O) /\ Len(q) = n /\ q[n] = last
        /\ \A i \in 1 .. (n - 1) : q[i] \in Deps(steps, q[i + 1]) /\ end[q[i]] = Best(q[i + 1])
    BY <2>2
  <2>4. PICK k \in 1 .. (N - n + 1) : t[k] = o
    BY <2>2
  <2>5. o \in O /\ Head(q) = o
    <3> HIDE DEF q
    <3> QED BY <2>1, <2>3
  <2>6. Pred(o) # <<>>
    BY <2>1, <2>5 DEF whole
  <2>7. PICK d \in Deps(steps, o) : Pred(o) = <<d>> /\ d \in O /\ end[d] = Best(o)
    <3> HIDE DEF o
    <3> QED BY <1>6, <2>5, <2>6
  <2>8. r = <<d>> \o q
    BY <1>9, <2>5, <2>7
  <2> HIDE DEF q, r, Walked, Good, whole
  <2>9. <<d>> \in Seq(O) /\ Len(<<d>>) = 1 /\ <<d>>[1] = d
    BY <2>7
  <2>10. /\ r \in Seq(O) /\ Len(r) = 1 + n
         /\ \A i \in 1 .. 1 + n : r[i] = IF i <= 1 THEN <<d>>[i] ELSE q[i - 1]
    BY ONLY <2>3, <2>8, <2>9, ConcatProperties
  <2>11. /\ Len(r) = n + 1 /\ r[1] = d /\ \A i \in 1 .. n : r[i + 1] = q[i]
    <3>1. \A i \in 1 .. n : i + 1 \in 1 .. 1 + n /\ ~(i + 1 <= 1) /\ (i + 1) - 1 = i
      BY <2>1
    <3>2. 1 \in 1 .. 1 + n /\ 1 + n = n + 1
      BY <2>1
    <3> QED BY <2>9, <2>10, <3>1, <3>2
  <2>12. ASSUME NEW i \in 1 .. n
         PROVE  r[i] \in Deps(steps, r[i + 1]) /\ end[r[i]] = Best(r[i + 1])
    <3>1. CASE i = 1
      BY <2>1, <2>7, <2>11, <3>1
    <3>2. CASE i # 1
      <4>1. PICK j \in 1 .. (n - 1) : i = j + 1
        <5>1. i - 1 \in 1 .. (n - 1) /\ i = (i - 1) + 1
          BY <2>1, <3>2
        <5> QED BY <5>1
      <4>2. j \in 1 .. n
        BY <2>1
      <4> QED BY <2>3, <2>11, <4>1, <4>2
    <3> QED BY <3>1, <3>2
  <2>13. \E l \in 1 .. (N - (n + 1) + 1) : t[l] = r[1]
    <3>1. k \in 1 .. N /\ k \in Nat /\ k <= N - n + 1
      BY <1>3, <2>1
    <3>2. PICK l \in 1 .. (k - 1) : t[l] = d
      <4>1. Deps(steps, t[k]) \subseteq {t[j] : j \in 1 .. (k - 1)}
        BY <1>3, <3>1
      <4>2. d \in Deps(steps, t[k])
        BY <2>4, <2>7
      <4> QED BY <4>1, <4>2
    <3>3. l \in 1 .. (N - (n + 1) + 1)
      BY <1>3, <2>1, <3>1
    <3> QED BY <2>11, <3>2, <3>3
  <2>14. r[n + 1] = last /\ (n + 1) - 1 = n
    BY <2>1, <2>3, <2>11
  <2> QED BY <2>10, <2>11, <2>12, <2>13, <2>14 DEF Walked, r
<1>12. \A n \in 1 .. N : n \in Good
  <2> HIDE DEF Good
  <2> QED BY ONLY <1>3, <1>10, <1>11, UpFrom, 1 \in Nat
<1>13. \A n \in 1 .. N : Walked(n) => p[n][1] \in O /\ Head(p[n]) = p[n][1]
  <2> SUFFICES ASSUME NEW n \in 1 .. N, Walked(n) PROVE p[n][1] \in O /\ Head(p[n]) = p[n][1]
    OBVIOUS
  <2>1. PICK q : q = p[n]
    OBVIOUS
  <2>2. q \in Seq(O) /\ Len(q) = n /\ n >= 1
    BY <1>3, <2>1
  <2>3. q[1] \in O /\ Head(q) = q[1]
    BY <2>2
  <2> QED BY <2>1, <2>3
<1>14. whole # {}
  <2> SUFFICES ASSUME whole = {} PROVE FALSE
    OBVIOUS
  <2>1. N \in 1 .. N /\ N - N + 1 = 1
    BY <1>3
  <2>2. Walked(N)
    <3> HIDE DEF Walked
    <3> QED BY <1>12, <2>1
  <2>3. PICK k \in 1 .. 1 : t[k] = p[N][1]
    BY <2>1, <2>2
  <2>4. k = 1 /\ 1 \in 1 .. N /\ 1 .. (1 - 1) = {}
    BY <1>3
  <2>5. Deps(steps, p[N][1]) = {}
    BY <1>3, <2>3, <2>4
  <2>6. Pred(p[N][1]) = <<>>
    BY <1>6, <1>13, <2>1, <2>2, <2>5
  <2> HIDE DEF Walked
  <2> QED BY <1>13, <2>1, <2>2, <2>6
<1>15. whole \in SUBSET Nat
  BY <1>3
<1> DEFINE m == Min(whole)
<1>16. m \in whole /\ \A n \in whole : m <= n
  <2>1. \E n \in whole : \A k \in whole : n <= k
    BY <1>14, <1>15, Least
  <2> HIDE DEF whole
  <2> QED BY <2>1 DEF Min
<1> HIDE DEF m
<1>17. m \in 1 .. N /\ m \in Nat /\ m >= 1 /\ Pred(Head(p[m])) = <<>>
  BY <1>3, <1>16
<1>18. Walked(m)
  <2>1. \A n \in 1 .. (m - 1) : n \notin whole
    <3> SUFFICES ASSUME NEW n \in 1 .. (m - 1), n \in whole PROVE FALSE
      OBVIOUS
    <3>1. m <= n
      BY <1>16
    <3> QED BY <1>17, <3>1
  <2> HIDE DEF Walked, whole
  <2> QED BY <1>12, <1>17, <2>1
<1>19. Best(p[m][1]) = 0
  <2>1. p[m][1] \in O /\ Pred(p[m][1]) = <<>>
    BY <1>13, <1>17, <1>18
  <2>2. ~ \E d \in Deps(steps, p[m][1]) : Pred(p[m][1]) = <<d>> /\ d \in O /\ end[d] = Best(p[m][1])
    BY <2>1
  <2> QED BY ONLY <1>6, <2>1, <2>2
<1> DEFINE path == p[m]
<1>20. /\ path \in Seq(O) /\ Len(path) = m /\ m >= 1
       /\ \A i \in 1 .. (m - 1) : path[i] \in Deps(steps, path[i + 1]) /\ end[path[i]] = Best(path[i + 1])
       /\ path[m] = last /\ Best(path[1]) = 0
  BY <1>17, <1>18, <1>19
<1> HIDE DEF path
<1>21. IsPath(steps, end, path)
  BY <1>20 DEF IsPath, O, Best, last
<1>22. CriticalPath(steps) = path
  BY <1>8 DEF path, m
<1> QED BY <1>5, <1>21, <1>22 DEF last, O

\* The durations along such a path add up to the time at which its last step ends.
LEMMA PathAddsUp ==
  ASSUME NEW steps, NEW end, NEW path, IsPath(steps, end, path),
         \A o \in Orders(steps) :
           /\ end[o] \in Nat /\ StepAt(steps, o).estimated_seconds \in Nat
           /\ end[o] = BestStart(StepAt(steps, o), end) + StepAt(steps, o).estimated_seconds
  PROVE  FoldLeft(LAMBDA sum, o : sum + StepAt(steps, o).estimated_seconds, 0, path)
           = end[LastToEnd(end)]
<1> DEFINE n == Len(path)
           Sec(o) == StepAt(steps, o).estimated_seconds
<1>1. path \in Seq(Orders(steps)) /\ n \in Nat /\ n >= 1 /\ DOMAIN path = 1 .. n
  BY DEF IsPath
<1>2. \A acc, x : OneTurn("path", steps, acc, x) = acc + Sec(x)
  BY DEF OneTurn
<1> DEFINE IsFold(it) == it = [T \in SUBSET DOMAIN path |->
                            IF T = {} THEN 0 ELSE it[T \ {Max(T)}] + Sec(path[Max(T)])]
<1>3. FoldLeft(LAMBDA sum, o : sum + StepAt(steps, o).estimated_seconds, 0, path)
        = (CHOOSE it : IsFold(it))[DOMAIN path]
  BY DEF FoldLeft, MapThenFoldSet
<1>4. \A it : IsFold(it) <=> Folds("path", steps, 0, path, DOMAIN path, it)
  BY <1>2 DEF Folds
<1> DEFINE iter == CHOOSE it : IsFold(it)
<1> HIDE DEF IsFold
<1>5. Folds("path", steps, 0, path, DOMAIN path, iter)
  BY <1>1, <1>4, FoldExists
<1> HIDE DEF iter
<1>6. PICK v : Trace("path", steps, 0, path, v) /\ iter[DOMAIN path] = v[Len(path)]
  BY ONLY <1>1, <1>5, FoldTrace
<1>7. v[0] = 0 /\ \A i \in 1 .. n : v[i] = v[i - 1] + Sec(path[i])
  BY <1>2, <1>6 DEF Trace
<1> HIDE DEF n
<1>8. \A i \in 1 .. n : /\ path[i] \in Orders(steps)
                        /\ end[path[i]] \in Nat /\ Sec(path[i]) \in Nat
                        /\ end[path[i]] = BestStart(StepAt(steps, path[i]), end) + Sec(path[i])
  BY <1>1
<1> DEFINE Good == {i \in 1 .. n : v[i] = end[path[i]]}
<1>9. 1 \in Good
  <2>1. 1 \in 1 .. n /\ 1 - 1 = 0
    BY <1>1
  <2>2. BestStart(StepAt(steps, path[1]), end) = 0
    BY DEF IsPath
  <2> HIDE DEF Sec
  <2> QED BY <1>7, <1>8, <2>1, <2>2
<1>10. \A i \in 1 .. (n - 1) : i \in Good => i + 1 \in Good
  <2> SUFFICES ASSUME NEW i \in 1 .. (n - 1), i \in Good PROVE i + 1 \in Good
    OBVIOUS
  <2>1. i + 1 \in 1 .. n /\ (i + 1) - 1 = i
    BY <1>1
  <2>2. end[path[i]] = BestStart(StepAt(steps, path[i + 1]), end)
    BY DEF IsPath, n
  <2> HIDE DEF Sec
  <2>3. v[i + 1] = v[i] + Sec(path[i + 1])
    BY <1>7, <2>1
  <2> QED BY <1>8, <2>1, <2>2, <2>3
<1>11. n \in Good
  <2> HIDE DEF Good
  <2>1. \A i \in 1 .. n : i \in Good
    BY ONLY <1>1, <1>9, <1>10, UpFrom, 1 \in Nat
  <2> QED BY <1>1, <2>1
<1>12. path[n] = LastToEnd(end)
  BY DEF IsPath, n
<1> QED BY <1>3, <1>6, <1>11, <1>12 DEF iter, n

-----------------------------------------------------------------------------
(* The greedy schedule                                                     *)

\* _cycle_time_for_channels goes through the topological order.
Unused(channels) ==
  [free |-> [c \in 0 .. (channels - 1) |-> 0], end |-> [o \in {} |-> 0], makespan |-> 0]

Sweep(steps, channels, v) ==
  /\ v[0] = Unused(channels)
  /\ \A i \in 1 .. Len(TopologicalOrder(steps)) :
       v[i] = Occupied(steps, v[i - 1], TopologicalOrder(steps)[i])

LEMMA SweepTrace ==
  ASSUME NEW steps, NEW channels, NEW S, TopologicalOrder(steps) \in Seq(S)
  PROVE  \E v : /\ Sweep(steps, channels, v)
                /\ CycleTimeForChannels(steps, channels)
                     = v[Len(TopologicalOrder(steps))].makespan
<1> DEFINE none == Unused(channels)
<1>1. \A acc, x : OneTurn("channels", steps, acc, x) = Occupied(steps, acc, x)
  BY DEF OneTurn
<1>2. PICK t : t = TopologicalOrder(steps)
  OBVIOUS
<1>3. t \in Seq(S)
  BY <1>2
<1> DEFINE IsFold(it) == it = [T \in SUBSET DOMAIN t |->
                            IF T = {} THEN none
                            ELSE Occupied(steps, it[T \ {Max(T)}], t[Max(T)])]
<1>4. CycleTimeForChannels(steps, channels) = (CHOOSE it : IsFold(it))[DOMAIN t].makespan
  BY <1>2 DEF CycleTimeForChannels, FoldLeft, MapThenFoldSet, Occupied, EndFor, ChannelFor, Unused
<1>5. \A it : IsFold(it) <=> Folds("channels", steps, none, t, DOMAIN t, it)
  BY <1>1 DEF Folds
<1> DEFINE iter == CHOOSE it : IsFold(it)
<1> HIDE DEF IsFold, none
<1>6. Folds("channels", steps, none, t, DOMAIN t, iter)
  BY <1>3, <1>5, FoldExists
<1>7. CycleTimeForChannels(steps, channels) = iter[DOMAIN t].makespan
  BY <1>4
<1> HIDE DEF iter
<1>8. PICK v : Trace("channels", steps, none, t, v) /\ iter[DOMAIN t] = v[Len(t)]
  BY ONLY <1>3, <1>6, FoldTrace
<1>9. /\ v[0] = none
      /\ \A i \in 1 .. Len(t) : v[i] = Occupied(steps, v[i - 1], t[i])
      /\ CycleTimeForChannels(steps, channels) = v[Len(t)].makespan
  BY <1>1, <1>7, <1>8 DEF Trace
<1> QED BY <1>2, <1>9 DEF none, Sweep

\* The channel to choose is unique, ...
LEMMA PickIsUnique ==
  ASSUME NEW C \in SUBSET Int, NEW free \in [C -> Nat], NEW dep_end \in Nat,
         NEW c \in C, IsPick(free, dep_end, c)
  PROVE  (CHOOSE k \in DOMAIN free : IsPick(free, dep_end, k)) = c
<1>1. \A k \in C : StartOn(free, dep_end, k) \in Nat /\ free[k] \in Nat
  BY DEF StartOn
<1>2. ASSUME NEW k \in C, IsPick(free, dep_end, k)
      PROVE  k = c
  <2>1. Prefers(free, dep_end, k, c) /\ Prefers(free, dep_end, c, k)
    BY <1>2 DEF IsPick
  <2>2. k \in Int /\ c \in Int
    OBVIOUS
  <2> QED BY <1>1, <2>1, <2>2 DEF Prefers
<1> QED BY <1>2

\* ... and next to a channel that has never been used it makes nothing wait.
LEMMA IdlePick ==
  ASSUME NEW C \in SUBSET Int, NEW free \in [C -> Nat], NEW dep_end \in Nat,
         NEW c \in C, IsPick(free, dep_end, c), NEW u \in C, free[u] = 0
  PROVE  StartOn(free, dep_end, c) = dep_end
<1>1. Prefers(free, dep_end, c, u)
  BY DEF IsPick
<1>2. StartOn(free, dep_end, u) = dep_end
  BY DEF StartOn
<1>3. free[c] \in Nat
  OBVIOUS
<1>4. StartOn(free, dep_end, c) \in Nat /\ dep_end <= StartOn(free, dep_end, c)
  BY <1>3 DEF StartOn
<1> QED BY <1>1, <1>2, <1>4 DEF Prefers

\* The greatest and the least of integers are what they say.
LEMMA MinIs ==
  ASSUME NEW T \in SUBSET Int, NEW m \in T, \A x \in T : m <= x
  PROVE  Min(T) = m
<1>1. \A k \in T : (\A x \in T : k <= x) => k = m
  OBVIOUS
<1> QED BY <1>1 DEF Min

LEMMA MaxIs ==
  ASSUME NEW T \in SUBSET Int, NEW m \in T, \A x \in T : x <= m
  PROVE  Max(T) = m
<1>1. \A k \in T : (\A x \in T : k >= x) => k = m
  OBVIOUS
<1>2. \A x \in T : m >= x
  OBVIOUS
<1> QED BY <1>1, <1>2 DEF Max

\* The seconds of the steps whose order is in P, added up in list order.
Spends(steps, P, s) ==
  /\ s[0] = 0
  /\ \A n \in 1 .. Len(steps) :
       s[n] = s[n - 1] + (IF steps[n].order \in P THEN steps[n].estimated_seconds ELSE 0)

Spent(steps, P) == (CHOOSE s : Spends(steps, P, s))[Len(steps)]

LEMMA SpentSum ==
  ASSUME NEW S, NEW steps \in Seq(S), NEW P
  PROVE  \E s : Spends(steps, P, s) /\ Spent(steps, P) = s[Len(steps)]
<1>1. DOMAIN steps = 1 .. Len(steps) /\ Len(steps) \in Nat
  OBVIOUS
<1>2. PICK iter : Folds("spent", P, 0, steps, DOMAIN steps, iter)
  BY <1>1, FoldExists
<1>3. PICK s : Trace("spent", P, 0, steps, s)
  BY ONLY steps \in Seq(S), <1>2, FoldTrace
<1>4. \A acc, x : OneTurn("spent", P, acc, x)
                    = acc + (IF x.order \in P THEN x.estimated_seconds ELSE 0)
  BY DEF OneTurn
<1>5. Spends(steps, P, s)
  BY <1>3, <1>4 DEF Trace, Spends
<1> DEFINE r == CHOOSE s_1 : Spends(steps, P, s_1)
<1>6. Spends(steps, P, r)
  BY <1>5
<1> QED BY <1>6 DEF Spent

\* With one more step it is that step's seconds more.
LEMMA SpentMore ==
  ASSUME NEW S, NEW steps \in Seq(S), Timed(steps), DistinctOrders(steps),
         NEW P, NEW o \in Orders(steps) \ P
  PROVE  /\ Spent(steps, P) \in Nat
         /\ Spent(steps, P \cup {o}) = Spent(steps, P) + StepAt(steps, o).estimated_seconds
<1> DEFINE N == Len(steps)
           sec == StepAt(steps, o).estimated_seconds
           Q == P \cup {o}
<1>1. N \in Nat /\ DOMAIN steps = 1 .. N
  OBVIOUS
<1>2. PICK k \in 1 .. N : steps[k].order = o /\ StepAt(steps, o) = steps[k]
  BY <1>1, OneStepPerOrder
<1>3. \A n \in 1 .. N : steps[n].estimated_seconds \in Nat
  BY <1>1 DEF Timed
<1>4. sec = steps[k].estimated_seconds /\ sec \in Nat
  BY <1>2, <1>3
<1>5. \A n \in 1 .. N : n # k => steps[n].order # o
  BY <1>1, <1>2 DEF DistinctOrders
<1>6. PICK s : Spends(steps, P, s) /\ Spent(steps, P) = s[N]
  BY SpentSum
<1>7. PICK r : Spends(steps, Q, r) /\ Spent(steps, Q) = r[N]
  BY SpentSum
<1> DEFINE Own(n) == IF steps[n].order \in P THEN steps[n].estimated_seconds ELSE 0
           Ahead(n) == s[n] \in Nat /\ r[n] = s[n] + (IF k <= n THEN sec ELSE 0)
           Good == {n \in 0 .. N : Ahead(n)}
<1> HIDE DEF N, sec, Q
<1>8. \A n \in 1 .. N : /\ s[n] = s[n - 1] + Own(n)
                        /\ r[n] = r[n - 1] + (IF n = k THEN sec ELSE Own(n))
                        /\ Own(n) \in Nat
  <2> SUFFICES ASSUME NEW n \in 1 .. N
               PROVE  /\ s[n] = s[n - 1] + Own(n)
                      /\ r[n] = r[n - 1] + (IF n = k THEN sec ELSE Own(n))
                      /\ Own(n) \in Nat
    OBVIOUS
  <2>1. s[n] = s[n - 1] + Own(n)
    BY <1>6 DEF Spends, N
  <2>2. Own(n) \in Nat
    BY <1>3
  <2>3. r[n] = r[n - 1] + (IF steps[n].order \in Q THEN steps[n].estimated_seconds ELSE 0)
    BY <1>7 DEF Spends, N
  <2>4. CASE n = k
    <3>1. steps[n].order \in Q
      BY <1>2, <2>4 DEF Q
    <3> QED BY <1>4, <2>1, <2>2, <2>3, <2>4, <3>1
  <2>5. CASE n # k
    <3>1. steps[n].order \in Q <=> steps[n].order \in P
      BY <1>5, <2>5 DEF Q
    <3> QED BY <2>1, <2>2, <2>3, <2>5, <3>1
  <2> QED BY <2>4, <2>5
<1>9. s[0] = 0 /\ r[0] = 0 /\ k \in Nat /\ k >= 1 /\ k <= N
  BY <1>1, <1>6, <1>7 DEF Spends
<1>10. 0 \in Good
  <2>1. ~(k <= 0) /\ 0 + 0 = 0 /\ 0 \in 0 .. N
    BY <1>1, <1>9
  <2>2. Ahead(0)
    BY <1>9, <2>1
  <2> HIDE DEF Ahead
  <2> QED BY <2>1, <2>2
<1>11. \A n \in 0 .. (N - 1) : n \in Good => n + 1 \in Good
  <2> SUFFICES ASSUME NEW n \in 0 .. (N - 1), n \in Good PROVE n + 1 \in Good
    OBVIOUS
  <2>1. n \in Nat /\ n + 1 \in 1 .. N /\ n + 1 \in 0 .. N /\ (n + 1) - 1 = n
    BY <1>1
  <2>2. /\ s[n + 1] = s[n] + Own(n + 1)
        /\ r[n + 1] = r[n] + (IF n + 1 = k THEN sec ELSE Own(n + 1))
        /\ Own(n + 1) \in Nat
    BY <1>8, <2>1
  <2>3. Ahead(n)
    OBVIOUS
  <2>4. n + 1 = k => Own(n + 1) = 0
    BY <1>2
  <2> HIDE DEF Own
  <2>5. Ahead(n + 1)
    BY <1>4, <1>9, <2>1, <2>2, <2>3, <2>4
  <2> QED BY <2>1, <2>5
<1>12. Ahead(N)
  <2> HIDE DEF Ahead
  <2>1. 0 \in Good /\ \A n \in 0 .. (N - 1) : n \in Good => n + 1 \in Good
    BY <1>10, <1>11
  <2>2. \A n \in Good : Ahead(n)
    OBVIOUS
  <2> HIDE DEF Good
  <2>3. \A n \in 0 .. N : n \in Good
    BY ONLY <1>1, <2>1, UpFrom, 0 \in Nat
  <2> QED BY <1>1, <2>2, <2>3
<1>13. Spent(steps, P) \in Nat /\ Spent(steps, Q) = Spent(steps, P) + sec
  BY <1>6, <1>7, <1>9, <1>12
<1> QED BY <1>13 DEF sec, Q

\* All the steps together take as long as the sequential run.
LEMMA SpentOnAll ==
  ASSUME NEW S, NEW steps \in Seq(S)
  PROVE  Spent(steps, Orders(steps)) = SequentialSeconds(steps)
<1> DEFINE N == Len(steps)
<1>1. N \in Nat /\ DOMAIN steps = 1 .. N
  OBVIOUS
<1>2. \A acc, x : OneTurn("sum", steps, acc, x) = acc + x.estimated_seconds
  BY DEF OneTurn
<1> DEFINE IsFold(it) == it = [T \in SUBSET DOMAIN steps |->
                            IF T = {} THEN 0
                            ELSE it[T \ {Max(T)}] + steps[Max(T)].estimated_seconds]
<1>3. SequentialSeconds(steps) = (CHOOSE it : IsFold(it))[DOMAIN steps]
  BY DEF SequentialSeconds, FoldLeft, MapThenFoldSet
<1>4. \A it : IsFold(it) <=> Folds("sum", steps, 0, steps, DOMAIN steps, it)
  BY ONLY <1>2, ZenonT(60) DEF Folds
<1> DEFINE iter == CHOOSE it : IsFold(it)
<1> HIDE DEF IsFold
<1>5. Folds("sum", steps, 0, steps, DOMAIN steps, iter)
  BY <1>1, <1>4, FoldExists
<1> HIDE DEF iter
<1>6. PICK v : Trace("sum", steps, 0, steps, v) /\ iter[DOMAIN steps] = v[Len(steps)]
  BY ONLY steps \in Seq(S), <1>5, FoldTrace
<1>7. /\ v[0] = 0 /\ \A n \in 1 .. N : v[n] = v[n - 1] + steps[n].estimated_seconds
      /\ SequentialSeconds(steps) = v[N]
  BY <1>2, <1>3, <1>6 DEF Trace, iter
<1>8. PICK s : Spends(steps, Orders(steps), s) /\ Spent(steps, Orders(steps)) = s[N]
  BY SpentSum
<1> HIDE DEF N
<1>9. s[0] = 0 /\ \A n \in 1 .. N : s[n] = s[n - 1] + steps[n].estimated_seconds
  <2>1. \A n \in 1 .. N : steps[n].order \in Orders(steps)
    BY <1>1 DEF Orders, Range
  <2> QED BY <1>8, <2>1 DEF Spends, N
<1> DEFINE Good == {n \in 0 .. N : s[n] = v[n]}
<1>10. 0 \in Good
  BY <1>1, <1>7, <1>9
<1>11. \A n \in 0 .. (N - 1) : n \in Good => n + 1 \in Good
  <2> SUFFICES ASSUME NEW n \in 0 .. (N - 1), n \in Good PROVE n + 1 \in Good
    OBVIOUS
  <2>1. n + 1 \in 1 .. N /\ n + 1 \in 0 .. N /\ (n + 1) - 1 = n
    BY <1>1
  <2>2. s[n + 1] = s[n] + steps[n + 1].estimated_seconds
    BY <1>9, <2>1
  <2>3. v[n + 1] = v[n] + steps[n + 1].estimated_seconds
    BY <1>7, <2>1
  <2> QED BY <2>1, <2>2, <2>3
<1>12. N \in Good
  <2> HIDE DEF Good
  <2>1. \A n \in 0 .. N : n \in Good
    BY ONLY <1>1, <1>10, <1>11, UpFrom, 0 \in Nat
  <2> QED BY <1>1, <2>1
<1> QED BY <1>7, <1>8, <1>12

-----------------------------------------------------------------------------
(* The validator                                                           *)

\* The loop over the steps only ever reports errors, and reports none exactly if
\* no turn of it does.
LEMMA IssuesOfLoop ==
  ASSUME NEW spec, NEW steps, NEW unlocked, NEW seen
  PROVE  /\ \A issue \in StepIssues(spec, steps, unlocked, seen) : issue.severity = "error"
         /\ StepIssues(spec, steps, unlocked, seen) = {} <=>
              \A i \in DOMAIN steps :
                StepErrors(spec, steps[i], UnlockedAt(spec, steps, i, unlocked),
                           SeenBefore(steps, i, seen)) = {}
<1> DEFINE Errors(i) == StepErrors(spec, steps[i], UnlockedAt(spec, steps, i, unlocked),
                                   SeenBefore(steps, i, seen))
<1>1. StepIssues(spec, steps, unlocked, seen) =
        UNION {{Issue("error", about, <<steps[i].order>>, steps[i].ecu_id) :
                  about \in Errors(i)} : i \in DOMAIN steps}
  BY DEF StepIssues
<1> HIDE DEF Errors
<1>2. \A issue : issue \in StepIssues(spec, steps, unlocked, seen) <=>
        \E i \in DOMAIN steps : \E about \in Errors(i) :
          issue = Issue("error", about, <<steps[i].order>>, steps[i].ecu_id)
  BY <1>1
<1>3. \A about, orders, id : Issue("error", about, orders, id).severity = "error"
  BY DEF Issue
<1>4. (\A issue : issue \notin StepIssues(spec, steps, unlocked, seen)) <=>
        \A i \in DOMAIN steps : Errors(i) = {}
  BY <1>2
<1>5. ASSUME NEW issue \in StepIssues(spec, steps, unlocked, seen)
      PROVE  issue.severity = "error"
  <2>1. PICK i \in DOMAIN steps : \E about \in Errors(i) :
          issue = Issue("error", about, <<steps[i].order>>, steps[i].ecu_id)
    BY <1>2
  <2> QED BY <1>3, <2>1
<1> QED BY <1>4, <1>5 DEF Errors

\* What the validator lets pass runs: on a bench that is at least as far as the
\* validator was told, with the orders done and the ECUs unlocked, steps without
\* an issue are all carried out.
THEOREM ValidatedStepsRun ==
  ASSUME NEW spec, NEW bench, NEW S, NEW steps \in Seq(S), bench = StateAfter(bench, steps, 0),
         NEW unlocked, unlocked \subseteq bench.unlocked,
         NEW seen, seen \subseteq bench.done,
         StepIssues(spec, steps, unlocked, seen) = {}
  PROVE  BenchAfter(spec, bench, steps) = StateAfter(bench, steps, Len(steps))
<1> SUFFICES ASSUME NEW k \in 0 .. (Len(steps) - 1)
             PROVE  Possible(spec, StateAfter(bench, steps, k), steps[k + 1])
  BY BenchCompletes
<1> DEFINE i == k + 1
           b == StateAfter(bench, steps, k)
           step == steps[i]
           errors == StepErrors(spec, step, UnlockedAt(spec, steps, i, unlocked),
                                SeenBefore(steps, i, seen))
<1>1. i \in DOMAIN steps /\ i - 1 = k /\ k \in Nat /\ i \in Nat
  OBVIOUS
<1>2. errors = {}
  <2> SUFFICES ASSUME NEW about \in errors PROVE FALSE
    OBVIOUS
  <2>1. Issue("error", about, <<step.order>>, step.ecu_id)
          \in {Issue("error", a, <<step.order>>, step.ecu_id) : a \in errors}
    OBVIOUS
  <2>2. {Issue("error", a, <<step.order>>, step.ecu_id) : a \in errors}
          \subseteq StepIssues(spec, steps, unlocked, seen)
    <3> DEFINE Said(j) == {Issue("error", a, <<steps[j].order>>, steps[j].ecu_id) :
                             a \in StepErrors(spec, steps[j],
                                              UnlockedAt(spec, steps, j, unlocked),
                                              SeenBefore(steps, j, seen))}
    <3>1. StepIssues(spec, steps, unlocked, seen) = UNION {Said(j) : j \in DOMAIN steps}
      BY DEF StepIssues
    <3>2. Said(i) = {Issue("error", a, <<step.order>>, step.ecu_id) : a \in errors}
      OBVIOUS
    <3> HIDE DEF Said, errors, step
    <3> QED BY <1>1, <3>1, <3>2
  <2> QED BY <2>1, <2>2
<1>3. b.done = Ordered(bench, steps, k) /\ b.unlocked = Unlocked(bench, steps, k)
  BY DEF StateAfter
<1> HIDE DEF i, b
<1>4. Known(spec, step)
  BY <1>2 DEF StepErrors
<1>5. /\ ~Unsupported(spec, step)
      /\ ~Locked(spec, step, UnlockedAt(spec, steps, i, unlocked))
      /\ Range(step.depends_on) \subseteq SeenBefore(steps, i, seen)
  BY <1>2, <1>4 DEF StepErrors
<1>6. SeenBefore(steps, i, seen) \subseteq b.done
  BY <1>1, <1>3 DEF SeenBefore, Ordered
<1>7. step.step_type \in Gated => UnlockedAt(spec, steps, i, unlocked) \subseteq b.unlocked
  <2> SUFFICES ASSUME step.step_type \in Gated
               PROVE  UnlockedAt(spec, steps, i, unlocked) \subseteq b.unlocked
    OBVIOUS
  <2>1. step.step_type # "security_access"
    BY DEF Gated
  <2>2. \A j \in 1 .. i : steps[j].step_type = "security_access" => j \in 1 .. k
    BY <1>1, <2>1
  <2> QED BY <1>3, <2>2 DEF UnlockedAt, Unlocked
<1>8. Possible(spec, b, step)
  BY <1>4, <1>5, <1>6, <1>7 DEF Possible, Known, Unsupported, Locked
<1> QED BY <1>8 DEF b, i

-----------------------------------------------------------------------------
(* The comparison of two programs.  Repeated orders are excluded: of equal  *)
(* orders diff_programs looks at the last step only.                        *)

\* A program's list of steps, whatever a step is.
LEMMA ListedSteps ==
  ASSUME NEW S, NEW steps \in Seq(S)
  PROVE  /\ DOMAIN steps \subseteq Nat
         /\ \A i \in DOMAIN steps : steps[i] \in Range(steps) /\ steps[i].order \in Orders(steps)
         /\ \A s \in Range(steps) : \E i \in DOMAIN steps : steps[i] = s
         /\ \A o \in Orders(steps) : \E i \in DOMAIN steps : steps[i].order = o
  BY DEF Orders, Range

\* by_order finds the one step of an order.
LEMMA LastAtOwn ==
  ASSUME NEW S, NEW steps \in Seq(S), DistinctOrders(steps), NEW i \in DOMAIN steps
  PROVE  LastAt(steps, steps[i].order) = steps[i]
<1> DEFINE Same == {k \in DOMAIN steps : steps[k].order = steps[i].order}
<1>1. Same = {i}
  BY DEF DistinctOrders
<1>2. Max({i}) = i
  BY ListedSteps DEF Max
<1> QED BY <1>1, <1>2 DEF LastAt

\* Matching by order is matching by step.
LEMMA StepOfOrder ==
  ASSUME NEW S, NEW steps \in Seq(S), DistinctOrders(steps)
  PROVE  /\ \A o \in Orders(steps) : LastAt(steps, o) \in Range(steps) /\ LastAt(steps, o).order = o
         /\ \A s \in Range(steps) : s.order \in Orders(steps) /\ LastAt(steps, s.order) = s
<1>1. ASSUME NEW o \in Orders(steps)
      PROVE  LastAt(steps, o) \in Range(steps) /\ LastAt(steps, o).order = o
  <2>1. PICK i \in DOMAIN steps : steps[i].order = o
    BY ListedSteps
  <2> QED BY <2>1, LastAtOwn, ListedSteps
<1>2. ASSUME NEW s \in Range(steps)
      PROVE  s.order \in Orders(steps) /\ LastAt(steps, s.order) = s
  <2>1. PICK i \in DOMAIN steps : steps[i] = s
    BY ListedSteps
  <2> QED BY <2>1, LastAtOwn, ListedSteps
<1> QED BY <1>1, <1>2

\* diff_programs reports no difference exactly between programs of the same steps,
\* however the lists are arranged.
THEOREM DiffExact ==
  ASSUME NEW S, NEW a \in Seq(S), NEW b \in Seq(S), DistinctOrders(a), DistinctOrders(b)
  PROVE  NothingChanged(DiffPrograms(a, b)) <=> Range(a) = Range(b)
<1> DEFINE diff == DiffPrograms(a, b)
<1>0. NothingChanged(diff) <=>
        /\ Orders(b) \ Orders(a) = {} /\ Orders(a) \ Orders(b) = {}
        /\ Modified(a, b) = {}
  BY DEF NothingChanged, DiffPrograms
<1>1. ASSUME NothingChanged(diff)
      PROVE  Range(a) = Range(b)
  <2>1. Orders(a) = Orders(b)
    BY <1>0, <1>1
  <2>2. \A o \in Orders(a) : LastAt(a, o) = LastAt(b, o)
    BY <1>0, <1>1, <2>1 DEF Modified
  <2>3. Range(a) \subseteq Range(b)
    BY <2>1, <2>2, StepOfOrder
  <2>4. Range(b) \subseteq Range(a)
    BY <2>1, <2>2, StepOfOrder
  <2> QED BY <2>3, <2>4
<1>2. ASSUME Range(a) = Range(b)
      PROVE  NothingChanged(diff)
  <2>1. Orders(a) = Orders(b)
    BY <1>2 DEF Orders
  <2>2. ASSUME NEW o \in Orders(a)
        PROVE  LastAt(a, o) = LastAt(b, o)
    <3>1. LastAt(a, o) \in Range(b) /\ LastAt(a, o).order = o
      BY <1>2, StepOfOrder
    <3> QED BY <3>1, StepOfOrder
  <2> QED BY <1>0, <2>1, <2>2 DEF Modified
<1> QED BY <1>1, <1>2

\* Every step of either program is accounted for exactly once: added, removed,
\* modified or unchanged; and what counts as unchanged is a step of both.
THEOREM DiffComplete ==
  ASSUME NEW S, NEW a \in Seq(S), NEW b \in Seq(S), DistinctOrders(a), DistinctOrders(b),
         NEW diff, diff = DiffPrograms(a, b)
  PROVE  /\ diff.added \cup diff.removed \cup diff.modified \cup diff.unchanged
              = Orders(a) \cup Orders(b)
         /\ diff.added \cap (diff.removed \cup diff.modified \cup diff.unchanged) = {}
         /\ diff.removed \cap (diff.modified \cup diff.unchanged) = {}
         /\ diff.modified \cap diff.unchanged = {}
         /\ diff.unchanged = {s.order : s \in Range(a) \cap Range(b)}
<1>1. /\ diff.added = Orders(b) \ Orders(a)
      /\ diff.removed = Orders(a) \ Orders(b)
      /\ diff.modified = Modified(a, b)
      /\ diff.unchanged = (Orders(a) \cap Orders(b)) \ Modified(a, b)
  BY DEF DiffPrograms
<1>2. Modified(a, b) \subseteq Orders(a) \cap Orders(b)
  BY DEF Modified
<1>3. ASSUME NEW o \in diff.unchanged
      PROVE  \E s \in Range(a) \cap Range(b) : s.order = o
  <2>1. o \in Orders(a) /\ o \in Orders(b) /\ LastAt(a, o) = LastAt(b, o)
    BY <1>1, <1>3 DEF Modified
  <2> QED BY <2>1, StepOfOrder
<1>4. ASSUME NEW s \in Range(a) \cap Range(b)
      PROVE  s.order \in diff.unchanged
  <2>1. /\ s.order \in Orders(a) /\ LastAt(a, s.order) = s
        /\ s.order \in Orders(b) /\ LastAt(b, s.order) = s
    BY StepOfOrder
  <2> QED BY <1>1, <2>1 DEF Modified
<1>5. diff.unchanged = {s.order : s \in Range(a) \cap Range(b)}
  BY <1>3, <1>4
<1> QED BY <1>1, <1>2, <1>5

-----------------------------------------------------------------------------
(* The analytics                                                           *)

\* Counted type by type, every step is counted once (steps_by_type).
LEMMA TypesAddUp ==
  ASSUME NEW S, NEW steps \in Seq(S), NEW types,
         types = [t \in {step.step_type : step \in Range(steps)} |->
                    Cardinality({i \in DOMAIN steps : steps[i].step_type = t})]
  PROVE  MapThenSumSet(LAMBDA t : types[t], DOMAIN types) = Len(steps)
<1> DEFINE D == DOMAIN types
           Of(T) == {i \in DOMAIN steps : steps[i].step_type \in T}
           Chosen(T) == CHOOSE x \in T : TRUE
           Sums(it) == it = [T \in SUBSET D |->
                               IF T = {} THEN 0 ELSE types[Chosen(T)] + it[T \ {Chosen(T)}]]
<1>1. MapThenSumSet(LAMBDA t : types[t], D) = (CHOOSE it : Sums(it))[D]
  BY DEF MapThenSumSet, MapThenFoldSet
<1>2. DOMAIN steps = 1 .. Len(steps) /\ Len(steps) \in Nat
  OBVIOUS
<1>3. IsFiniteSet(DOMAIN steps) /\ Cardinality(DOMAIN steps) = Len(steps)
  <2>1. PICK n : n = Len(steps)
    OBVIOUS
  <2>2. n \in Nat /\ 1 \in Int /\ n \in Int
    BY <1>2, <2>1
  <2>3. IsFiniteSet(1 .. n) /\ Cardinality(1 .. n) = n
    BY ONLY <2>2, FS_Interval
  <2> QED BY <1>2, <2>1, <2>3
<1>4. D = {steps[i].step_type : i \in DOMAIN steps}
  BY DEF Range
<1>5. IsFiniteSet(D)
  <2> DEFINE f == [i \in DOMAIN steps |-> steps[i].step_type]
  <2>1. D = {f[i] : i \in DOMAIN steps} /\ DOMAIN f = DOMAIN steps
    BY <1>4
  <2> HIDE DEF f, D
  <2> QED BY <1>3, <2>1, ValuesFinite
<1>6. ASSUME NEW T
      PROVE  IsFiniteSet(Of(T)) /\ Cardinality(Of(T)) \in Nat
  BY <1>3, FS_Subset, FS_CardinalityType
<1>7. ASSUME NEW T \in SUBSET D, NEW x \in T
      PROVE  Cardinality(Of(T)) = types[x] + Cardinality(Of(T \ {x}))
  <2>1. types[x] = Cardinality(Of({x}))
    <3>1. Of({x}) = {i \in DOMAIN steps : steps[i].step_type = x}
      OBVIOUS
    <3> QED BY <3>1
  <2>2. Of(T) = Of({x}) \cup Of(T \ {x}) /\ Of({x}) \cap Of(T \ {x}) = {}
    OBVIOUS
  <2> HIDE DEF Of
  <2>3. /\ IsFiniteSet(Of({x})) /\ Cardinality(Of({x})) \in Nat
        /\ IsFiniteSet(Of(T \ {x})) /\ Cardinality(Of(T \ {x})) \in Nat
    BY <1>6
  <2>4. Cardinality(Of({x}) \cup Of(T \ {x}))
          = Cardinality(Of({x})) + Cardinality(Of(T \ {x})) - Cardinality(Of({x}) \cap Of(T \ {x}))
    BY ONLY <2>3, FS_Union
  <2>5. Cardinality(Of({x}) \cap Of(T \ {x})) = 0
    BY <2>2, FS_EmptySet
  <2>6. Cardinality(Of(T)) = Cardinality(Of({x}) \cup Of(T \ {x}))
    BY <2>2
  <2>7. Cardinality(Of(T)) = Cardinality(Of({x})) + Cardinality(Of(T \ {x}))
    <3> HIDE DEF Of
    <3> DEFINE a == Cardinality(Of({x}))
               b == Cardinality(Of(T \ {x}))
    <3>1. a \in Nat /\ b \in Nat /\ Cardinality(Of(T)) = a + b - 0
      BY <2>3, <2>4, <2>5, <2>6
    <3> HIDE DEF a, b
    <3>2. Cardinality(Of(T)) = a + b
      BY <3>1
    <3> QED BY <3>2 DEF a, b
  <2> QED BY <2>1, <2>7
<1>8. Of({}) = {} /\ Cardinality({}) = 0 /\ Of(D) = DOMAIN steps
  BY <1>4, FS_EmptySet
<1>9. \A T : T # {} => Chosen(T) \in T
  OBVIOUS
<1> HIDE DEF D, Of, Chosen
<1>10. \E it : Sums(it)
  <2> DEFINE it == [T \in SUBSET D |-> Cardinality(Of(T))]
  <2>1. ASSUME NEW T \in SUBSET D
        PROVE  it[T] = IF T = {} THEN 0 ELSE types[Chosen(T)] + it[T \ {Chosen(T)}]
    <3>1. T \ {Chosen(T)} \in SUBSET D
      OBVIOUS
    <3>2. it[T] = Cardinality(Of(T)) /\ it[T \ {Chosen(T)}] = Cardinality(Of(T \ {Chosen(T)}))
      BY <3>1
    <3>3. CASE T = {}
      <4>1. Cardinality(Of(T)) = 0
        BY ONLY <1>8, <3>3
      <4> QED BY <3>2, <3>3, <4>1, Zenon
    <3>4. CASE T # {}
      <4>1. Cardinality(Of(T)) = types[Chosen(T)] + Cardinality(Of(T \ {Chosen(T)}))
        BY <1>7, <1>9, <3>4, Zenon
      <4> QED BY <3>2, <3>4, <4>1, Zenon
    <3> QED BY <3>3, <3>4, Zenon
  <2>2. it = [T \in SUBSET D |-> it[T]]
    OBVIOUS
  <2> HIDE DEF it
  <2>3. Sums(it)
    BY <2>1, <2>2
  <2> QED BY <2>3
<1>11. PICK it : it = (CHOOSE it_1 : Sums(it_1)) /\ Sums(it)
  BY <1>10
<1>12. /\ it[{}] = 0
       /\ \A T \in SUBSET D : T # {} => it[T] = types[Chosen(T)] + it[T \ {Chosen(T)}]
  BY <1>11
<1> HIDE DEF Sums
<1>13. it[D] = Cardinality(Of(D))
  <2> DEFINE Bad == {n \in Nat : \E T \in SUBSET D : Cardinality(T) = n
                                                     /\ it[T] # Cardinality(Of(T))}
  <2>1. ASSUME NEW n \in Bad, \A k \in Bad : n <= k
        PROVE  FALSE
    <3>1. PICK T \in SUBSET D : Cardinality(T) = n /\ it[T] # Cardinality(Of(T))
      BY <2>1
    <3>2. T # {}
      BY <1>8, <1>12, <3>1
    <3>3. Chosen(T) \in T /\ T \ {Chosen(T)} \in SUBSET D
      BY <1>9, <3>2
    <3>4. Cardinality(T \ {Chosen(T)}) = n - 1 /\ n \in Nat /\ n - 1 \in Nat
      <4>1. IsFiniteSet(T)
        BY <1>5, FS_Subset
      <4>2. IsFiniteSet(T \ {Chosen(T)}) /\ Cardinality(T \ {Chosen(T)}) = Cardinality(T) - 1
        BY <3>3, <4>1, FS_RemoveElement
      <4>3. Cardinality(T \ {Chosen(T)}) \in Nat
        BY <4>2, FS_CardinalityType
      <4> QED BY <3>1, <4>2, <4>3
    <3>5. n - 1 \notin Bad
      BY <2>1, <3>4
    <3>6. it[T \ {Chosen(T)}] = Cardinality(Of(T \ {Chosen(T)}))
      BY <3>3, <3>4, <3>5
    <3>7. it[T] = types[Chosen(T)] + it[T \ {Chosen(T)}]
      BY <1>12, <3>2
    <3>8. types[Chosen(T)] + Cardinality(Of(T \ {Chosen(T)})) = Cardinality(Of(T))
      BY <1>7, <3>3
    <3> QED BY ONLY <3>1, <3>6, <3>7, <3>8
  <2>2. Bad \in SUBSET Nat
    OBVIOUS
  <2>3. Bad = {}
    <3> HIDE DEF Bad
    <3> QED BY <2>1, <2>2, Least
  <2>4. Cardinality(D) \in Nat
    BY <1>5, FS_CardinalityType
  <2> QED BY <2>3, <2>4
<1> QED BY <1>1, <1>3, <1>8, <1>11, <1>13 DEF D

\* No more ECUs are covered than there are, and where no two have the same id all
\* of them are exactly if every one has a step of its own.
LEMMA CoveredCounts ==
  ASSUME NEW spec, NEW E, spec.ecus \in Seq(E), NEW S, NEW steps \in Seq(S)
  PROVE  /\ Cardinality(Covered(spec, steps)) <= Len(spec.ecus)
         /\ (\A i, j \in DOMAIN spec.ecus : spec.ecus[i].ecu_id = spec.ecus[j].ecu_id => i = j)
              => (Cardinality(Covered(spec, steps)) = Len(spec.ecus)
                    <=> \A ecu \in Range(spec.ecus) :
                          \E step \in Range(steps) : step.ecu_id = ecu.ecu_id)
<1> DEFINE ecus == spec.ecus
           N == Len(spec.ecus)
           f == [i \in 1 .. N |-> ecus[i].ecu_id]
           Ids == EcuIds(spec)
           C == Covered(spec, steps)
<1>1. DOMAIN ecus = 1 .. N /\ N \in Nat
  OBVIOUS
<1>2. IsFiniteSet(1 .. N) /\ Cardinality(1 .. N) = N
  BY <1>1, FS_Interval
<1>3. Ids = {ecus[i].ecu_id : i \in 1 .. N}
  BY <1>1 DEF EcuIds, Range
<1>4. f \in Surjection(1 .. N, Ids)
  BY <1>3 DEF Surjection
<1>5. IsFiniteSet(Ids) /\ Cardinality(Ids) <= N /\ (Cardinality(Ids) = N <=> f \in Injection(1 .. N, Ids))
  <2> HIDE DEF f, N, Ids
  <2> QED BY <1>2, <1>4, FS_Surjection
<1>6. C \in SUBSET Ids
  BY DEF Covered
<1>7. IsFiniteSet(C) /\ Cardinality(C) <= Cardinality(Ids) /\ (Cardinality(Ids) = Cardinality(C) => Ids = C)
  <2> HIDE DEF C, Ids
  <2> QED BY <1>5, <1>6, FS_Subset
<1>8. Cardinality(C) \in Nat /\ Cardinality(Ids) \in Nat
  <2> HIDE DEF C, Ids
  <2> QED BY <1>5, <1>7, FS_CardinalityType
<1>9. C = Ids <=> \A ecu \in Range(ecus) : \E step \in Range(steps) : step.ecu_id = ecu.ecu_id
  <2>1. /\ C = {step.ecu_id : step \in Range(steps)} \cap {ecu.ecu_id : ecu \in Range(ecus)}
        /\ Ids = {ecu.ecu_id : ecu \in Range(ecus)}
    BY DEF Covered, EcuIds
  <2>2. ASSUME C = Ids, NEW ecu \in Range(ecus)
        PROVE  \E step \in Range(steps) : step.ecu_id = ecu.ecu_id
    <3>1. ecu.ecu_id \in Ids
      BY <2>1
    <3>2. ecu.ecu_id \in {step.ecu_id : step \in Range(steps)}
      BY <2>1, <2>2, <3>1
    <3> QED BY <3>2
  <2>3. ASSUME \A ecu \in Range(ecus) : \E step \in Range(steps) : step.ecu_id = ecu.ecu_id
        PROVE  C = Ids
    <3>1. \A id \in Ids : id \in {step.ecu_id : step \in Range(steps)}
      BY <2>1, <2>3
    <3> HIDE DEF C, Ids
    <3> QED BY <2>1, <3>1
  <2> QED BY <2>2, <2>3
<1>10. ASSUME \A i, j \in DOMAIN ecus : ecus[i].ecu_id = ecus[j].ecu_id => i = j
       PROVE  Cardinality(Ids) = N
  <2>1. f \in Injection(1 .. N, Ids)
    <3>1. f \in [1 .. N -> Ids]
      BY <1>4 DEF Surjection
    <3>2. \A i, j \in 1 .. N : f[i] = f[j] => i = j
      BY <1>1, <1>10
    <3> HIDE DEF f, Ids, N
    <3> QED BY <3>1, <3>2 DEF Injection, IsInjective
  <2> QED BY <1>5, <2>1
<1> HIDE DEF C, Ids, N
<1>11. Cardinality(C) <= N
  BY <1>1, <1>5, <1>7, <1>8
<1>12. Cardinality(Ids) = N => (Cardinality(C) = N <=> C = Ids)
  BY <1>7
<1> QED BY <1>9, <1>10, <1>11, <1>12 DEF C, N

\* A step that waits for nothing ends when its own time is up.
LEMMA FreeStepsStartAtOnce ==
  ASSUME NEW S, NEW steps \in Seq(S), Timed(steps), Schedulable(steps),
         NEW i \in Parallelisable(steps)
  PROVE  ComputeOptimization(steps).ends[steps[i].order] = steps[i].estimated_seconds
<1> DEFINE end == EarliestEnd(steps)
           o == steps[i].order
<1>1. i \in DOMAIN steps /\ steps[i].depends_on = <<>> /\ steps # <<>>
  BY DEF Parallelisable
<1>2. DistinctOrders(steps) /\ Closed(steps) /\ Acyclic(steps)
  BY <1>1 DEF Schedulable
<1>3. Topological(steps, TopologicalOrder(steps))
  BY <1>1, <1>2, SortIsTopological
<1>4. o \in Orders(steps) /\ StepAt(steps, o) = steps[i]
  BY <1>1, <1>2, OneStepPerOrder
<1>5. /\ end[o] = BestStart(StepAt(steps, o), end) + StepAt(steps, o).estimated_seconds
      /\ BestStart(StepAt(steps, o), end) \in Nat
  BY <1>2, <1>3, <1>4, EndsCertified
<1>6. BestStart(steps[i], end) = 0
  <2>1. Range(steps[i].depends_on) = {}
    BY <1>1, RangeOfShort
  <2>2. BestStart(steps[i], end) = MaxOf({})
    BY <2>1 DEF BestStart
  <2>3. MaxOf({}) \in {} \cup {0}
    BY MaxOfTimes, FS_EmptySet
  <2> QED BY <2>2, <2>3
<1>7. steps[i].estimated_seconds \in Nat
  BY <1>1 DEF Timed
<1>8. ComputeOptimization(steps).ends = end
  BY <1>1 DEF ComputeOptimization
<1> HIDE DEF end
<1> QED BY <1>4, <1>5, <1>6, <1>7, <1>8
==============================================================================
