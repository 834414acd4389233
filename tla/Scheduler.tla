------------------------------ MODULE Scheduler -----------------------------
(***************************************************************************)
(* What backend/scheduler.py computes, as functions of a program's steps:  *)
(* when a program can be scheduled at all, the unlimited-hardware schedule *)
(* with its critical path, and the cycle time for a number of channels.    *)
(* ChannelScheduler is the same greedy schedule as the loop the code runs. *)
(*                                                                         *)
(* Durations and times are in tenths of a second, so the rounding of the   *)
(* results to one decimal does not change them.                            *)
(***************************************************************************)
EXTENDS Programs, FiniteSetsExt, SequencesExt

\* by_order[order], once the orders are known to be distinct.
StepAt(steps, order) == CHOOSE step \in Range(steps) : step.order = order

Deps(steps, order) == Range(StepAt(steps, order).depends_on)

DistinctOrders(steps) ==
  \A i, j \in DOMAIN steps : steps[i].order = steps[j].order => i = j

\* Every dependency is the order of some step.
Closed(steps) ==
  \A i \in DOMAIN steps : Range(steps[i].depends_on) \subseteq Orders(steps)

\* No set of steps all wait for one another.
Acyclic(steps) ==
  \A S \in (SUBSET DOMAIN steps) \ {{}} :
    \E i \in S : \A j \in S : steps[j].order \notin Range(steps[i].depends_on)

\* The programs compute_optimization and schedule_with_channels accept; on the
\* others _topological_order raises ValueError.
Schedulable(steps) ==
  steps = <<>> \/ (DistinctOrders(steps) /\ Closed(steps) /\ Acyclic(steps))

\* The result of _topological_order: of the steps whose dependencies are all
\* placed, the one with the least order comes next.
TopologicalOrder(steps) ==
  LET order[n \in 0..Len(steps)] ==
        IF n = 0 THEN <<>>
        ELSE LET placed == Range(order[n - 1])
                 ready == {o \in Orders(steps) \ placed : Deps(steps, o) \subseteq placed}
             IN  Append(order[n - 1], Min(ready))
  IN  order[Len(steps)]

MaxOf(times) == Max({0} \cup times)

\* A slip in the forward pass: a step starts when its last listed dependency ends.
LastListedEnd(step, end) ==
  IF step.depends_on = <<>> THEN 0 ELSE end[Last(step.depends_on)]

\* best_start: the latest end among the dependencies.
BestStart(step, end) == MaxOf({end[d] : d \in Range(step.depends_on)})

\* earliest: the end of every step when channels are unlimited, by one forward
\* pass over the topological order.
EarliestEnd(steps) ==
  FoldLeft(LAMBDA end, o :
             LET step == StepAt(steps, o)
             IN  [p \in DOMAIN end \cup {o} |->
                    IF p = o THEN BestStart(step, end) + step.estimated_seconds
                             ELSE end[p]],
           [o \in {} |-> 0], TopologicalOrder(steps))

\* best_pred: the first listed dependency with the latest end, none (<<>>) if
\* that end is 0.
BestPred(step, end) ==
  LET best == BestStart(step, end)
  IN  IF best = 0 THEN <<>>
      ELSE << step.depends_on[Min({k \in DOMAIN step.depends_on :
                                     end[step.depends_on[k]] = best})] >>

\* The critical path is walked back from the step that ends last, the highest
\* order among those that end together.
CriticalPath(steps) ==
  LET end == EarliestEnd(steps)
      last == {o \in DOMAIN end : end[o] = MaxOf({end[p] : p \in DOMAIN end})}
      back[n \in 1..Len(steps)] ==
        IF n = 1 THEN <<Max(last)>>
        ELSE BestPred(StepAt(steps, Head(back[n - 1])), end) \o back[n - 1]
      \* the walk has stopped once the first step has no predecessor
      whole == {n \in 1..Len(steps) :
                  BestPred(StepAt(steps, Head(back[n])), end) = <<>>}
  IN  back[Min(whole)]

SequentialSeconds(steps) ==
  FoldLeft(LAMBDA sum, step : sum + step.estimated_seconds, 0, steps)

\* compute_optimization of a program that can be scheduled.  The speedup factor
\* is the ratio of the two times and is left out.
ComputeOptimization(steps) ==
  IF steps = <<>>
    THEN [sequential |-> 0, critical |-> 0, path |-> <<>>, ends |-> [o \in {} |-> 0]]
    ELSE LET end == EarliestEnd(steps)
         IN  [sequential |-> SequentialSeconds(steps),
              critical |-> MaxOf({end[o] : o \in DOMAIN end}),
              path |-> CriticalPath(steps), ends |-> end]

-----------------------------------------------------------------------------
(* Greedy list scheduling on channels 0..n-1; free[c] is when c is free.   *)

\* A slip: a step starts as soon as its dependencies have ended.
StartOnBusy(free, dep_end, c) == dep_end

\* A slip: both are waited for, one after the other.
StartOnSum(free, dep_end, c) == free[c] + dep_end

\* max(channel_free_at[c], dep_end)
StartOn(free, dep_end, c) == IF free[c] > dep_end THEN free[c] ELSE dep_end

\* min(range(channels), key = (start, -free_at)): the earliest start, then the
\* busiest channel, then the lowest number.
Prefers(free, dep_end, c, other) ==
  LET s == StartOn(free, dep_end, c)
      t == StartOn(free, dep_end, other)
  IN  s < t \/ (s = t /\ (free[c] > free[other] \/ (free[c] = free[other] /\ c <= other)))

IsPick(free, dep_end, c) ==
  \A other \in DOMAIN free : Prefers(free, dep_end, c, other)

\* _cycle_time_for_channels(TopologicalOrder(steps), channels)
CycleTimeForChannels(steps, channels) ==
  LET Place(acc, o) ==
        LET step == StepAt(steps, o)
            dep_end == BestStart(step, acc.end)
            c == CHOOSE k \in DOMAIN acc.free : IsPick(acc.free, dep_end, k)
            e == StartOn(acc.free, dep_end, c) + step.estimated_seconds
        IN  [free |-> [acc.free EXCEPT ![c] = e],
             end |-> [p \in DOMAIN acc.end \cup {o} |-> IF p = o THEN e ELSE acc.end[p]],
             makespan |-> IF e > acc.makespan THEN e ELSE acc.makespan]
  IN  FoldLeft(Place, [free |-> [c \in 0 .. (channels - 1) |-> 0],
                       end |-> [o \in {} |-> 0], makespan |-> 0],
               TopologicalOrder(steps)).makespan

\* channel_sweep: once a count reaches the critical path, its cycle time is
\* reported for every larger count without scheduling again.
ChannelSweep(steps, max_channels) ==
  LET floor == ComputeOptimization(steps).critical
      cycle == [n \in 1..max_channels |-> CycleTimeForChannels(steps, n)]
      AtFloor(n) == {m \in 1..n : cycle[m] <= floor}
  IN  IF steps = <<>> THEN [n \in 1..max_channels |-> 0]
      ELSE [n \in 1..max_channels |->
              IF AtFloor(n) = {} THEN cycle[n] ELSE cycle[Min(AtFloor(n))]]
=============================================================================
