--------------------------- MODULE ChannelScheduler -------------------------
(***************************************************************************)
(* schedule_with_channels of backend/scheduler.py as the two loops it      *)
(* runs: Kahn's algorithm over a heap of ready orders                      *)
(* (_topological_order), then one greedy placement per step on one of the  *)
(* tester channels.  A behaviour is one call.                              *)
(***************************************************************************)
EXTENDS Scheduler

\* The calls considered: [steps, channels].
CONSTANT Requests

Call == [steps : Seq(Step), channels : Int]

ASSUME RequestsAssumption == Requests \subseteq Call

VARIABLES request,          \* the arguments of the call
          pc,               \* "call", "sort", "place", "done" or "error"
          in_degree,        \* in_degree[o]: dependencies of o not yet ordered
          ready,            \* the heap: orders whose in_degree has reached 0
          ordered,          \* the orders popped so far
          channel_free_at,  \* channel_free_at[c]: when channel c is free again
          placed            \* placed[o]: [channel, start, end] of a placed step

vars == <<request, pc, in_degree, ready, ordered, channel_free_at, placed>>

steps == request.steps
Channels == 0 .. (request.channels - 1)

DependsOn(o) == StepAt(steps, o).depends_on
Seconds(o) == StepAt(steps, o).estimated_seconds

\* How often o lists d among its dependencies.
Listed(o, d) == Cardinality({k \in DOMAIN DependsOn(o) : DependsOn(o)[k] = d})

Nothing == [o \in {} |-> 0]

Init ==
  /\ request \in Requests
  /\ pc = "call"
  /\ in_degree = Nothing
  /\ ready = {}
  /\ ordered = <<>>
  /\ channel_free_at = Nothing
  /\ placed = Nothing

-----------------------------------------------------------------------------
(* _topological_order                                                      *)

\* Repeated orders and missing dependencies raise ValueError at once.
Malformed == ~DistinctOrders(steps) \/ ~Closed(steps)

\* A slip: a dependency listed twice is counted once.
DegreeOnce == [o \in Orders(steps) |-> Cardinality(Range(DependsOn(o)))]

\* in_degree counts every entry of depends_on, repeated ones too.
Degree == [o \in Orders(steps) |-> Len(DependsOn(o))]

Reject ==
  /\ pc = "call"
  /\ \/ request.channels < 1
     \/ steps # <<>> /\ Malformed
  /\ pc' = "error"
  /\ UNCHANGED <<request, in_degree, ready, ordered, channel_free_at, placed>>

\* A program without steps needs no time.
Empty ==
  /\ pc = "call"
  /\ request.channels >= 1
  /\ steps = <<>>
  /\ pc' = "done"
  /\ UNCHANGED <<request, in_degree, ready, ordered, channel_free_at, placed>>

StartSort ==
  /\ pc = "call"
  /\ request.channels >= 1
  /\ steps # <<>>
  /\ ~Malformed
  /\ pc' = "sort"
  /\ in_degree' = Degree
  /\ ready' = {o \in Orders(steps) : Degree[o] = 0}
  /\ UNCHANGED <<request, ordered, channel_free_at, placed>>

\* Pop the least ready order and count it off in every step that waits for it.
Pop ==
  /\ pc = "sort"
  /\ \E o \in ready :
       /\ \A p \in ready : o <= p
       /\ in_degree' = [p \in Orders(steps) |-> in_degree[p] - Listed(p, o)]
       /\ ready' = (ready \ {o}) \cup
                     {p \in Orders(steps) : Listed(p, o) > 0 /\ in_degree'[p] = 0}
       /\ ordered' = Append(ordered, o)
  /\ UNCHANGED <<request, pc, channel_free_at, placed>>

StartPlacing == pc' = "place" /\ channel_free_at' = [c \in Channels |-> 0]

\* A slip: nobody counts what has been popped.
SortEndUnchecked ==
  /\ pc = "sort"
  /\ ready = {}
  /\ StartPlacing
  /\ UNCHANGED <<request, in_degree, ready, ordered, placed>>

\* A slip: the loop goes on until every step has been popped.
SortEndWhenComplete ==
  /\ pc = "sort"
  /\ Len(ordered) = Len(steps)
  /\ StartPlacing
  /\ UNCHANGED <<request, in_degree, ready, ordered, placed>>

\* The heap is empty: whatever has not been popped sits on a cycle or behind one.
SortEnd ==
  /\ pc = "sort"
  /\ ready = {}
  /\ IF Len(ordered) = Len(steps)
       THEN StartPlacing
       ELSE pc' = "error" /\ UNCHANGED channel_free_at
  /\ UNCHANGED <<request, in_degree, ready, ordered, placed>>

-----------------------------------------------------------------------------
(* The greedy placement, in topological order                              *)

\* The order whose turn it is.
Turn == ordered[Cardinality(DOMAIN placed) + 1]

PlacedAll == Cardinality(DOMAIN placed) = Len(ordered)

\* A slip: only the first listed dependency is waited for.
FirstDepEnd(o) ==
  {0} \cup {placed[d].end : d \in {DependsOn(o)[k] : k \in DOMAIN DependsOn(o) \cap {1}}}

\* The ends of o's dependencies; 0 stands for "no dependency".
DepEnds(o) == {0} \cup {placed[d].end : d \in Range(DependsOn(o))}

\* o goes on the channel that lets it start first.
PlaceOn(o, dep_end, c) ==
  LET start == StartOn(channel_free_at, dep_end, c)
      end == start + Seconds(o)
  IN  /\ channel_free_at' = [channel_free_at EXCEPT ![c] = end]
      /\ placed' = [p \in DOMAIN placed \cup {o} |->
                      IF p = o THEN [channel |-> c, start |-> start, end |-> end]
                               ELSE placed[p]]

Place ==
  /\ pc = "place"
  /\ ~PlacedAll
  /\ \E dep_end \in DepEnds(Turn) :
       /\ \A t \in DepEnds(Turn) : t <= dep_end
       /\ \E c \in Channels :
            IsPick(channel_free_at, dep_end, c) /\ PlaceOn(Turn, dep_end, c)
  /\ UNCHANGED <<request, pc, in_degree, ready, ordered>>

Return ==
  /\ pc = "place"
  /\ PlacedAll
  /\ pc' = "done"
  /\ UNCHANGED <<request, in_degree, ready, ordered, channel_free_at, placed>>

Next == Reject \/ Empty \/ StartSort \/ Pop \/ SortEnd \/ Place \/ Return

\* The call runs on one thread and nothing in it blocks.
Spec == Init /\ [][Next]_vars /\ WF_vars(Next)

-----------------------------------------------------------------------------
CycleTime == MaxOf({placed[o].end : o \in DOMAIN placed})

TypeOK ==
  /\ request \in Call
  /\ pc \in {"call", "sort", "place", "done", "error"}
  /\ \/ pc \in {"call", "done", "error"} /\ in_degree = Nothing
     \/ in_degree \in [Orders(steps) -> Nat]
  /\ ready \subseteq Orders(steps)
  /\ ordered \in Seq(Orders(steps))
  /\ \/ channel_free_at = Nothing
     \/ channel_free_at \in [Channels -> Nat]
  /\ DOMAIN placed \subseteq Orders(steps)
  /\ placed \in [DOMAIN placed -> [channel : Channels, start : Nat, end : Nat]]

\* A channel runs one step at a time: of two steps placed on the same channel,
\* in whatever order the topological sort brought them, one has ended before
\* the other starts.
NoChannelOverlap ==
  \A o, p \in DOMAIN placed :
    o # p /\ placed[o].channel = placed[p].channel =>
      placed[o].end <= placed[p].start \/ placed[p].end <= placed[o].start

\* No step is placed before everything it depends on, and none starts before
\* all of that has ended, on whichever channels it ran (issue #7 of the code).
DependenciesHonoured ==
  \A o \in DOMAIN placed : \A d \in Range(DependsOn(o)) :
    d \in DOMAIN placed /\ placed[d].end <= placed[o].start

\* The call is refused exactly when there is no schedule: no channel, repeated
\* orders, a missing dependency, or steps that wait for one another.  Kahn's
\* counting is compared with the definition of a cycle.
RefusesExactlyTheImpossible ==
  /\ pc = "error" => request.channels < 1 \/ ~Schedulable(steps)
  /\ pc = "done" => request.channels >= 1 /\ Schedulable(steps)

\* The result covers every step, is never faster than the critical path nor
\* slower than running the steps one by one, and reaches the critical path
\* when there are as many channels as steps.
CycleTimeBounds ==
  pc = "done" =>
    /\ DOMAIN placed = Orders(steps)
    /\ ComputeOptimization(steps).critical <= CycleTime
    /\ CycleTime <= SequentialSeconds(steps)
    /\ request.channels >= Len(steps) =>
         CycleTime = ComputeOptimization(steps).critical

\* The sweep's own copy of the greedy loop (_cycle_time_for_channels, which
\* keeps no schedule) returns the cycle time of the schedule built here.
AgreesWithSweepPass ==
  pc = "done" => CycleTime = CycleTimeForChannels(steps, request.channels)

\* The three places that compute a cycle time, the schedule, the sweep's own loop
\* and the critical path, keep to these bounds and to one another.
CycleTimesAgree == CycleTimeBounds /\ AgreesWithSweepPass

\* The reported critical path proves itself: it is a chain of dependencies
\* whose durations add up to the critical time, and the earliest ends leave
\* room for every step after its dependencies within that time, so that no
\* chain is longer.
CriticalPathCertified ==
  pc = "done" /\ steps # <<>> =>
    LET opt == ComputeOptimization(steps)
        path == opt.path
    IN  /\ \A i \in 1 .. (Len(path) - 1) : path[i] \in Deps(steps, path[i + 1])
        /\ opt.critical = FoldLeft(LAMBDA sum, o : sum + Seconds(o), 0, path)
        /\ \A o \in Orders(steps) :
             /\ opt.ends[o] <= opt.critical
             /\ \A d \in Deps(steps, o) \cup {o} :
                  (IF d = o THEN 0 ELSE opt.ends[d]) + Seconds(o) <= opt.ends[o]

\* Every call returns or raises, whatever graph the client sent.
Terminates == <>(pc \in {"done", "error"})

\* What the short-circuit in channel_sweep relies on (scheduler.py:289-292) and
\* its test asserts: every point of the sweep is what schedule_with_channels
\* returns for that count.
SweepMatchesSchedules ==
  pc = "done" => ChannelSweep(steps, request.channels)[request.channels] = CycleTime
=============================================================================
