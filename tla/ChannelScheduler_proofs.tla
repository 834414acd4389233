----------------------- MODULE ChannelScheduler_proofs ----------------------
(***************************************************************************)
(* Proofs about ChannelScheduler, for every set of calls: its types, that  *)
(* the topological sort never pops a step before its dependencies, that    *)
(* the schedule built from it honours dependencies and channels, that only *)
(* the impossible is refused, and that the cycle time, computed twice in   *)
(* the code, is one number, between the critical path and the sum of the   *)
(* durations.                                                              *)
(***************************************************************************)
EXTENDS ChannelScheduler, Operators_proofs

\* The positions of o's dependency list that are not popped yet.
Open(o) == {k \in DOMAIN DependsOn(o) : DependsOn(o)[k] \notin Range(ordered)}

\* What the counters and the heap of Kahn's algorithm mean while it runs.
HeapInv ==
  /\ \A o \in Orders(steps) : Range(DependsOn(o)) \subseteq Orders(steps)
  /\ \A o \in Orders(steps) : in_degree[o] = Cardinality(Open(o))
  /\ ready = {o \in Orders(steps) \ Range(ordered) : Open(o) = {}}

\* The popped orders are distinct and each comes after its dependencies.
SortInv ==
  /\ \A i, j \in DOMAIN ordered : ordered[i] = ordered[j] => i = j
  /\ \A i \in DOMAIN ordered : \A d \in Range(DependsOn(ordered[i])) :
       \E j \in 1 .. (i - 1) : ordered[j] = d

\* The placed steps are a prefix of the sorted ones, and no channel is free
\* before the steps placed on it have ended.
PlaceInv ==
  /\ IsFiniteSet(DOMAIN placed)
  /\ Cardinality(DOMAIN placed) <= Len(ordered)
  /\ DOMAIN placed = {ordered[j] : j \in 1 .. Cardinality(DOMAIN placed)}
  /\ \A o \in DOMAIN placed :
       /\ placed[o].start <= placed[o].end
       /\ placed[o].end <= channel_free_at[placed[o].channel]

IInv ==
  /\ TypeOK
  /\ pc = "call" => ordered = <<>>
  /\ pc \in {"call", "sort"} => placed = Nothing
  /\ pc = "sort" => in_degree \in [Orders(steps) -> Nat] /\ HeapInv
  /\ pc = "place" => channel_free_at \in [Channels -> Nat]
  /\ SortInv
  /\ PlaceInv
  /\ NoChannelOverlap
  /\ DependenciesHonoured

-----------------------------------------------------------------------------
(* Facts about the helpers                                                 *)

\* Looking a step up by an order some step has finds a step of that order.
LEMMA StepAtType ==
  ASSUME NEW s \in Seq(Step), NEW o \in Orders(s)
  PROVE  StepAt(s, o) \in Step /\ StepAt(s, o).order = o
<1>1. PICK step \in Range(s) : step.order = o
  BY DEF Orders
<1>2. StepAt(s, o) \in Range(s) /\ StepAt(s, o).order = o
  BY <1>1 DEF StepAt
<1>3. Range(s) \subseteq Step
  BY DEF Range
<1> QED BY <1>2, <1>3

\* Under the type invariant the dependencies and the duration of a step are
\* what the schema says, and orders are integers.
LEMMA TypedSteps ==
  ASSUME TypeOK
  PROVE  /\ Orders(steps) \subseteq Int
         /\ \A o \in Orders(steps) : DependsOn(o) \in Seq(Int) /\ Seconds(o) \in Nat
<1>1. steps \in Seq(Step)
  BY DEF TypeOK, Call, steps
<1>2. \A o \in Orders(steps) : StepAt(steps, o) \in Step /\ StepAt(steps, o).order = o
  BY <1>1, StepAtType
<1> QED BY <1>2 DEF DependsOn, Seconds, Step

\* The open positions of a step's dependency list are finitely many.
LEMMA OpenFinite ==
  ASSUME TypeOK, NEW o \in Orders(steps)
  PROVE  /\ IsFiniteSet(Open(o))
         /\ Cardinality(Open(o)) \in Nat
         /\ Cardinality(Open(o)) = 0 <=> Open(o) = {}
<1>1. DependsOn(o) \in Seq(Int)
  BY TypedSteps
<1>2. DOMAIN DependsOn(o) = 1 .. Len(DependsOn(o)) /\ Len(DependsOn(o)) \in Nat
  BY <1>1
<1>3. IsFiniteSet(DOMAIN DependsOn(o))
  BY <1>2, FS_Interval
<1>4. Open(o) \subseteq DOMAIN DependsOn(o)
  BY DEF Open
<1>5. IsFiniteSet(Open(o))
  BY <1>3, <1>4, FS_Subset
<1> QED BY <1>5, FS_CardinalityType, FS_EmptySet


-----------------------------------------------------------------------------
(* The inductive step, one lemma per action that does more than change pc  *)

\* Every call starts with nothing ordered and nothing placed.
LEMMA InitInv == Init => IInv
<1> SUFFICES ASSUME Init PROVE IInv
  OBVIOUS
<1>1. TypeOK
  BY RequestsAssumption DEF Init, TypeOK, Nothing
<1>2. SortInv
  BY DEF Init, SortInv
<1>3. PlaceInv
  <2>1. DOMAIN placed = {}
    BY DEF Init, Nothing
  <2>2. IsFiniteSet(DOMAIN placed) /\ Cardinality(DOMAIN placed) = 0
    BY <2>1, FS_EmptySet
  <2> QED BY <2>1, <2>2 DEF PlaceInv, Init
<1>4. NoChannelOverlap /\ DependenciesHonoured
  BY DEF Init, Nothing, NoChannelOverlap, DependenciesHonoured
<1> QED BY <1>1, <1>2, <1>3, <1>4 DEF IInv, Init

\* Counting the dependencies that no popped step satisfies yet is what Degree
\* does while no step has been popped.
LEMMA StartSortInv == ASSUME IInv, StartSort PROVE IInv'
<1> USE DEF IInv, StartSort
<1>1. /\ request' = request /\ steps' = steps /\ ordered' = <<>> /\ placed' = Nothing
      /\ TypeOK /\ ordered = <<>> /\ placed = Nothing
  BY DEF steps
<1>2. \A o \in Orders(steps) : DependsOn(o) \in Seq(Int) /\ DependsOn(o)' = DependsOn(o)
  BY <1>1, TypedSteps DEF DependsOn
<1>3. \A o \in Orders(steps) : Range(DependsOn(o)) \subseteq Orders(steps)
  <2> SUFFICES ASSUME NEW o \in Orders(steps) PROVE Range(DependsOn(o)) \subseteq Orders(steps)
    OBVIOUS
  <2>1. Closed(steps)
    BY DEF Malformed
  <2>2. StepAt(steps, o) \in Range(steps)
    BY DEF Orders, StepAt
  <2>3. PICK i \in DOMAIN steps : steps[i] = StepAt(steps, o)
    BY <2>2 DEF Range
  <2> QED BY <2>1, <2>3 DEF Closed, DependsOn
<1>4. \A o \in Orders(steps) : in_degree'[o] = Len(DependsOn(o)) /\ in_degree'[o] \in Nat
  BY <1>1, <1>2 DEF Degree
<1>5. \A o \in Orders(steps) : Open(o)' = 1 .. Len(DependsOn(o))
  BY <1>1, <1>2 DEF Open, Range
<1>6. \A o \in Orders(steps) :
        /\ Cardinality(Open(o)') = Len(DependsOn(o))
        /\ Open(o)' = {} <=> Len(DependsOn(o)) = 0
  <2> SUFFICES ASSUME NEW o \in Orders(steps)
               PROVE  /\ Cardinality(Open(o)') = Len(DependsOn(o))
                      /\ Open(o)' = {} <=> Len(DependsOn(o)) = 0
    OBVIOUS
  <2>1. Open(o)' = 1 .. Len(DependsOn(o)) /\ Len(DependsOn(o)) \in Nat
    BY <1>2, <1>5
  <2>2. Cardinality(1 .. Len(DependsOn(o))) = Len(DependsOn(o))
    BY <2>1, FS_Interval, SMTT(30)
  <2> HIDE DEF IInv, StartSort
  <2> QED BY <2>1, <2>2
<1>7. in_degree' \in [Orders(steps) -> Nat]
  BY <1>1, <1>2 DEF Degree
<1>8. HeapInv'
  <2>1. ready' = {o \in Orders(steps) : Len(DependsOn(o)) = 0}
    BY DEF Degree
  <2>2. \A o \in Orders(steps) : in_degree'[o] = Cardinality(Open(o)')
    BY <1>4, <1>6
  <2>3. Range(ordered') = {}
    BY <1>1 DEF Range
  <2>4. ready' = {o \in Orders(steps) \ Range(ordered') : Open(o)' = {}}
    BY <2>1, <2>3, <1>6
  <2> QED BY <1>1, <1>2, <1>3, <2>2, <2>4 DEF HeapInv
<1>9. TypeOK'
  BY <1>1, <1>7 DEF TypeOK, Channels
<1>10. SortInv' /\ PlaceInv' /\ NoChannelOverlap' /\ DependenciesHonoured'
  BY <1>1 DEF SortInv, PlaceInv, NoChannelOverlap, DependenciesHonoured, Nothing
<1> QED BY <1>1, <1>7, <1>8, <1>9, <1>10

\* Popping a ready step closes exactly the positions that list it.
LEMMA PopInv == ASSUME IInv, Pop PROVE IInv'
<1>1. /\ TypeOK /\ pc = "sort" /\ in_degree \in [Orders(steps) -> Nat] /\ HeapInv
      /\ SortInv /\ placed = Nothing
  BY DEF IInv, Pop
<1>2. /\ request' = request /\ steps' = steps /\ pc' = pc /\ placed' = placed
      /\ channel_free_at' = channel_free_at
  BY DEF Pop, steps
<1>3. PICK o \in ready :
        /\ in_degree' = [p \in Orders(steps) |-> in_degree[p] - Listed(p, o)]
        /\ ready' = (ready \ {o}) \cup
                      {p \in Orders(steps) : Listed(p, o) > 0 /\ in_degree'[p] = 0}
        /\ ordered' = Append(ordered, o)
  BY DEF Pop
<1>4. o \in Orders(steps) /\ o \notin Range(ordered) /\ Open(o) = {}
  BY <1>1 DEF HeapInv
<1>5. ordered \in Seq(Orders(steps)) /\ ordered' \in Seq(Orders(steps))
  BY <1>1, <1>3, <1>4 DEF TypeOK
<1>6. /\ Len(ordered') = Len(ordered) + 1
      /\ \A i \in 1 .. Len(ordered) : ordered'[i] = ordered[i]
      /\ ordered'[Len(ordered) + 1] = o
  BY <1>3, <1>5
<1>7. Range(ordered') = Range(ordered) \cup {o}
  BY <1>5, <1>6 DEF Range
<1>8. \A p \in Orders(steps) : DependsOn(p) \in Seq(Int) /\ DependsOn(p)' = DependsOn(p)
  BY <1>1, <1>2, TypedSteps DEF DependsOn
<1> DEFINE B(p) == {k \in DOMAIN DependsOn(p) : DependsOn(p)[k] = o}
<1>9. \A p \in Orders(steps) : B(p) \subseteq Open(p) /\ Open(p)' = Open(p) \ B(p)
  BY <1>4, <1>7, <1>8 DEF Open
<1>10. ASSUME NEW p \in Orders(steps)
       PROVE  /\ in_degree'[p] = Cardinality(Open(p)') /\ in_degree'[p] \in Nat
              /\ Listed(p, o) > 0 <=> B(p) # {}
              /\ in_degree'[p] = 0 <=> Open(p)' = {}
  <2>1. IsFiniteSet(Open(p))
    BY <1>1, OpenFinite
  <2>2. IsFiniteSet(B(p)) /\ IsFiniteSet(Open(p)')
    BY <1>9, <2>1, FS_Subset
  <2>3. Open(p) \cap B(p) = B(p)
    BY <1>9
  <2>4. Cardinality(Open(p) \ B(p)) = Cardinality(Open(p)) - Cardinality(Open(p) \cap B(p))
    BY <2>1, FS_Difference
  <2>5. Cardinality(Open(p)') = Cardinality(Open(p)) - Cardinality(B(p))
    BY <1>9, <2>3, <2>4
  <2>6. Listed(p, o) = Cardinality(B(p))
    BY DEF Listed
  <2>7. in_degree'[p] = Cardinality(Open(p)')
    BY <1>1, <1>3, <2>5, <2>6 DEF HeapInv
  <2>8. Cardinality(Open(p)') \in Nat /\ (Cardinality(Open(p)') = 0 <=> Open(p)' = {})
    BY <2>2, FS_CardinalityType, FS_EmptySet
  <2>9. Cardinality(B(p)) \in Nat /\ (Cardinality(B(p)) = 0 <=> B(p) = {})
    BY <2>2, FS_CardinalityType, FS_EmptySet
  <2> HIDE DEF B
  <2> QED BY <2>6, <2>7, <2>8, <2>9
<1>11. \A p \in Range(ordered) : p \in Orders(steps) /\ Open(p) = {}
  <2> SUFFICES ASSUME NEW p \in Range(ordered) PROVE p \in Orders(steps) /\ Open(p) = {}
    OBVIOUS
  <2>1. PICK i \in DOMAIN ordered : ordered[i] = p
    BY DEF Range
  <2>2. Range(DependsOn(p)) \subseteq Range(ordered)
    <3> SUFFICES ASSUME NEW d \in Range(DependsOn(p)) PROVE d \in Range(ordered)
      OBVIOUS
    <3>1. PICK j \in 1 .. (i - 1) : ordered[j] = d
      BY <1>1, <2>1 DEF SortInv
    <3>2. j \in DOMAIN ordered
      BY <1>5, <2>1, <3>1
    <3> QED BY <3>1, <3>2 DEF Range
  <2> QED BY <1>5, <2>1, <2>2 DEF Open, Range
<1>12. ready' = {p \in Orders(steps) \ Range(ordered') : Open(p)' = {}}
  <2>1. ASSUME NEW p \in ready'
        PROVE  p \in Orders(steps) \ Range(ordered') /\ Open(p)' = {}
    <3>1. CASE p \in ready \ {o}
      BY <1>1, <1>7, <1>9, <3>1 DEF HeapInv
    <3>2. CASE p \in Orders(steps) /\ Listed(p, o) > 0 /\ in_degree'[p] = 0
      <4>1. B(p) # {} /\ Open(p)' = {}
        BY <1>10, <3>2
      <4>2. Open(p) # {}
        BY <1>9, <3>2, <4>1
      <4> QED BY <1>4, <1>7, <1>11, <3>2, <4>1, <4>2
    <3> QED BY <1>3, <3>1, <3>2
  <2>2. ASSUME NEW p \in Orders(steps) \ Range(ordered'), Open(p)' = {}
        PROVE  p \in ready'
    <3>1. CASE Open(p) = {}
      BY <1>1, <1>3, <1>7, <3>1 DEF HeapInv
    <3>2. CASE Open(p) # {}
      <4>1. B(p) # {}
        BY <1>9, <2>2, <3>2
      <4> QED BY <1>3, <1>10, <2>2, <4>1
    <3> QED BY <3>1, <3>2
  <2> QED BY <2>1, <2>2
<1>13. in_degree' \in [Orders(steps) -> Nat]
  BY <1>3, <1>10
<1>14. HeapInv'
  BY <1>1, <1>2, <1>8, <1>10, <1>12 DEF HeapInv
<1>15. TypeOK'
  BY <1>1, <1>2, <1>5, <1>12, <1>13 DEF TypeOK, Channels
<1>16. SortInv'
  <2>1. ASSUME NEW i \in DOMAIN ordered', NEW j \in DOMAIN ordered',
               ordered'[i] = ordered'[j]
        PROVE  i = j
    <3>1. \A k \in 1 .. Len(ordered) : ordered'[k] # o
      BY <1>4, <1>5, <1>6 DEF Range
    <3>2. CASE i \in 1 .. Len(ordered) /\ j \in 1 .. Len(ordered)
      <4>1. i \in DOMAIN ordered /\ j \in DOMAIN ordered /\ ordered[i] = ordered[j]
        BY <1>5, <1>6, <2>1, <3>2
      <4> QED BY <1>1, <4>1 DEF SortInv
    <3>3. CASE i = Len(ordered) + 1 \/ j = Len(ordered) + 1
      BY <1>5, <1>6, <2>1, <3>1, <3>3
    <3> QED BY <1>5, <1>6, <3>2, <3>3
  <2>2. ASSUME NEW i \in DOMAIN ordered', NEW d \in Range(DependsOn(ordered'[i]))
        PROVE  \E j \in 1 .. (i - 1) : ordered'[j] = d
    <3>1. CASE i = Len(ordered) + 1
      <4>1. d \in Range(ordered)
        BY <1>4, <1>6, <2>2, <3>1 DEF Open, Range
      <4>2. PICK j \in DOMAIN ordered : ordered[j] = d
        BY <4>1 DEF Range
      <4> QED BY <1>5, <1>6, <3>1, <4>2
    <3>2. CASE i \in DOMAIN ordered
      <4>1. ordered'[i] = ordered[i]
        BY <1>5, <1>6, <3>2
      <4>2. PICK j \in 1 .. (i - 1) : ordered[j] = d
        BY <1>1, <2>2, <3>2, <4>1 DEF SortInv
      <4> QED BY <1>5, <1>6, <3>2, <4>2
    <3> QED BY <1>5, <1>6, <3>1, <3>2
  <2> QED BY <1>2, <2>1, <2>2 DEF SortInv, DependsOn
<1>17. PlaceInv' /\ NoChannelOverlap' /\ DependenciesHonoured'
  <2>1. placed' = Nothing /\ DOMAIN placed' = {}
    BY <1>1, <1>2 DEF Nothing
  <2>2. IsFiniteSet(DOMAIN placed') /\ Cardinality(DOMAIN placed') = 0
    BY <2>1, FS_EmptySet
  <2> QED BY <1>5, <1>6, <2>1, <2>2 DEF PlaceInv, NoChannelOverlap, DependenciesHonoured
<1> QED BY <1>1, <1>2, <1>13, <1>14, <1>15, <1>16, <1>17 DEF IInv

\* The sort ends without touching what has been sorted.
LEMMA SortEndInv == ASSUME IInv, SortEnd PROVE IInv'
<1>1. /\ TypeOK /\ pc = "sort" /\ in_degree \in [Orders(steps) -> Nat]
      /\ SortInv /\ PlaceInv /\ NoChannelOverlap /\ DependenciesHonoured
      /\ placed = Nothing
  BY DEF IInv, SortEnd
<1>2. /\ request' = request /\ steps' = steps /\ in_degree' = in_degree
      /\ ready' = ready /\ ordered' = ordered /\ placed' = placed
      /\ pc' \in {"place", "error"}
      /\ pc' = "place" => channel_free_at' = [c \in Channels |-> 0]
      /\ pc' = "error" => channel_free_at' = channel_free_at
  BY DEF SortEnd, StartPlacing, steps
<1>3. TypeOK' /\ (pc' = "place" => channel_free_at' \in [Channels' -> Nat])
  BY <1>1, <1>2 DEF TypeOK, Channels
<1>4. SortInv' /\ DependenciesHonoured' /\ NoChannelOverlap'
  BY <1>1, <1>2 DEF SortInv, DependenciesHonoured, NoChannelOverlap, DependsOn
<1>5. PlaceInv'
  BY <1>1, <1>2 DEF PlaceInv, Nothing
<1> QED BY <1>2, <1>3, <1>4, <1>5 DEF IInv

\* What a step of the placement does: order o, the one after the n placed so far,
\* goes on channel c once its dependencies have ended and the channel is free.
Placing(n, o, dep_end, c, start, end) ==
  /\ n = Cardinality(DOMAIN placed) /\ n + 1 \in 1 .. Len(ordered)
  /\ o = ordered[n + 1] /\ o \notin DOMAIN placed
  /\ \A d \in Range(DependsOn(o)) : d \in DOMAIN placed /\ placed[d].end <= dep_end
  /\ dep_end \in DepEnds(o) /\ \A t \in DepEnds(o) : t <= dep_end
  /\ IsPick(channel_free_at, dep_end, c)
  /\ start = StartOn(channel_free_at, dep_end, c) /\ end = start + Seconds(o)
  /\ start <= end /\ dep_end <= start /\ channel_free_at[c] <= start
  /\ channel_free_at' = [channel_free_at EXCEPT ![c] = end]
  /\ placed' = [p \in DOMAIN placed \cup {o} |->
                  IF p = o THEN [channel |-> c, start |-> start, end |-> end] ELSE placed[p]]

LEMMA PlaceFacts ==
  ASSUME IInv, Place
  PROVE  \E n, dep_end, start, end \in Nat : \E o \in Orders(steps) : \E c \in Channels :
           Placing(n, o, dep_end, c, start, end)
<1> DEFINE n == Cardinality(DOMAIN placed)
           o == Turn
<1>1. /\ TypeOK /\ pc = "place" /\ channel_free_at \in [Channels -> Nat]
      /\ SortInv /\ PlaceInv /\ NoChannelOverlap /\ DependenciesHonoured
  BY DEF IInv, Place
<1>3. PICK dep_end \in DepEnds(o) :
        /\ \A t \in DepEnds(o) : t <= dep_end
        /\ \E c \in Channels :
             IsPick(channel_free_at, dep_end, c) /\ PlaceOn(o, dep_end, c)
  BY DEF Place
<1>4. PICK c \in Channels : IsPick(channel_free_at, dep_end, c) /\ PlaceOn(o, dep_end, c)
  BY <1>3
<1>5. n \in Nat /\ n + 1 \in 1 .. Len(ordered) /\ ordered \in Seq(Orders(steps))
  <2>1. IsFiniteSet(DOMAIN placed) /\ n <= Len(ordered) /\ ordered \in Seq(Orders(steps))
    BY <1>1 DEF PlaceInv, TypeOK
  <2>2. n \in Nat
    BY <2>1, FS_CardinalityType
  <2>3. n # Len(ordered)
    BY DEF Place, PlacedAll
  <2> QED BY <2>1, <2>2, <2>3
<1>6. /\ o = ordered[n + 1] /\ o \in Orders(steps)
      /\ DOMAIN placed = {ordered[j] : j \in 1 .. n}
  BY <1>1, <1>5 DEF Turn, PlaceInv
<1> HIDE DEF o
<1>7. o \notin DOMAIN placed
  <2> SUFFICES ASSUME NEW j \in 1 .. n, ordered[j] = o PROVE FALSE
    BY <1>6
  <2>1. j \in DOMAIN ordered /\ n + 1 \in DOMAIN ordered /\ j # n + 1
    BY <1>5
  <2> QED BY <1>1, <1>6, <2>1 DEF SortInv
<1>8. \A d \in Range(DependsOn(o)) : d \in DOMAIN placed
  <2> SUFFICES ASSUME NEW d \in Range(DependsOn(o)) PROVE d \in DOMAIN placed
    OBVIOUS
  <2>1. PICK i \in DOMAIN ordered : i = n + 1
    BY <1>5
  <2>2. PICK j \in 1 .. (i - 1) : ordered[j] = d
    BY <1>1, <1>6, <2>1 DEF SortInv
  <2>3. j \in 1 .. n
    BY <1>5, <2>1, <2>2
  <2> QED BY <1>6, <2>2, <2>3
<1>9. \A p \in DOMAIN placed : placed[p].end \in Nat
  BY <1>1 DEF TypeOK
<1>10. dep_end \in Nat /\ \A d \in Range(DependsOn(o)) : placed[d].end <= dep_end
  BY <1>3, <1>8, <1>9 DEF DepEnds
<1> DEFINE start == StartOn(channel_free_at, dep_end, c)
           end == start + Seconds(o)
<1>11. Seconds(o) \in Nat
  BY <1>1, <1>6, TypedSteps
<1>12. /\ start \in Nat /\ end \in Nat /\ start <= end
       /\ dep_end <= start /\ channel_free_at[c] <= start
  BY <1>1, <1>4, <1>10, <1>11 DEF StartOn
<1>13. /\ channel_free_at' = [channel_free_at EXCEPT ![c] = end]
       /\ placed' = [p \in DOMAIN placed \cup {o} |->
                       IF p = o THEN [channel |-> c, start |-> start, end |-> end]
                                ELSE placed[p]]
  BY <1>4 DEF PlaceOn
<1>14. Placing(n, o, dep_end, c, start, end)
  BY <1>3, <1>4, <1>5, <1>6, <1>7, <1>8, <1>10, <1>12, <1>13 DEF Placing
<1> HIDE DEF start, end, n
<1> QED BY <1>4, <1>5, <1>6, <1>10, <1>12, <1>14

\* The next step starts after its dependencies have ended and when its channel
\* is free, and so after everything placed on that channel before.
LEMMA PlaceStepInv == ASSUME IInv, Place PROVE IInv'
<1>1. /\ TypeOK /\ pc = "place" /\ channel_free_at \in [Channels -> Nat]
      /\ SortInv /\ PlaceInv /\ NoChannelOverlap /\ DependenciesHonoured
  BY DEF IInv, Place
<1>2. /\ request' = request /\ steps' = steps /\ in_degree' = in_degree
      /\ ready' = ready /\ ordered' = ordered /\ pc' = pc
  BY DEF Place, steps
<1>3. PICK n, dep_end, start, end \in Nat, o \in Orders(steps), c \in Channels :
        Placing(n, o, dep_end, c, start, end)
  BY PlaceFacts
<1>4. n = Cardinality(DOMAIN placed)
  BY <1>3 DEF Placing
<1>5. n + 1 \in 1 .. Len(ordered) /\ ordered \in Seq(Orders(steps))
  BY <1>1, <1>3 DEF Placing, TypeOK
<1>6. o = ordered[n + 1] /\ DOMAIN placed = {ordered[j] : j \in 1 .. n}
  BY <1>1, <1>3, <1>4 DEF Placing, PlaceInv
<1>7. o \notin DOMAIN placed
  BY <1>3 DEF Placing
<1>9. \A p \in DOMAIN placed :
        /\ placed[p].start \in Nat /\ placed[p].end \in Nat
        /\ placed[p].channel \in Channels
  BY <1>1 DEF TypeOK
<1>10. \A d \in Range(DependsOn(o)) : d \in DOMAIN placed /\ placed[d].end <= dep_end
  BY <1>3 DEF Placing
<1>12. start <= end /\ dep_end <= start /\ channel_free_at[c] <= start
  BY <1>3 DEF Placing
<1>13. /\ channel_free_at' = [channel_free_at EXCEPT ![c] = end]
       /\ placed' = [p \in DOMAIN placed \cup {o} |->
                       IF p = o THEN [channel |-> c, start |-> start, end |-> end]
                                ELSE placed[p]]
  BY <1>3 DEF Placing
<1>14. /\ DOMAIN placed' = DOMAIN placed \cup {o}
       /\ placed'[o] = [channel |-> c, start |-> start, end |-> end]
       /\ \A p \in DOMAIN placed : placed'[p] = placed[p]
  BY <1>7, <1>13
<1>15. /\ channel_free_at' \in [Channels -> Nat] /\ channel_free_at'[c] = end
       /\ \A k \in Channels \ {c} : channel_free_at'[k] = channel_free_at[k]
  BY <1>1, <1>13
<1>16. \A p \in DOMAIN placed :
         /\ placed[p].start <= placed[p].end
         /\ placed[p].end <= channel_free_at[placed[p].channel]
  BY <1>1 DEF PlaceInv
<1>17. TypeOK'
  <2>1. placed' \in [DOMAIN placed' -> [channel : Channels, start : Nat, end : Nat]]
    <3>1. \A p \in DOMAIN placed : placed[p] \in [channel : Channels, start : Nat, end : Nat]
      BY <1>1 DEF TypeOK
    <3>2. placed'[o] \in [channel : Channels, start : Nat, end : Nat]
      BY <1>14
    <3>3. \A p \in DOMAIN placed' :
            placed'[p] \in [channel : Channels, start : Nat, end : Nat]
      BY <1>14, <3>1, <3>2
    <3> QED BY <1>13, <3>3
  <2>2. DOMAIN placed' \subseteq Orders(steps)
    BY <1>1, <1>6, <1>14 DEF TypeOK
  <2>3. Channels' = Channels
    BY <1>2 DEF Channels
  <2> QED BY <1>1, <1>2, <1>15, <2>1, <2>2, <2>3 DEF TypeOK
<1>18. SortInv'
  BY <1>1, <1>2 DEF SortInv, DependsOn
<1>19. PlaceInv'
  <2>1. IsFiniteSet(DOMAIN placed') /\ Cardinality(DOMAIN placed') = n + 1
    BY <1>1, <1>4, <1>7, <1>14, FS_AddElement DEF PlaceInv
  <2>2. DOMAIN placed' = {ordered'[j] : j \in 1 .. (n + 1)}
    BY <1>2, <1>5, <1>6, <1>14
  <2>3. ASSUME NEW p \in DOMAIN placed'
        PROVE  /\ placed'[p].start <= placed'[p].end
               /\ placed'[p].end <= channel_free_at'[placed'[p].channel]
    <3>1. CASE p = o
      BY <1>12, <1>14, <1>15, <3>1
    <3>2. CASE p # o
      <4>1. p \in DOMAIN placed /\ placed'[p] = placed[p]
        BY <1>14, <3>2
      <4>2. CASE placed[p].channel = c
        BY <1>9, <1>12, <1>15, <1>16, <4>1, <4>2, <1>1
      <4>3. CASE placed[p].channel # c
        BY <1>9, <1>15, <1>16, <4>1, <4>3
      <4> QED BY <4>2, <4>3
    <3> QED BY <3>1, <3>2
  <2>4. n + 1 <= Len(ordered')
    BY <1>2, <1>5
  <2> QED BY <2>1, <2>2, <2>3, <2>4 DEF PlaceInv
<1>20. NoChannelOverlap'
  <2>1. ASSUME NEW p \in DOMAIN placed, placed[p].channel = c
        PROVE  placed'[p].end <= placed'[o].start
    <3>1. placed[p].end <= channel_free_at[c] /\ channel_free_at[c] \in Nat
      BY <1>1, <1>16, <2>1
    <3> QED BY <1>9, <1>12, <1>14, <3>1
  <2>2. ASSUME NEW p \in DOMAIN placed', NEW q \in DOMAIN placed',
               p # q, placed'[p].channel = placed'[q].channel
        PROVE  placed'[p].end <= placed'[q].start \/ placed'[q].end <= placed'[p].start
    <3>1. CASE p = o
      BY <1>14, <2>1, <2>2, <3>1
    <3>2. CASE q = o
      BY <1>14, <2>1, <2>2, <3>2
    <3>3. CASE p # o /\ q # o
      BY <1>1, <1>14, <2>2, <3>3 DEF NoChannelOverlap
    <3> QED BY <3>1, <3>2, <3>3
  <2> QED BY <2>2 DEF NoChannelOverlap
<1>21. DependenciesHonoured'
  <2>1. ASSUME NEW p \in DOMAIN placed', NEW d \in Range(DependsOn(p))
        PROVE  d \in DOMAIN placed' /\ placed'[d].end <= placed'[p].start
    <3>1. CASE p = o
      <4>1. d \in DOMAIN placed /\ placed[d].end <= dep_end /\ placed[d].end \in Nat
        BY <1>9, <1>10, <2>1, <3>1
      <4> QED BY <1>10, <1>12, <1>14, <3>1, <4>1
    <3>2. CASE p # o
      BY <1>1, <1>14, <2>1, <3>2 DEF DependenciesHonoured
    <3> QED BY <3>1, <3>2
  <2> QED BY <1>2, <2>1 DEF DependenciesHonoured, DependsOn
<1> QED BY <1>1, <1>2, <1>15, <1>17, <1>18, <1>19, <1>20, <1>21 DEF IInv, Channels

\* Steps that only change pc, and stuttering.
LEMMA QuietInv ==
  ASSUME IInv, Reject \/ Empty \/ Return \/ UNCHANGED vars
  PROVE  IInv'
<1>1. /\ request' = request /\ steps' = steps /\ in_degree' = in_degree
      /\ ready' = ready /\ ordered' = ordered /\ channel_free_at' = channel_free_at
      /\ placed' = placed
  BY DEF Reject, Empty, Return, vars, steps
<1>2. pc' = pc \/ (pc \in {"call", "place"} /\ pc' \in {"done", "error"})
  BY DEF Reject, Empty, Return, vars
<1>3. TypeOK'
  BY <1>1, <1>2 DEF IInv, TypeOK, Channels
<1>4. SortInv' /\ PlaceInv' /\ NoChannelOverlap' /\ DependenciesHonoured'
  BY <1>1 DEF IInv, SortInv, PlaceInv, NoChannelOverlap, DependenciesHonoured, DependsOn
<1>5. pc' = "sort" => HeapInv'
  BY <1>1, <1>2 DEF IInv, HeapInv, DependsOn, Open
<1> QED BY <1>1, <1>2, <1>3, <1>4, <1>5 DEF IInv, Channels

\* The invariant is inductive.
LEMMA Invariance == Spec => []IInv
<1>1. Init => IInv
  BY InitInv
<1>2. IInv /\ [Next]_vars => IInv'
  BY StartSortInv, PopInv, SortEndInv, PlaceStepInv, QuietInv DEF Next
<1> QED BY <1>1, <1>2, PTL DEF Spec

-----------------------------------------------------------------------------
\* schedule_with_channels keeps its data what the schema says, whatever
\* program and channel count it is called with.
THEOREM TypeCorrect == Spec => []TypeOK
<1>1. IInv => TypeOK
  BY DEF IInv
<1> QED BY <1>1, Invariance, PTL

\* No two steps ever run on one channel at the same time.
THEOREM ChannelsExclusive == Spec => []NoChannelOverlap
<1>1. IInv => NoChannelOverlap
  BY DEF IInv
<1> QED BY <1>1, Invariance, PTL

\* Every placed step starts after all it depends on has ended.
THEOREM DependenciesRespected == Spec => []DependenciesHonoured
<1>1. IInv => DependenciesHonoured
  BY DEF IInv
<1> QED BY <1>1, Invariance, PTL

-----------------------------------------------------------------------------
(* Kahn's algorithm refuses cycles and nothing else                        *)

\* Past the checks there is something to sort; what is placed has been sorted in
\* full; and the verdict, once there is one, is right.
VerdictInv ==
  /\ pc \in {"sort", "place"} => request.channels >= 1 /\ steps # <<>> /\ ~Malformed
  /\ pc = "place" => Len(ordered) = Len(steps)
  /\ RefusesExactlyTheImpossible

\* As many have been popped as there are steps exactly if every step has been.
LEMMA AllPopped ==
  ASSUME IInv, DistinctOrders(steps)
  PROVE  Len(ordered) = Len(steps) <=> Range(ordered) = Orders(steps)
<1>1. steps \in Seq(Step) /\ ordered \in Seq(Orders(steps))
  BY DEF IInv, TypeOK, Call, steps
<1>2. IsFiniteSet(Orders(steps)) /\ Cardinality(Orders(steps)) = Len(steps)
  BY <1>1, OneStepPerOrder
<1>3. Len(ordered) \in Nat /\ ordered \in [1 .. Len(ordered) -> Orders(steps)]
  BY <1>1
<1>4. Cardinality(1 .. Len(ordered)) = Len(ordered)
  BY <1>3, FS_Interval, SMTT(30)
<1>5. ordered \in Injection(1 .. Len(ordered), Orders(steps))
  BY <1>3 DEF IInv, SortInv, Injection, IsInjective
<1>6. Len(ordered) = Len(steps) <=> ordered \in Surjection(1 .. Len(ordered), Orders(steps))
  BY <1>2, <1>4, <1>5, FS_Injection
<1>7. ordered \in Surjection(1 .. Len(ordered), Orders(steps)) <=> Range(ordered) = Orders(steps)
  BY <1>3 DEF Surjection, Range
<1> QED BY <1>6, <1>7

\* A complete sort proves that no steps wait for one another: in any set of steps
\* the one popped first depends on none of the others.
LEMMA SortedAcyclic ==
  ASSUME IInv, DistinctOrders(steps), Len(ordered) = Len(steps)
  PROVE  Acyclic(steps)
<1>1. steps \in Seq(Step) /\ ordered \in Seq(Orders(steps))
  BY DEF IInv, TypeOK, Call, steps
<1>2. Range(ordered) = Orders(steps)
  BY AllPopped
<1>3. /\ DOMAIN ordered = 1 .. Len(ordered) /\ Len(ordered) \in Nat
      /\ \A i \in DOMAIN steps : \E k \in DOMAIN ordered : ordered[k] = steps[i].order
  <2>1. DOMAIN ordered = 1 .. Len(ordered) /\ Len(ordered) \in Nat
    BY <1>1
  <2>2. \A o \in Orders(steps) : \E k \in DOMAIN ordered : ordered[k] = o
    BY <1>2 DEF Range
  <2>3. \A i \in DOMAIN steps : steps[i].order \in Orders(steps)
    BY ONLY <1>1, DistinctOrders(steps), OneStepPerOrder
  <2> QED BY <2>1, <2>2, <2>3
<1> SUFFICES ASSUME NEW S \in (SUBSET DOMAIN steps) \ {{}}
             PROVE  \E i \in S : \A j \in S : steps[j].order \notin Range(steps[i].depends_on)
  BY DEF Acyclic
<1> DEFINE K == {k \in DOMAIN ordered : \E i \in S : steps[i].order = ordered[k]}
<1>4. K \in SUBSET Nat /\ K # {}
  BY <1>3
<1>5. PICK k \in K : \A l \in K : k <= l
  BY <1>4, Least
<1>6. PICK i \in S : steps[i].order = ordered[k]
  OBVIOUS
<1>7. DependsOn(ordered[k]) = steps[i].depends_on
  <2>1. i \in DOMAIN steps
    OBVIOUS
  <2>2. StepAt(steps, steps[i].order) = steps[i]
    BY ONLY <1>1, <2>1, DistinctOrders(steps), OneStepPerOrder
  <2> QED BY <1>6, <2>2 DEF DependsOn
<1>8. ASSUME NEW j \in S, steps[j].order \in Range(steps[i].depends_on)
      PROVE  FALSE
  <2>1. PICK l \in 1 .. (k - 1) : ordered[l] = steps[j].order
    BY <1>7, <1>8 DEF IInv, SortInv
  <2>2. k \in Nat /\ k \in 1 .. Len(ordered)
    BY <1>3
  <2>3. l \in 1 .. Len(ordered) /\ l < k
    BY ONLY <2>2, <1>3, l \in 1 .. (k - 1)
  <2>4. l \in K
    BY ONLY <1>3, <2>1, <2>3, j \in S
  <2>5. k <= l
    BY <1>5, <2>4
  <2> QED BY ONLY <2>2, <2>3, <2>5, <1>3
<1> QED BY <1>8

\* A sort that gets stuck proves the opposite: the steps left over all wait for
\* one another.
LEMMA StuckCyclic ==
  ASSUME IInv, pc = "sort", ~Malformed, ready = {}, Len(ordered) # Len(steps)
  PROVE  ~Acyclic(steps)
<1>1. steps \in Seq(Step) /\ DistinctOrders(steps)
  BY DEF IInv, TypeOK, Call, steps, Malformed
<1>2. HeapInv
  BY DEF IInv
<1> DEFINE S == {i \in DOMAIN steps : steps[i].order \notin Range(ordered)}
<1>3. S # {}
  <2>1. Range(ordered) \subseteq Orders(steps)
    BY DEF IInv, TypeOK, Range
  <2>2. PICK o \in Orders(steps) : o \notin Range(ordered)
    BY <1>1, <2>1, AllPopped
  <2> QED BY <1>1, <2>2, OneStepPerOrder
<1>4. ASSUME NEW i \in S
      PROVE  \E j \in S : steps[j].order \in Range(steps[i].depends_on)
  <2> DEFINE o == steps[i].order
  <2>1. o \in Orders(steps) \ Range(ordered) /\ DependsOn(o) = steps[i].depends_on
    BY <1>1, OneStepPerOrder DEF DependsOn
  <2>2. Open(o) # {}
    BY <1>2, <2>1 DEF HeapInv
  <2>3. PICK k \in DOMAIN DependsOn(o) : DependsOn(o)[k] \notin Range(ordered)
    BY <2>2 DEF Open
  <2>4. DependsOn(o)[k] \in Range(DependsOn(o)) /\ DependsOn(o)[k] \in Orders(steps)
    BY <1>2, <2>1, <2>3 DEF HeapInv, Range
  <2>5. PICK j \in DOMAIN steps : steps[j].order = DependsOn(o)[k]
    BY <1>1, <2>4, OneStepPerOrder
  <2>6. j \in S
    BY <2>3, <2>5
  <2> QED BY <2>1, <2>4, <2>5, <2>6
<1>5. S \in (SUBSET DOMAIN steps) \ {{}}
  BY <1>3
<1> HIDE DEF S
<1> QED BY <1>4, <1>5 DEF Acyclic

\* Every step keeps the verdict right.
LEMMA VerdictStep ==
  ASSUME IInv, VerdictInv, [Next]_vars
  PROVE  VerdictInv'
<1> USE DEF VerdictInv, RefusesExactlyTheImpossible
<1>1. request' = request /\ steps' = steps
  BY DEF Next, Reject, Empty, StartSort, Pop, SortEnd, Place, Return, vars, steps
<1>2. Malformed' = Malformed
  BY <1>1 DEF Malformed
<1>3. CASE Reject
  BY <1>1, <1>3 DEF Reject, Malformed, Schedulable
<1>4. CASE Empty
  BY <1>1, <1>4 DEF Empty, Schedulable
<1>5. CASE StartSort
  BY <1>1, <1>2, <1>5 DEF StartSort
<1>6. CASE Pop
  BY <1>1, <1>2, <1>6 DEF Pop
<1>7. CASE SortEnd
  <2>1. /\ pc = "sort" /\ ready = {} /\ ordered' = ordered
        /\ request.channels >= 1 /\ steps # <<>> /\ ~Malformed
    BY <1>7 DEF SortEnd
  <2>2. CASE Len(ordered) = Len(steps)
    <3>1. pc' = "place"
      BY <1>7, <2>2 DEF SortEnd, StartPlacing
    <3> QED BY <1>1, <1>2, <2>1, <2>2, <3>1
  <2>3. CASE Len(ordered) # Len(steps)
    <3>1. pc' = "error"
      BY <1>7, <2>3 DEF SortEnd
    <3>2. ~Schedulable(steps)
      BY <2>1, <2>3, StuckCyclic DEF Schedulable
    <3> QED BY <1>1, <3>1, <3>2
  <2> QED BY <2>2, <2>3
<1>8. CASE Place
  BY <1>1, <1>2, <1>8 DEF Place
<1>9. CASE Return
  <2>1. pc = "place" /\ pc' = "done"
    BY <1>9 DEF Return
  <2>2. /\ request.channels >= 1 /\ steps # <<>> /\ ~Malformed
        /\ Len(ordered) = Len(steps)
    BY <2>1
  <2>3. Schedulable(steps)
    BY <2>2, SortedAcyclic DEF Malformed, Schedulable
  <2> QED BY <1>1, <2>1, <2>2, <2>3
<1>10. CASE UNCHANGED vars
  BY <1>1, <1>2, <1>10 DEF vars
<1> QED BY <1>3, <1>4, <1>5, <1>6, <1>7, <1>8, <1>9, <1>10 DEF Next

\* schedule_with_channels raises ValueError exactly for what has no schedule: its
\* counting of dependencies finds every cycle and takes nothing else for one,
\* whatever program and channel count it is called with (scheduler.py:44-75).
THEOREM RefusesTheImpossible == Spec => []RefusesExactlyTheImpossible
<1>1. Init => VerdictInv
  BY DEF Init, VerdictInv, RefusesExactlyTheImpossible
<1>2. IInv /\ VerdictInv /\ [Next]_vars => VerdictInv'
  BY VerdictStep
<1>3. VerdictInv => RefusesExactlyTheImpossible
  BY DEF VerdictInv
<1> QED BY <1>1, <1>2, <1>3, Invariance, PTL DEF Spec

-----------------------------------------------------------------------------
(* The critical path                                                       *)

\* What a returned call can be said about: its steps can be scheduled, and
\* _topological_order lists them all, each after what it depends on.
LEMMA DoneIsSorted ==
  ASSUME IInv, RefusesExactlyTheImpossible, pc = "done", steps # <<>>
  PROVE  /\ steps \in Seq(Step) /\ Timed(steps)
         /\ DistinctOrders(steps) /\ Closed(steps) /\ Acyclic(steps)
         /\ Topological(steps, TopologicalOrder(steps))
<1>1. steps \in Seq(Step)
  BY DEF IInv, TypeOK, Call, steps
<1>2. Timed(steps)
  <2>1. \A i \in DOMAIN steps : steps[i] \in Step
    BY <1>1
  <2> QED BY <2>1 DEF Timed, Step
<1>3. DistinctOrders(steps) /\ Closed(steps) /\ Acyclic(steps)
  BY DEF RefusesExactlyTheImpossible, Schedulable
<1>4. Topological(steps, TopologicalOrder(steps))
  BY ONLY <1>1, <1>2, <1>3, SortIsTopological
<1> QED BY <1>1, <1>2, <1>3, <1>4

\* The critical path proves itself.
LEMMA PathCertified ==
  ASSUME IInv, RefusesExactlyTheImpossible
  PROVE  CriticalPathCertified
<1> SUFFICES ASSUME pc = "done", steps # <<>>
             PROVE  LET opt == ComputeOptimization(steps)
                        path == opt.path
                    IN  /\ \A i \in 1 .. (Len(path) - 1) : path[i] \in Deps(steps, path[i + 1])
                        /\ opt.critical = FoldLeft(LAMBDA sum, o : sum + Seconds(o), 0, path)
                        /\ \A o \in Orders(steps) :
                             /\ opt.ends[o] <= opt.critical
                             /\ \A d \in Deps(steps, o) \cup {o} :
                                  (IF d = o THEN 0 ELSE opt.ends[d]) + Seconds(o) <= opt.ends[o]
  BY DEF CriticalPathCertified
<1> DEFINE end == EarliestEnd(steps)
           path == CriticalPath(steps)
           critical == MaxOf({end[p] : p \in DOMAIN end})
<1>1. /\ ComputeOptimization(steps).path = path
      /\ ComputeOptimization(steps).critical = critical
      /\ ComputeOptimization(steps).ends = end
  BY DEF ComputeOptimization
<1>2. /\ steps \in Seq(Step) /\ Timed(steps) /\ DistinctOrders(steps) /\ Closed(steps)
      /\ Topological(steps, TopologicalOrder(steps))
  BY DoneIsSorted
<1> HIDE DEF end, path, critical
<1>3. end = EarliestEnd(steps) /\ path = CriticalPath(steps)
  BY DEF end, path
<1>4. /\ DOMAIN end = Orders(steps)
      /\ \A o \in Orders(steps) :
           /\ end[o] \in Nat /\ BestStart(StepAt(steps, o), end) \in Nat
           /\ end[o] = BestStart(StepAt(steps, o), end) + StepAt(steps, o).estimated_seconds
  BY ONLY <1>2, <1>3, EndsCertified
<1>5. \A o \in Orders(steps) : /\ StepAt(steps, o).estimated_seconds \in Nat
                               /\ StepAt(steps, o).depends_on \in Seq(Int)
  BY ONLY <1>2, LookupTyped
<1>6. /\ IsPath(steps, end, CriticalPath(steps))
      /\ end[LastToEnd(end)] = MaxOf({end[p] : p \in DOMAIN end})
      /\ \A o \in Orders(steps) : end[o] <= end[LastToEnd(end)]
  BY ONLY <1>2, <1>3, steps # <<>>, CriticalPathFound
<1>7. IsPath(steps, end, path) /\ end[LastToEnd(end)] = critical
  BY ONLY <1>3, <1>6 DEF critical
<1>8. FoldLeft(LAMBDA sum, o : sum + StepAt(steps, o).estimated_seconds, 0, path) = critical
  <2>1. FoldLeft(LAMBDA sum, o : sum + StepAt(steps, o).estimated_seconds, 0, path)
          = end[LastToEnd(end)]
    BY ONLY <1>4, <1>5, <1>7, PathAddsUp
  <2> QED BY <1>7, <2>1
<1>9. critical = FoldLeft(LAMBDA sum, o : sum + Seconds(o), 0, path)
  BY <1>8 DEF Seconds
<1>10. \A i \in 1 .. (Len(path) - 1) : path[i] \in Deps(steps, path[i + 1])
  BY <1>7 DEF IsPath
<1>11. ASSUME NEW o \in Orders(steps), NEW d \in Deps(steps, o) \cup {o}
       PROVE  (IF d = o THEN 0 ELSE end[d]) + Seconds(o) <= end[o]
  <2>1. \A e \in Range(StepAt(steps, o).depends_on) : e \in Orders(steps) /\ end[e] \in Nat
    BY <1>2, <1>4, DepsAreOrders DEF Deps
  <2>2. \A e \in Range(StepAt(steps, o).depends_on) : end[e] <= BestStart(StepAt(steps, o), end)
    BY ONLY <1>5, <2>1, o \in Orders(steps), BestStartLatest
  <2>3. CASE d = o
    BY <1>4, <1>5, <2>3 DEF Seconds
  <2>4. CASE d # o
    <3>1. end[d] \in Nat /\ end[d] <= BestStart(StepAt(steps, o), end)
      BY <2>1, <2>2, <2>4 DEF Deps
    <3> QED BY <1>4, <1>5, <2>4, <3>1 DEF Seconds
  <2> QED BY <2>3, <2>4
<1>12. \A o \in Orders(steps) : end[o] <= critical
  BY <1>6, <1>7
<1> QED BY <1>1, <1>9, <1>10, <1>11, <1>12

\* Whatever program a call returns for, the reported critical path is a chain of
\* dependencies that takes the critical time, and no chain takes longer.
THEOREM CriticalPathProved == Spec => []CriticalPathCertified
<1>1. IInv /\ RefusesExactlyTheImpossible => CriticalPathCertified
  BY PathCertified
<1> QED BY <1>1, Invariance, RefusesTheImpossible, PTL

-----------------------------------------------------------------------------
(* The cycle time                                                          *)

\* Of the schedule under construction: it follows the topological order, a step
\* ends when its seconds are over, and all that is placed ends within the seconds
\* of what is placed, since some channel is never idle.
Timely ==
  /\ SortedByReady(steps, ordered)
  /\ \A o \in DOMAIN placed : /\ placed[o].end = placed[o].start + Seconds(o)
                              /\ placed[o].end <= Spent(steps, DOMAIN placed)

\* A channel that is not free from the start is busy until some step on it ends.
InUse ==
  pc = "place" =>
    \A c \in Channels :
      \/ channel_free_at[c] = 0
      \/ \E p \in DOMAIN placed :
           placed[p].channel = c /\ placed[p].end = channel_free_at[c]

\* With a channel for every step none waits for a channel.
Unhindered ==
  request.channels >= Len(steps) =>
    \A o \in DOMAIN placed : placed[o].end = EarliestEnd(steps)[o]

\* The sweep's own loop, turn by turn, has the same channels and the same ends.
Follows(v, n) ==
  /\ v[n].free = channel_free_at
  /\ DOMAIN v[n].end = DOMAIN placed
  /\ \A p \in DOMAIN placed : placed[p].end = v[n].end[p] /\ placed[p].end <= v[n].makespan
  /\ v[n].makespan \in Nat
  /\ v[n].makespan = 0 \/ \E p \in DOMAIN placed : placed[p].end = v[n].makespan

InStep ==
  pc \in {"place", "done"} /\ steps # <<>> =>
    \A v : Sweep(steps, request.channels, v) => Follows(v, Cardinality(DOMAIN placed))

Finished ==
  pc = "done" =>
    IF steps = <<>> THEN placed = Nothing
    ELSE PlacedAll /\ Len(ordered) = Len(steps)

GreedyInv == Timely /\ InUse /\ Unhindered /\ InStep /\ Finished

\* While steps are placed the program is known to be one that can be scheduled, and
\* what has been sorted is the topological order.
LEMMA PlacingSorted ==
  ASSUME IInv, VerdictInv, Timely, pc = "place" \/ (pc = "done" /\ Finished), steps # <<>>
  PROVE  /\ steps \in Seq(Step) /\ Timed(steps)
         /\ DistinctOrders(steps) /\ Closed(steps)
         /\ Topological(steps, TopologicalOrder(steps))
         /\ TopologicalOrder(steps) = ordered /\ Len(ordered) = Len(steps)
<1>1. steps \in Seq(Step) /\ ordered \in Seq(Orders(steps))
  BY DEF IInv, TypeOK, Call, steps
<1>2. Timed(steps)
  <2>1. \A i \in DOMAIN steps : steps[i] \in Step
    BY <1>1
  <2> QED BY <2>1 DEF Timed, Step
<1>3. DistinctOrders(steps) /\ Closed(steps) /\ Acyclic(steps) /\ Len(ordered) = Len(steps)
  <2>1. CASE pc = "place"
    <3>1. DistinctOrders(steps) /\ Closed(steps) /\ Len(ordered) = Len(steps)
      BY <2>1 DEF VerdictInv, Malformed
    <3> QED BY <3>1, SortedAcyclic
  <2>2. CASE pc = "done" /\ Finished
    <3>1. Len(ordered) = Len(steps)
      BY <2>2 DEF Finished
    <3>2. Schedulable(steps)
      BY <2>2 DEF VerdictInv, RefusesExactlyTheImpossible
    <3> QED BY <3>1, <3>2 DEF Schedulable
  <2> QED BY <2>1, <2>2
<1>4. Topological(steps, TopologicalOrder(steps))
  BY ONLY <1>1, <1>2, <1>3, SortIsTopological
<1>5. SortedByReady(steps, ordered)
  BY DEF Timely
<1>6. TopologicalOrder(steps) = ordered
  BY ONLY <1>1, <1>3, <1>5, SortIsUnique
<1> QED BY <1>1, <1>2, <1>3, <1>4, <1>6

\* The order popped is the least of those that can come next.
LEMMA PopGreedy == ASSUME IInv, GreedyInv, Pop PROVE GreedyInv'
<1>1. TypeOK /\ pc = "sort" /\ HeapInv /\ placed = Nothing
  BY DEF IInv, Pop
<1>2. /\ request' = request /\ steps' = steps /\ pc' = pc /\ placed' = placed
  BY DEF Pop, steps
<1>3. PICK o \in ready : (\A p \in ready : o <= p) /\ ordered' = Append(ordered, o)
  BY DEF Pop
<1>4. o \in Orders(steps) /\ ordered \in Seq(Orders(steps))
  BY <1>1 DEF HeapInv, TypeOK
<1>5. /\ Len(ordered') = Len(ordered) + 1 /\ Len(ordered) \in Nat
      /\ \A i \in 1 .. Len(ordered) : ordered'[i] = ordered[i]
      /\ ordered'[Len(ordered) + 1] = o
  BY <1>3, <1>4
<1>6. ready = Ready(steps, Range(ordered))
  <2>1. ASSUME NEW p \in Orders(steps)
        PROVE  Open(p) = {} <=> Deps(steps, p) \subseteq Range(ordered)
    <3>1. Deps(steps, p) = Range(DependsOn(p))
      BY DEF Deps, DependsOn
    <3> QED BY <3>1 DEF Open, Range
  <2> QED BY <1>1, <2>1 DEF HeapInv, Ready
<1>7. Min(ready) = o
  <2>1. ready \in SUBSET Int
    BY <1>1, TypedSteps DEF HeapInv
  <2> QED BY <1>3, <2>1, MinIs
<1>8. SortedByReady(steps, ordered')
  <2> SUFFICES ASSUME NEW n \in 1 .. Len(ordered')
               PROVE  ordered'[n] = Min(Ready(steps, {ordered'[j] : j \in 1 .. (n - 1)}))
    BY DEF SortedByReady
  <2>1. CASE n \in 1 .. Len(ordered)
    <3>1. \A j \in 1 .. (n - 1) : ordered'[j] = ordered[j]
      BY <1>5, <2>1
    <3>2. {ordered'[j] : j \in 1 .. (n - 1)} = {ordered[j] : j \in 1 .. (n - 1)}
      BY <3>1
    <3>3. ordered[n] = Min(Ready(steps, {ordered[j] : j \in 1 .. (n - 1)}))
      BY <2>1 DEF GreedyInv, Timely, SortedByReady
    <3> QED BY <1>5, <2>1, <3>2, <3>3
  <2>2. CASE n = Len(ordered) + 1
    <3>1. n - 1 = Len(ordered) /\ DOMAIN ordered = 1 .. Len(ordered)
      BY <1>4, <1>5, <2>2
    <3>2. {ordered'[j] : j \in 1 .. (n - 1)} = Range(ordered)
      BY <1>5, <3>1 DEF Range
    <3> QED BY <1>5, <1>6, <1>7, <2>2, <3>2
  <2> QED BY <1>5, <2>1, <2>2
<1>9. DOMAIN placed' = {}
  BY <1>1, <1>2 DEF Nothing
<1> QED BY <1>1, <1>2, <1>8, <1>9 DEF GreedyInv, Timely, InUse, Unhindered, InStep, Finished

\* Before the first step is placed every channel is free, in the sweep's loop too.
LEMMA SortEndGreedy == ASSUME IInv, GreedyInv, SortEnd PROVE GreedyInv'
<1>1. /\ request' = request /\ steps' = steps /\ ordered' = ordered /\ placed' = placed
      /\ placed = Nothing /\ DOMAIN placed = {}
  BY DEF IInv, SortEnd, steps, Nothing
<1>2. \/ pc' = "error"
      \/ pc' = "place" /\ channel_free_at' = [c \in 0 .. (request.channels - 1) |-> 0]
  BY DEF SortEnd, StartPlacing, Channels
<1>3. Channels' = 0 .. (request.channels - 1)
  BY <1>1 DEF Channels
<1>4. Timely' /\ Unhindered'
  BY <1>1 DEF GreedyInv, Timely, Unhindered, Seconds
<1>5. InUse' /\ Finished'
  BY <1>2, <1>3 DEF InUse, Finished
<1>6. Cardinality(DOMAIN placed') = 0
  BY <1>1, FS_EmptySet
<1>7. ASSUME pc' = "place", NEW v, Sweep(steps, request.channels, v)
      PROVE  Follows(v, 0)'
  <2>1. v[0] = Unused(request.channels)
    BY <1>7 DEF Sweep
  <2>2. /\ v[0].free = channel_free_at' /\ v[0].end = [o \in {} |-> 0] /\ v[0].makespan = 0
    BY <1>2, <1>7, <2>1 DEF Unused
  <2>3. DOMAIN v[0].end = {}
    BY <2>2
  <2> QED BY <1>1, <2>2, <2>3 DEF Follows
<1>8. InStep'
  BY <1>1, <1>2, <1>6, <1>7 DEF InStep
<1> QED BY <1>4, <1>5, <1>8 DEF GreedyInv

\* Fewer steps than channels leave a channel that is free from the start.
LEMMA SomeIdle ==
  ASSUME IInv, InUse, pc = "place", Cardinality(DOMAIN placed) < request.channels
  PROVE  \E u \in Channels : channel_free_at[u] = 0
<1> DEFINE f == [p \in DOMAIN placed |-> placed[p].channel]
           used == {f[p] : p \in DOMAIN placed}
<1>1. IsFiniteSet(DOMAIN placed) /\ Cardinality(DOMAIN placed) \in Nat
  BY FS_CardinalityType DEF IInv, PlaceInv
<1>2. IsFiniteSet(used) /\ Cardinality(used) <= Cardinality(DOMAIN placed)
  BY <1>1, ValuesFinite
<1>3. request.channels \in Int /\ request.channels - 1 \in Int
  BY DEF IInv, TypeOK, Call
<1>4. Cardinality(Channels) = request.channels
  <2>1. PICK c : c = request.channels
    OBVIOUS
  <2>2. c \in Int /\ c - 1 \in Int /\ c > 0
    BY <1>1, <1>3, <2>1
  <2>3. Cardinality(0 .. (c - 1)) = IF 0 > c - 1 THEN 0 ELSE (c - 1) - 0 + 1
    BY ONLY <2>2, 0 \in Int, FS_Interval
  <2>4. Cardinality(0 .. (c - 1)) = c
    BY ONLY <2>2, <2>3
  <2> QED BY <2>1, <2>4 DEF Channels
<1>5. Cardinality(used) \in Nat
  BY <1>2, FS_CardinalityType
<1>6. IsFiniteSet(Channels)
  BY <1>3, FS_Interval DEF Channels
<1>7. ~(Channels \subseteq used)
  <2> SUFFICES ASSUME Channels \subseteq used PROVE FALSE
    OBVIOUS
  <2>1. Cardinality(Channels) <= Cardinality(used)
    BY <1>2, FS_Subset
  <2> HIDE DEF used
  <2> QED BY <1>1, <1>2, <1>3, <1>4, <1>5, <2>1
<1>8. PICK u \in Channels : u \notin used
  BY <1>7
<1>9. \A p \in DOMAIN placed : placed[p].channel # u
  BY <1>8
<1> QED BY <1>9 DEF InUse

\* A placed step keeps the times true.
LEMMA PlaceGreedy == ASSUME IInv, VerdictInv, GreedyInv, Place PROVE GreedyInv'
<1>1. /\ pc = "place" /\ channel_free_at \in [Channels -> Nat] /\ steps # <<>>
      /\ Channels \in SUBSET Int /\ IsFiniteSet(DOMAIN placed)
  BY DEF IInv, VerdictInv, Place, Channels, PlaceInv
<1>2. /\ request' = request /\ steps' = steps /\ ordered' = ordered /\ pc' = pc
      /\ Channels' = Channels
  BY DEF Place, steps, Channels
<1>3. /\ steps \in Seq(Step) /\ Timed(steps) /\ DistinctOrders(steps) /\ Closed(steps)
      /\ Topological(steps, TopologicalOrder(steps))
      /\ TopologicalOrder(steps) = ordered /\ Len(ordered) = Len(steps)
  BY <1>1, PlacingSorted DEF GreedyInv
<1>4. PICK n, dep_end, start, end \in Nat, o \in Orders(steps), c \in Channels :
        Placing(n, o, dep_end, c, start, end)
  BY PlaceFacts
<1>5. /\ n = Cardinality(DOMAIN placed) /\ n + 1 \in 1 .. Len(ordered)
      /\ o = ordered[n + 1] /\ o \notin DOMAIN placed
      /\ IsPick(channel_free_at, dep_end, c)
      /\ start = StartOn(channel_free_at, dep_end, c) /\ end = start + Seconds(o)
  BY <1>4 DEF Placing
<1>6. \A d \in Range(DependsOn(o)) : d \in DOMAIN placed
  BY <1>4 DEF Placing
<1>7. /\ dep_end \in DepEnds(o) /\ \A t \in DepEnds(o) : t <= dep_end
  BY <1>4 DEF Placing
<1>8. channel_free_at' = [channel_free_at EXCEPT ![c] = end]
  BY <1>4 DEF Placing
<1>9. /\ DOMAIN placed' = DOMAIN placed \cup {o}
      /\ placed'[o] = [channel |-> c, start |-> start, end |-> end]
      /\ \A p \in DOMAIN placed : placed'[p] = placed[p]
  BY <1>4, <1>5 DEF Placing
<1>10. \A p \in DOMAIN placed : placed[p].end \in Nat
  BY DEF IInv, TypeOK
<1>11. Seconds(o) \in Nat /\ Seconds(o) = StepAt(steps, o).estimated_seconds
  BY <1>3, LookupTyped DEF Seconds
\* the turn's dep_end is the forward pass's and the sweep's best start
<1>12. ASSUME NEW e, \A d \in DOMAIN placed : e[d] = placed[d].end
       PROVE  BestStart(StepAt(steps, o), e) = dep_end
  <2>1. {e[d] : d \in Range(StepAt(steps, o).depends_on)}
          = {placed[d].end : d \in Range(DependsOn(o))}
    BY <1>6, <1>12 DEF DependsOn
  <2>2. DepEnds(o) \in SUBSET Int
    BY <1>6, <1>10 DEF DepEnds
  <2>3. Max(DepEnds(o)) = dep_end
    BY ONLY <1>7, <2>2, MaxIs
  <2> QED BY <2>1, <2>3 DEF BestStart, MaxOf, DepEnds
<1>13. Timely'
  <2>1. /\ Spent(steps, DOMAIN placed) \in Nat
        /\ Spent(steps, DOMAIN placed') = Spent(steps, DOMAIN placed) + Seconds(o)
    <3>1. o \in Orders(steps) \ DOMAIN placed
      BY <1>5
    <3> QED BY ONLY <1>3, <1>9, <1>11, <3>1, SpentMore
  <2>2. start <= Spent(steps, DOMAIN placed)
    <3>1. \A p \in DOMAIN placed : placed[p].end <= Spent(steps, DOMAIN placed)
      BY DEF GreedyInv, Timely
    <3>2. dep_end <= Spent(steps, DOMAIN placed)
      BY <1>6, <1>7, <2>1, <3>1 DEF DepEnds
    <3>3. channel_free_at[c] <= Spent(steps, DOMAIN placed)
      BY <1>1, <2>1, <3>1 DEF GreedyInv, InUse
    <3> QED BY <1>5, <3>2, <3>3 DEF StartOn
  <2>3. ASSUME NEW p \in DOMAIN placed'
        PROVE  /\ placed'[p].end = placed'[p].start + Seconds(p)
               /\ placed'[p].end <= Spent(steps, DOMAIN placed')
    <3>1. CASE p = o
      BY <1>5, <1>9, <1>11, <2>1, <2>2, <3>1
    <3>2. CASE p # o
      <4>1. p \in DOMAIN placed /\ placed'[p] = placed[p]
        BY <1>9, <3>2
      <4>2. /\ placed[p].end = placed[p].start + Seconds(p)
            /\ placed[p].end <= Spent(steps, DOMAIN placed) /\ placed[p].end \in Nat
        BY <1>10, <4>1 DEF GreedyInv, Timely
      <4> QED BY <1>11, <2>1, <4>1, <4>2
    <3> QED BY <3>1, <3>2
  <2> QED BY <1>2, <2>3 DEF GreedyInv, Timely, Seconds
<1>14. InUse'
  <2>1. ASSUME NEW k \in Channels
        PROVE  \/ channel_free_at'[k] = 0
               \/ \E p \in DOMAIN placed' :
                    placed'[p].channel = k /\ placed'[p].end = channel_free_at'[k]
    <3>1. CASE k = c
      BY <1>1, <1>8, <1>9, <3>1
    <3>2. CASE k # c
      <4>1. channel_free_at'[k] = channel_free_at[k]
        BY <1>1, <1>8, <3>2
      <4> QED BY <1>1, <1>9, <4>1 DEF GreedyInv, InUse
    <3> QED BY <3>1, <3>2
  <2> QED BY <1>2, <2>1 DEF InUse
<1>15. Unhindered'
  <2> SUFFICES ASSUME request.channels >= Len(steps)
               PROVE  \A p \in DOMAIN placed' : placed'[p].end = EarliestEnd(steps)[p]
    BY <1>2 DEF Unhindered
  <2>1. \A p \in DOMAIN placed : placed[p].end = EarliestEnd(steps)[p]
    BY DEF GreedyInv, Unhindered
  <2>2. PICK u \in Channels : channel_free_at[u] = 0
    <3>1. n < request.channels
      <4>1. request.channels \in Int /\ Len(steps) \in Nat
        BY <1>3 DEF IInv, TypeOK, Call
      <4> QED BY <1>3, <1>5, <4>1
    <3> QED BY <1>1, <1>5, <3>1, SomeIdle DEF GreedyInv
  <2>3. start = dep_end
    BY <1>1, <1>5, <2>2, IdlePick
  <2>4. BestStart(StepAt(steps, o), EarliestEnd(steps)) = dep_end
    <3>1. PICK e : e = EarliestEnd(steps)
      OBVIOUS
    <3>2. \A d \in DOMAIN placed : e[d] = placed[d].end
      BY <2>1, <3>1
    <3> QED BY <1>12, <3>1, <3>2
  <2>5. EarliestEnd(steps)[o]
          = BestStart(StepAt(steps, o), EarliestEnd(steps)) + StepAt(steps, o).estimated_seconds
    BY ONLY <1>3, o \in Orders(steps), EndsCertified
  <2>6. placed'[o].end = EarliestEnd(steps)[o]
    BY <1>5, <1>9, <1>11, <2>3, <2>4, <2>5
  <2> QED BY <1>9, <2>1, <2>6
<1>16. InStep'
  <2>1. Cardinality(DOMAIN placed') = n + 1
    <3>1. Cardinality(DOMAIN placed \cup {o}) = Cardinality(DOMAIN placed) + 1
      BY ONLY <1>1, <1>5, FS_AddElement
    <3>2. DOMAIN placed' = DOMAIN placed \cup {o} /\ n = Cardinality(DOMAIN placed)
      BY ONLY <1>5, <1>9
    <3> QED BY ONLY <3>1, <3>2
  <2> SUFFICES ASSUME NEW v, Sweep(steps, request.channels, v)
               PROVE  Follows(v, n + 1)'
    BY <1>2, <2>1 DEF InStep
  <2>2. Follows(v, n)
    BY <1>1, <1>5 DEF GreedyInv, InStep
  <2> DEFINE at == v[n]
             to == v[n + 1]
  <2>3. /\ at.free = channel_free_at /\ DOMAIN at.end = DOMAIN placed
        /\ \A p \in DOMAIN placed : placed[p].end = at.end[p] /\ placed[p].end <= at.makespan
        /\ at.makespan \in Nat
        /\ at.makespan = 0 \/ \E p \in DOMAIN placed : placed[p].end = at.makespan
    BY <2>2 DEF Follows
  <2>4. to = Occupied(steps, at, o)
    <3>1. n + 1 \in 1 .. Len(TopologicalOrder(steps)) /\ (n + 1) - 1 = n
      BY <1>3, <1>5
    <3> QED BY <1>3, <1>5, <3>1 DEF Sweep
  <2> HIDE DEF at, to
  <2>5. BestStart(StepAt(steps, o), at.end) = dep_end
    BY <1>12, <2>3
  <2>6. ChannelFor(steps, at, o) = c
    <3>1. (CHOOSE k \in DOMAIN channel_free_at : IsPick(channel_free_at, dep_end, k)) = c
      BY ONLY <1>1, <1>5, dep_end \in Nat, c \in Channels, PickIsUnique
    <3> QED BY <2>3, <2>5, <3>1 DEF ChannelFor
  <2>7. EndFor(steps, at, o) = end
    BY <1>5, <1>11, <2>3, <2>5, <2>6 DEF EndFor
  <2>8. /\ to.free = [channel_free_at EXCEPT ![c] = end]
        /\ to.end = [p \in DOMAIN at.end \cup {o} |-> IF p = o THEN end ELSE at.end[p]]
        /\ to.makespan = IF end > at.makespan THEN end ELSE at.makespan
    BY <2>3, <2>4, <2>6, <2>7 DEF Occupied
  <2>9. /\ DOMAIN to.end = DOMAIN placed' /\ to.end[o] = end
        /\ \A p \in DOMAIN placed : to.end[p] = at.end[p]
    BY <1>5, <1>9, <2>3, <2>8
  <2>10. to.makespan \in Nat /\ at.makespan <= to.makespan /\ end <= to.makespan
    BY <2>3, <2>8
  <2>11. ASSUME NEW p \in DOMAIN placed'
         PROVE  placed'[p].end = to.end[p] /\ placed'[p].end <= to.makespan
    <3>1. CASE p = o
      BY <1>9, <2>9, <2>10, <3>1
    <3>2. CASE p # o
      <4>1. p \in DOMAIN placed /\ placed'[p] = placed[p]
        BY <1>9, <3>2
      <4>2. placed[p].end = at.end[p] /\ placed[p].end <= at.makespan /\ placed[p].end \in Nat
        BY <1>10, <2>3, <4>1
      <4> QED BY <2>3, <2>9, <2>10, <4>1, <4>2
    <3> QED BY <3>1, <3>2
  <2>12. to.makespan = 0 \/ \E p \in DOMAIN placed' : placed'[p].end = to.makespan
    <3>1. CASE end > at.makespan
      <4>1. o \in DOMAIN placed' /\ placed'[o].end = end
        BY <1>9
      <4> QED BY <2>8, <3>1, <4>1
    <3>2. CASE ~(end > at.makespan)
      <4>1. \A p \in DOMAIN placed : p \in DOMAIN placed' /\ placed'[p].end = placed[p].end
        BY <1>9
      <4> QED BY <2>3, <2>8, <3>2, <4>1
    <3> QED BY <3>1, <3>2
  <2>13. to.free = channel_free_at'
    BY <1>8, <2>8
  <2> QED BY <2>9, <2>10, <2>11, <2>12, <2>13 DEF Follows, to
<1>17. Finished'
  BY <1>1, <1>2 DEF Finished
<1> QED BY <1>13, <1>14, <1>15, <1>16, <1>17 DEF GreedyInv

\* Every step keeps them true.
LEMMA GreedyStep ==
  ASSUME IInv, VerdictInv, GreedyInv, [Next]_vars
  PROVE  GreedyInv'
<1> USE DEF GreedyInv
<1>1. CASE Pop
  BY <1>1, PopGreedy
<1>2. CASE SortEnd
  BY <1>2, SortEndGreedy
<1>3. CASE Place
  BY <1>3, PlaceGreedy
<1>4. CASE Reject \/ Empty \/ StartSort \/ Return \/ UNCHANGED vars
  <2>1. /\ request' = request /\ steps' = steps /\ ordered' = ordered /\ placed' = placed
        /\ Channels' = Channels
    BY <1>4 DEF Reject, Empty, StartSort, Return, vars, steps, Channels
  <2>2. \/ pc' \in {"error", "sort"}
        \/ pc = "call" /\ pc' = "done" /\ steps = <<>>
        \/ pc = "place" /\ pc' = "done" /\ PlacedAll /\ channel_free_at' = channel_free_at
        \/ pc' = pc /\ channel_free_at' = channel_free_at
    BY <1>4 DEF Reject, Empty, StartSort, Return, vars
  <2>3. Timely' /\ Unhindered'
    BY <2>1 DEF Timely, Unhindered, Seconds
  <2>4. InUse'
    BY <2>1, <2>2 DEF InUse
  <2>5. InStep'
    BY <2>1, <2>2 DEF InStep, Follows
  <2>6. Finished'
    <3>1. CASE pc = "call" /\ pc' = "done" /\ steps = <<>>
      BY <2>1, <3>1 DEF Finished, IInv
    <3>2. CASE pc = "place" /\ pc' = "done" /\ PlacedAll
      BY <2>1, <3>2 DEF Finished, VerdictInv, PlacedAll
    <3>3. CASE pc' = pc \/ pc' \in {"error", "sort"}
      BY <2>1, <3>3 DEF Finished, PlacedAll
    <3> QED BY <2>2, <3>1, <3>2, <3>3
  <2> QED BY <2>3, <2>4, <2>5, <2>6
<1> QED BY <1>1, <1>2, <1>3, <1>4 DEF Next

LEMMA GreedyInit == Init => GreedyInv
<1> SUFFICES ASSUME Init PROVE GreedyInv
  OBVIOUS
<1>1. pc = "call" /\ ordered = <<>> /\ DOMAIN placed = {}
  BY DEF Init, Nothing
<1>2. SortedByReady(steps, ordered)
  BY <1>1 DEF SortedByReady
<1> QED BY <1>1, <1>2 DEF GreedyInv, Timely, InUse, Unhindered, InStep, Finished

\* The sweep's loop, once through, has the cycle time of the schedule.
LEMMA SweepAgrees ==
  ASSUME IInv, VerdictInv, GreedyInv
  PROVE  AgreesWithSweepPass
<1> SUFFICES ASSUME pc = "done"
             PROVE  CycleTime = CycleTimeForChannels(steps, request.channels)
  BY DEF AgreesWithSweepPass
<1>1. CASE steps # <<>>
  <2>1. /\ TopologicalOrder(steps) = ordered /\ PlacedAll /\ ordered \in Seq(Orders(steps))
    <3>1. Finished /\ Timely
      BY DEF GreedyInv
    <3>2. TopologicalOrder(steps) = ordered
      BY ONLY IInv, VerdictInv, <1>1, <3>1, PlacingSorted, pc = "done"
    <3> QED BY <1>1, <3>1, <3>2 DEF Finished, IInv, TypeOK
  <2>2. PICK v : /\ Sweep(steps, request.channels, v)
                 /\ CycleTimeForChannels(steps, request.channels) = v[Len(ordered)].makespan
    <3>1. TopologicalOrder(steps) \in Seq(Orders(steps))
      BY <2>1
    <3>2. \E v : /\ Sweep(steps, request.channels, v)
                 /\ CycleTimeForChannels(steps, request.channels)
                      = v[Len(TopologicalOrder(steps))].makespan
      BY ONLY <3>1, SweepTrace
    <3> QED BY <2>1, <3>2
  <2>3. Follows(v, Len(ordered))
    BY <1>1, <2>1, <2>2 DEF GreedyInv, InStep, PlacedAll
  <2> DEFINE T == {placed[p].end : p \in DOMAIN placed}
             m == v[Len(ordered)].makespan
  <2>4. m \in {0} \cup T /\ m \in Nat /\ \A x \in {0} \cup T : x <= m
    BY <2>3 DEF Follows
  <2>5. {0} \cup T \in SUBSET Int
    BY DEF IInv, TypeOK
  <2> HIDE DEF m, T
  <2>6. Max({0} \cup T) = m
    BY ONLY <2>4, <2>5, MaxIs
  <2> QED BY <2>2, <2>6 DEF CycleTime, MaxOf, m, T
<1>2. CASE steps = <<>>
  <2>1. placed = Nothing
    BY <1>2 DEF GreedyInv, Finished
  <2>2. TopologicalOrder(steps) = <<>>
    <3>1. <<>> \in Seq({}) /\ Len(<<>>) = Len(steps) /\ SortedByReady(steps, <<>>) /\ steps \in Seq({})
      BY <1>2 DEF SortedByReady
    <3> QED BY ONLY <3>1, SortIsUnique
  <2>3. PICK v : /\ Sweep(steps, request.channels, v)
                 /\ CycleTimeForChannels(steps, request.channels) = v[0].makespan
    <3>1. TopologicalOrder(steps) \in Seq({}) /\ Len(TopologicalOrder(steps)) = 0
      BY <2>2
    <3>2. \E v : /\ Sweep(steps, request.channels, v)
                 /\ CycleTimeForChannels(steps, request.channels)
                      = v[Len(TopologicalOrder(steps))].makespan
      BY ONLY <3>1, SweepTrace
    <3> QED BY <3>1, <3>2
  <2>4. v[0].makespan = 0
    BY <2>3 DEF Sweep, Unused
  <2>5. {placed[p].end : p \in DOMAIN placed} = {}
    BY <2>1 DEF Nothing
  <2>6. Max({0}) = 0
    BY MaxIs
  <2> QED BY <2>3, <2>4, <2>5, <2>6 DEF CycleTime, MaxOf
<1> QED BY <1>1, <1>2

\* No schedule beats the critical path: step by step along the topological order it
\* ends no earlier than the forward pass has it.
LEMMA NoneBeatsThePath ==
  ASSUME IInv, VerdictInv, GreedyInv, pc = "done", steps # <<>>
  PROVE  /\ DOMAIN placed = Orders(steps) /\ DOMAIN EarliestEnd(steps) = Orders(steps)
         /\ \A o \in Orders(steps) : /\ EarliestEnd(steps)[o] \in Nat /\ placed[o].end \in Nat
                                     /\ EarliestEnd(steps)[o] <= placed[o].end
<1>1. /\ steps \in Seq(Step) /\ Timed(steps) /\ DistinctOrders(steps) /\ Closed(steps)
      /\ Topological(steps, TopologicalOrder(steps))
      /\ TopologicalOrder(steps) = ordered /\ Len(ordered) = Len(steps)
      /\ PlacedAll
  <2>1. Finished /\ Timely
    BY DEF GreedyInv
  <2>2. PlacedAll
    BY <2>1 DEF Finished
  <2> QED BY <2>1, <2>2, PlacingSorted
<1> DEFINE N == Len(ordered)
           E == EarliestEnd(steps)
<1>2. /\ N \in Nat /\ DOMAIN placed = {ordered[j] : j \in 1 .. N}
      /\ \A i \in 1 .. N : ordered[i] \in Orders(steps)
      /\ \A o \in Orders(steps) : \E i \in 1 .. N : ordered[i] = o
      /\ \A i \in 1 .. N : Deps(steps, ordered[i]) \subseteq {ordered[j] : j \in 1 .. (i - 1)}
  <2>1. ordered \in Seq(Orders(steps)) /\ DOMAIN placed = {ordered[j] : j \in 1 .. N}
    BY <1>1 DEF IInv, TypeOK, PlaceInv, PlacedAll
  <2>2. N \in Nat /\ \A i \in 1 .. N : ordered[i] \in Orders(steps)
    BY <2>1
  <2>3. /\ \A o \in Orders(steps) : \E i \in 1 .. N : ordered[i] = o
        /\ \A i \in 1 .. N : Deps(steps, ordered[i]) \subseteq {ordered[j] : j \in 1 .. (i - 1)}
    <3>1. Topological(steps, ordered)
      BY <1>1
    <3> QED BY ONLY <3>1 DEF Topological
  <2> QED BY <2>1, <2>2, <2>3
<1>3. DOMAIN placed = Orders(steps)
  BY <1>2
<1>4. PICK e : e = EarliestEnd(steps)
  OBVIOUS
<1>5. /\ DOMAIN e = Orders(steps)
      /\ \A o \in Orders(steps) :
           /\ e[o] \in Nat /\ BestStart(StepAt(steps, o), e) \in Nat
           /\ e[o] = BestStart(StepAt(steps, o), e) + StepAt(steps, o).estimated_seconds
  BY ONLY <1>1, <1>4, EndsCertified
<1>6. \A o \in Orders(steps) :
        /\ placed[o].start \in Nat /\ placed[o].end \in Nat
        /\ placed[o].end = placed[o].start + StepAt(steps, o).estimated_seconds
        /\ StepAt(steps, o).estimated_seconds \in Nat /\ StepAt(steps, o).depends_on \in Seq(Int)
        /\ Deps(steps, o) \subseteq Orders(steps)
        /\ \A d \in Deps(steps, o) : placed[d].end <= placed[o].start
  <2> SUFFICES ASSUME NEW o \in Orders(steps)
               PROVE  /\ placed[o].start \in Nat /\ placed[o].end \in Nat
                      /\ placed[o].end = placed[o].start + StepAt(steps, o).estimated_seconds
                      /\ StepAt(steps, o).estimated_seconds \in Nat
                      /\ StepAt(steps, o).depends_on \in Seq(Int)
                      /\ Deps(steps, o) \subseteq Orders(steps)
                      /\ \A d \in Deps(steps, o) : placed[d].end <= placed[o].start
    OBVIOUS
  <2>1. placed[o].start \in Nat /\ placed[o].end \in Nat
    BY <1>3 DEF IInv, TypeOK
  <2>2. placed[o].end = placed[o].start + StepAt(steps, o).estimated_seconds
    BY <1>3 DEF GreedyInv, Timely, Seconds
  <2>3. StepAt(steps, o).estimated_seconds \in Nat /\ StepAt(steps, o).depends_on \in Seq(Int)
    BY ONLY <1>1, o \in Orders(steps), LookupTyped
  <2>4. Deps(steps, o) \subseteq Orders(steps)
    BY ONLY <1>1, o \in Orders(steps), DepsAreOrders
  <2>5. \A d \in Deps(steps, o) : placed[d].end <= placed[o].start
    BY <1>3 DEF IInv, DependenciesHonoured, Deps, DependsOn
  <2> QED BY <2>1, <2>2, <2>3, <2>4, <2>5
<1> DEFINE Late(i) == e[ordered[i]] <= placed[ordered[i]].end
           Good == {n \in 0 .. N : \A i \in 1 .. n : Late(i)}
<1> HIDE DEF N
<1>7. 0 \in Good
  <2>1. 1 .. 0 = {} /\ 0 \in 0 .. N
    BY <1>2
  <2> QED BY <2>1
<1>8. \A n \in 0 .. (N - 1) : n \in Good => n + 1 \in Good
  <2> SUFFICES ASSUME NEW n \in 0 .. (N - 1), n \in Good PROVE n + 1 \in Good
    OBVIOUS
  <2>1. n \in Nat /\ n + 1 \in 1 .. N /\ n + 1 \in 0 .. N /\ (n + 1) - 1 = n
    BY <1>2
  <2> DEFINE o == ordered[n + 1]
             best == BestStart(StepAt(steps, o), e)
  <2>2. o \in Orders(steps)
    BY <1>2, <2>1
  <2>3. ASSUME NEW d \in Deps(steps, o)
        PROVE  e[d] <= placed[d].end /\ e[d] \in Nat /\ placed[d].end \in Nat
               /\ placed[d].end <= placed[o].start
    <3>1. PICK j \in 1 .. n : ordered[j] = d
      <4>1. Deps(steps, ordered[n + 1]) \subseteq {ordered[j] : j \in 1 .. n}
        BY <1>2, <2>1
      <4> QED BY <4>1
    <3>2. Late(j)
      OBVIOUS
    <3>3. d \in Orders(steps)
      BY <1>6, <2>2
    <3> QED BY <1>5, <1>6, <2>2, <3>1, <3>2, <3>3
  <2>4. best \in Nat /\ best <= placed[o].start
    <3>1. \A d \in Range(StepAt(steps, o).depends_on) : e[d] \in Nat
      BY <2>3 DEF Deps
    <3>2. StepAt(steps, o).depends_on \in Seq(Int)
      BY <1>6, <2>2
    <3>3. /\ best \in Nat
          /\ best = 0 \/ \E d \in Range(StepAt(steps, o).depends_on) : e[d] = best
      BY ONLY <3>1, <3>2, BestStartLatest
    <3>4. CASE best = 0
      <4>1. placed[o].start \in Nat
        BY <1>6, <2>2
      <4> QED BY <3>4, <4>1
    <3>5. CASE \E d \in Range(StepAt(steps, o).depends_on) : e[d] = best
      <4>1. PICK d \in Deps(steps, o) : e[d] = best
        BY <3>5 DEF Deps
      <4>2. placed[o].start \in Nat
        BY <1>6, <2>2
      <4> HIDE DEF best
      <4> QED BY <2>3, <3>3, <4>1, <4>2
    <3> QED BY <3>3, <3>4, <3>5
  <2>5. e[o] <= placed[o].end
    BY <1>5, <1>6, <2>2, <2>4
  <2>6. \A i \in 1 .. (n + 1) : i \in 1 .. n \/ i = n + 1
    BY <2>1
  <2>7. \A i \in 1 .. (n + 1) : Late(i)
    BY <2>5, <2>6
  <2> HIDE DEF Late
  <2> QED BY <2>1, <2>7
<1>9. N \in Good
  <2> HIDE DEF Good
  <2>1. \A n \in 0 .. N : n \in Good
    BY ONLY <1>2, <1>7, <1>8, UpFrom, 0 \in Nat
  <2> QED BY <1>2, <2>1
<1>10. \A o \in Orders(steps) : e[o] <= placed[o].end
  <2>1. \A i \in 1 .. N : Late(i)
    BY <1>9
  <2> QED BY <1>2, <2>1
<1> QED BY <1>3, <1>4, <1>5, <1>6, <1>10

\* The cycle time keeps to its bounds.
LEMMA WithinBounds ==
  ASSUME IInv, VerdictInv, GreedyInv
  PROVE  CycleTimeBounds
<1> SUFFICES ASSUME pc = "done"
             PROVE  /\ DOMAIN placed = Orders(steps)
                    /\ ComputeOptimization(steps).critical <= CycleTime
                    /\ CycleTime <= SequentialSeconds(steps)
                    /\ request.channels >= Len(steps) =>
                         CycleTime = ComputeOptimization(steps).critical
  BY DEF CycleTimeBounds
<1> DEFINE T == {placed[o].end : o \in DOMAIN placed}
<1>1. steps \in Seq(Step)
  BY DEF IInv, TypeOK, Call, steps
<1>2. IsFiniteSet(T) /\ T \in SUBSET Nat
  <2> DEFINE f == [o \in DOMAIN placed |-> placed[o].end]
  <2>1. IsFiniteSet(DOMAIN placed)
    BY DEF IInv, PlaceInv
  <2>2. IsFiniteSet({f[o] : o \in DOMAIN placed})
    BY <2>1, ValuesFinite
  <2>3. {f[o] : o \in DOMAIN placed} = T
    OBVIOUS
  <2> QED BY <2>2, <2>3 DEF IInv, TypeOK
<1>3. /\ CycleTime \in Nat /\ CycleTime \in T \cup {0} /\ \A x \in T : x <= CycleTime
  <2> HIDE DEF T
  <2>1. MaxOf(T) \in Nat /\ MaxOf(T) \in T \cup {0} /\ \A x \in T : x <= MaxOf(T)
    BY ONLY <1>2, MaxOfTimes
  <2>2. CycleTime = MaxOf(T)
    BY DEF CycleTime, T
  <2> QED BY <2>1, <2>2
<1>4. SequentialSeconds(steps) = Spent(steps, Orders(steps))
  BY ONLY <1>1, SpentOnAll
<1>5. CASE steps # <<>>
  <2> DEFINE end == EarliestEnd(steps)
             critical == MaxOf({end[p] : p \in DOMAIN end})
  <2>1. /\ DOMAIN placed = Orders(steps) /\ DOMAIN end = Orders(steps)
        /\ \A o \in Orders(steps) : end[o] \in Nat /\ placed[o].end \in Nat
                                    /\ end[o] <= placed[o].end
    BY <1>5, NoneBeatsThePath
  <2>2. ComputeOptimization(steps).critical = critical
    BY <1>5 DEF ComputeOptimization
  <2> HIDE DEF end, T
  <2> DEFINE U == {end[p] : p \in DOMAIN end}
  <2>3. IsFiniteSet(U) /\ U \in SUBSET Nat
    <3>1. IsFiniteSet(DOMAIN end)
      BY <2>1 DEF IInv, PlaceInv
    <3> QED BY <2>1, <3>1, ValuesFinite
  <2>4. critical \in Nat /\ critical \in U \cup {0} /\ \A x \in U : x <= critical
    BY ONLY <2>3, MaxOfTimes
  <2>5. critical <= CycleTime
    <3>1. CASE critical = 0
      BY <1>3, <3>1
    <3>2. CASE critical \in U
      <4>1. PICK o \in Orders(steps) : end[o] = critical
        BY <2>1, <3>2
      <4>2. placed[o].end \in T
        BY <2>1 DEF T
      <4>3. placed[o].end <= CycleTime /\ end[o] <= placed[o].end
        BY <1>3, <2>1, <4>2
      <4> HIDE DEF critical
      <4> QED BY <1>3, <2>1, <2>4, <4>1, <4>3
    <3> HIDE DEF critical, U
    <3> QED BY <2>4, <3>1, <3>2
  <2>6. CycleTime <= SequentialSeconds(steps)
    <3>1. PICK o \in Orders(steps) : TRUE
      <4>1. 1 \in DOMAIN steps
        BY <1>1, <1>5
      <4>2. steps[1].order \in Orders(steps)
        BY <4>1 DEF Orders, Range
      <4> QED BY <4>2
    <3>2. \A p \in Orders(steps) : placed[p].end <= SequentialSeconds(steps)
      BY <1>4, <2>1 DEF GreedyInv, Timely
    <3>3. SequentialSeconds(steps) \in Nat
      <4>1. Timed(steps) /\ DistinctOrders(steps)
        BY <1>5, DoneIsSorted DEF VerdictInv
      <4>2. Spent(steps, Orders(steps) \ {o}) \in Nat
            /\ Spent(steps, (Orders(steps) \ {o}) \cup {o})
                 = Spent(steps, Orders(steps) \ {o}) + StepAt(steps, o).estimated_seconds
        <5>1. o \in Orders(steps) \ (Orders(steps) \ {o})
          OBVIOUS
        <5> QED BY ONLY <1>1, <4>1, <5>1, SpentMore
      <4>3. (Orders(steps) \ {o}) \cup {o} = Orders(steps)
        OBVIOUS
      <4>4. StepAt(steps, o).estimated_seconds \in Nat
        BY ONLY <1>1, <4>1, o \in Orders(steps), LookupTyped
      <4>5. Spent(steps, Orders(steps))
              = Spent(steps, Orders(steps) \ {o}) + StepAt(steps, o).estimated_seconds
        BY ONLY <4>2, <4>3, Zenon
      <4> QED BY ONLY <1>4, <4>2, <4>4, <4>5
    <3>4. CASE CycleTime = 0
      BY <3>3, <3>4
    <3>5. CASE CycleTime \in T
      BY <2>1, <3>2, <3>5 DEF T
    <3> QED BY <1>3, <3>4, <3>5
  <2>7. ASSUME request.channels >= Len(steps)
        PROVE  CycleTime = critical
    <3>1. \A o \in Orders(steps) : placed[o].end = end[o]
      BY <2>1, <2>7 DEF GreedyInv, Unhindered, end
    <3>2. T = {end[p] : p \in DOMAIN end}
      BY <2>1, <3>1 DEF T
    <3> QED BY <3>2 DEF CycleTime, T
  <2> HIDE DEF critical
  <2> QED BY <2>1, <2>2, <2>5, <2>6, <2>7
<1>6. CASE steps = <<>>
  <2>1. placed = Nothing
    BY <1>6 DEF GreedyInv, Finished
  <2>2. T = {} /\ DOMAIN placed = {}
    BY <2>1 DEF Nothing
  <2>3. CycleTime = 0
    BY <1>3, <2>2
  <2>4. Orders(steps) = {}
    <3>1. DOMAIN <<>> = {}
      OBVIOUS
    <3> QED BY <1>6, <3>1 DEF Orders, Range
  <2>5. ComputeOptimization(steps).critical = 0
    BY <1>6 DEF ComputeOptimization
  <2>6. SequentialSeconds(steps) = 0
    <3>1. PICK s : Spends(steps, Orders(steps), s) /\ Spent(steps, Orders(steps)) = s[Len(steps)]
      BY ONLY <1>1, SpentSum
    <3>2. s[0] = 0 /\ Len(steps) = 0
      BY <1>6, <3>1 DEF Spends
    <3> QED BY <1>4, <3>1, <3>2
  <2> QED BY <2>2, <2>3, <2>4, <2>5, <2>6
<1> QED BY <1>5, <1>6

\* The schedule, the sweep's own loop and the critical path agree on the cycle time
\* of every program and every number of channels, within the bounds: never faster
\* than the critical path, never slower than one step after the other, and as fast as
\* the critical path with a channel per step.
THEOREM CycleTimesProved == Spec => []CycleTimesAgree
<1>1. Init => VerdictInv
  BY DEF Init, VerdictInv, RefusesExactlyTheImpossible
<1>2. IInv /\ VerdictInv /\ [Next]_vars => VerdictInv'
  BY VerdictStep
<1>3. IInv /\ VerdictInv /\ GreedyInv /\ [Next]_vars => GreedyInv'
  BY GreedyStep
<1>4. IInv /\ VerdictInv /\ GreedyInv => CycleTimesAgree
  BY SweepAgrees, WithinBounds DEF CycleTimesAgree
<1> QED BY <1>1, <1>2, <1>3, <1>4, GreedyInit, Invariance, PTL DEF Spec
=============================================================================
