------------------------- MODULE MCChannelScheduler -------------------------
(***************************************************************************)
(* Instances of ChannelScheduler: every dependency structure over three    *)
(* steps, well formed or not, and one known program for the sweep.         *)
(***************************************************************************)
EXTENDS ChannelScheduler, TLC

MCStep(order, seconds, depends_on) ==
  [order |-> order, step_type |-> "validation", ecu_id |-> "A",
   uds_service |-> NoService, estimated_seconds |-> seconds, depends_on |-> depends_on]

\* Contiguous, out of order, repeated and with a gap.
OrderLists == {<<1, 2, 3>>, <<3, 1, 2>>, <<1, 2, 1>>, <<1, 2, 4>>}
DurationLists == {<<1, 2, 3>>, <<2, 1, 2>>, <<0, 3, 1>>}
\* None, one, two, one twice, and (for some order lists) one that is missing.
DepLists == {<<>>, <<1>>, <<2>>, <<3>>, <<1, 2>>, <<2, 1>>, <<2, 2>>}

MCRequests ==
  {[steps |-> [i \in 1..3 |-> MCStep(o[i], t[i], d[i])], channels |-> n] :
     o \in OrderLists, t \in DurationLists, d \in [1..3 -> DepLists], n \in 0..3}
  \cup {[steps |-> <<>>, channels |-> n] : n \in 0..1}

\* Ten steps, four of them dependent.  Four channels reach the critical path
\* of 4; with a fifth the greedy order takes 6.
SweepDurations == <<3, 1, 1, 1, 2, 1, 1, 2, 1, 3>>
SweepDeps == [i \in 1..10 |-> IF i \in {6, 7, 9} THEN <<5>>
                              ELSE IF i = 10 THEN <<3>> ELSE <<>>]

SweepRequests ==
  {[steps |-> [i \in 1..10 |-> MCStep(i, SweepDurations[i], SweepDeps[i])],
    channels |-> n] : n \in 1..6}
=============================================================================
