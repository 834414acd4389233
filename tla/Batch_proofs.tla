------------------------------ MODULE Batch_proofs ------------------------------
(***************************************************************************)
(* For any number of fleets, vehicles, workers, connections and shutdowns: *)
(* what the server shares among its requests stays within its bounds, and  *)
(* the threads and their pool implement what module Fleets promises.       *)
(***************************************************************************)
EXTENDS Batch, FiniteSetTheorems, TLAPS

\* Where the handler of a fleet stands says how many vehicles it has, and what it
\* has collected are the results of its first vehicles, as they still are.
FleetFits(f) ==
  /\ phase[f] = "start" <=> size[f] = 0
  /\ phase[f] = "submit" => size[f] > 1 /\ pool[f] > 0
  /\ phase[f] # "start" => next[f] \in 1 .. size[f]
  /\ phase[f] \in {"start", "submit", "failed"} => results[f] = <<>>
  /\ phase[f] = "collect" => Len(results[f]) = next[f] - 1
  /\ phase[f] \in {"persist", "answered"} => Len(results[f]) = size[f]
  /\ \A i \in 1 .. Len(results[f]) :
       results[f][i] = <<<<f, i>>, stage[<<f, i>>]>> /\ stage[<<f, i>>] \in Made

\* No pipeline is begun for a vehicle that was not sent or not submitted yet.
VehiclesFit(f) ==
  \A i \in Nat : <<f, i>> \in Vehicles /\ stage[<<f, i>>] # "none" =>
    i <= size[f] /\ (phase[f] = "submit" => i < next[f])

FleetInv == \A f \in Fleet : FleetFits(f) /\ VehiclesFit(f)

\* What waits in a pool was submitted to it.
QueueInv ==
  \A p \in Executors : \A k \in 1 .. Len(queue[p]) : pool[queue[p][k][1]] = p

\* Every pool but the shared one was shut down, by a shutdown of the application;
\* each was made for a fleet, and works for no more vehicles than it has workers.
PoolInv ==
  /\ 1 .. pools \subseteq down \cup {executor}
  /\ down # {} \/ closing => shutdowns > 0
  /\ pools <= Cardinality({f \in Fleet : phase[f] # "start"})
  /\ \A f \in Fleet : phase[f] = "start" => pool[f] = 0
  /\ \A p \in Executors : IsFiniteSet(Working(p)) /\ Cardinality(Working(p)) <= MaxWorkers

\* Whoever holds a connection holds it of a client that was made.
HttpInv ==
  /\ Http!OneOpenClient
  /\ \A v \in Vehicles : http[v] \in {"post", "sent"} => handle[v] > 0
  /\ \A k \in 1 .. made : /\ IsFiniteSet(Http!Connected(k))
                          /\ Cardinality(Http!Connected(k)) <= MaxConnections

IInv == TypeOK /\ FleetInv /\ QueueInv /\ PoolInv /\ HttpInv

-----------------------------------------------------------------------------
(* Vehicles and finite sets *)

\* A vehicle is a fleet and a number.
LEMMA VehicleShape ==
  /\ \A v \in Vehicles : v[1] \in Fleet /\ v[2] \in Nat \ {0} /\ v = <<v[1], v[2]>>
  /\ \A f \in Fleet, n \in Sizes : \A i \in 1 .. n : <<f, i>> \in Vehicles
  BY BatchAssumption DEF Vehicles

\* One more member than fewer than n is at most n.
LEMMA OneMore ==
  ASSUME NEW n \in Nat, NEW A, IsFiniteSet(A), Cardinality(A) < n, NEW x,
         NEW B, B \subseteq A \cup {x}
  PROVE  IsFiniteSet(B) /\ Cardinality(B) <= n
<1>1. IsFiniteSet(A \cup {x}) /\ Cardinality(A) \in Nat /\ Cardinality(A \cup {x}) <= Cardinality(A) + 1
  BY FS_AddElement, FS_CardinalityType
<1>2. IsFiniteSet(B) /\ Cardinality(B) <= Cardinality(A \cup {x}) /\ Cardinality(B) \in Nat
      /\ Cardinality(A \cup {x}) \in Nat
  BY <1>1, FS_Subset, FS_CardinalityType
<1> QED BY <1>1, <1>2

LEMMA NoMore ==
  ASSUME NEW n \in Nat, NEW A, IsFiniteSet(A), Cardinality(A) <= n, NEW B, B \subseteq A
  PROVE  IsFiniteSet(B) /\ Cardinality(B) <= n
  BY FS_Subset, FS_CardinalityType

-----------------------------------------------------------------------------
(* The HTTP client *)

\* The instance counts as this module does.
LEMMA SameCardinality == \A S : Http!Cardinality(S) = Cardinality(S)
  BY DEF Http!Cardinality, Cardinality

\* A caller that does not hold a connection afterwards takes none from others.
LEMMA HttpLess ==
  ASSUME Http!TypeOK, HttpInv, NEW v \in Vehicles,
         NEW place \in {"idle", "check", "create", "return", "ok", "error"},
         Http!GoTo(v, place),
         \/ UNCHANGED handle
         \/ handle' = [handle EXCEPT ![v] = 0],
         UNCHANGED <<client, made, closed>>
  PROVE  Http!TypeOK' /\ HttpInv'
<1> USE DEF Http!TypeOK, Http!At, Http!GoTo, Http!None
<1>1. Http!TypeOK'
  OBVIOUS
<1>2. \A w \in Vehicles : http'[w] \in {"post", "sent"} => handle'[w] > 0
  BY DEF HttpInv
<1>3. \A k \in 1 .. made : Http!Connected(k)' \subseteq Http!Connected(k)
  BY DEF Http!Connected
<1>4. \A k \in 1 .. made : IsFiniteSet(Http!Connected(k)') /\ Cardinality(Http!Connected(k)') <= MaxConnections
  BY <1>3, NoMore, BatchAssumption DEF HttpInv
<1> QED BY <1>1, <1>2, <1>4 DEF HttpInv, Http!OneOpenClient

\* A call that is begun or given up, a step of the call, a client that is closed,
\* or nothing of the client at all.
LEMMA HttpCall ==
  ASSUME Http!TypeOK, HttpInv, NEW v \in Vehicles, Http!Call(v)
  PROVE  Http!TypeOK' /\ HttpInv'
<1> USE DEF Http!At, Http!None
<1>1. CASE Http!Check(v)
  <2>1. PICK place \in {"create", "return"} : Http!GoTo(v, place)
    BY <1>1 DEF Http!Check
  <2> QED BY <1>1, <2>1, HttpLess DEF Http!Check
<1>2. CASE Http!Create(v)
  <2>1. Http!TypeOK'
    BY <1>2 DEF Http!Create, Http!TypeOK, Http!GoTo
  <2>2. Http!OneOpenClient'
    BY <1>2 DEF Http!Create, Http!TypeOK, HttpInv, Http!OneOpenClient
  <2>3. \A w \in Vehicles : http'[w] \in {"post", "sent"} => handle'[w] > 0
    BY <1>2 DEF Http!Create, Http!TypeOK, HttpInv, Http!GoTo
  <2>4. ASSUME NEW k \in 1 .. made
        PROVE  IsFiniteSet(Http!Connected(k)') /\ Cardinality(Http!Connected(k)') <= MaxConnections
    <3>1. Http!Connected(k)' \subseteq Http!Connected(k)
      BY <1>2 DEF Http!Create, Http!TypeOK, Http!Connected, Http!GoTo
    <3> QED BY <3>1, NoMore, BatchAssumption DEF HttpInv
  <2>5. ASSUME NEW k \in 1 .. made', k \notin 1 .. made
        PROVE  IsFiniteSet(Http!Connected(k)') /\ Cardinality(Http!Connected(k)') <= MaxConnections
    <3>1. Http!Connected(k)' = {}
      BY <1>2, <2>5 DEF Http!Create, Http!TypeOK, Http!Connected, Http!GoTo
    <3> QED BY <3>1, FS_EmptySet, BatchAssumption
  <2> QED BY <2>1, <2>2, <2>3, <2>4, <2>5 DEF HttpInv
<1>3. CASE Http!Return(v)
  <2>1. Http!TypeOK'
    BY <1>3 DEF Http!Return, Http!TypeOK, Http!GoTo
  <2>2. Http!OneOpenClient'
    BY <1>3 DEF Http!Return, HttpInv, Http!OneOpenClient
  <2>3. \A w \in Vehicles : http'[w] \in {"post", "sent"} => handle'[w] > 0
    BY <1>3 DEF Http!Return, Http!TypeOK, HttpInv, Http!GoTo
  <2>4. ASSUME NEW k \in 1 .. made
        PROVE  IsFiniteSet(Http!Connected(k)') /\ Cardinality(Http!Connected(k)') <= MaxConnections
    <3>1. Http!Connected(k)' \subseteq Http!Connected(k)
      BY <1>3 DEF Http!Return, Http!TypeOK, Http!Connected, Http!GoTo
    <3> QED BY <3>1, NoMore, BatchAssumption DEF HttpInv
  <2> QED BY <1>3, <2>1, <2>2, <2>3, <2>4 DEF HttpInv, Http!Return
<1>4. CASE Http!Post(v)
  <2>1. CASE Http!Done(v, "error")
    <3>1. UNCHANGED <<client, made, closed>>
      BY <1>4 DEF Http!Post
    <3>2. Http!GoTo(v, "error") /\ handle' = [handle EXCEPT ![v] = 0]
      BY <2>1 DEF Http!Done
    <3> QED BY <3>1, <3>2, HttpLess, Zenon
  <2>2. CASE /\ handle[v] \notin closed
             /\ Cardinality(Http!Connected(handle[v])) < MaxConnections
             /\ Http!GoTo(v, "sent") /\ UNCHANGED handle
    <3>0. UNCHANGED <<client, made, closed, handle>>
      BY <1>4, <2>2 DEF Http!Post
    <3>1. Http!TypeOK'
      BY <2>2, <3>0 DEF Http!TypeOK, Http!GoTo
    <3>2. \A w \in Vehicles : http'[w] \in {"post", "sent"} => handle'[w] > 0
      BY <1>4, <2>2 DEF Http!Post, Http!TypeOK, HttpInv, Http!GoTo
    <3>3. ASSUME NEW k \in 1 .. made
          PROVE  IsFiniteSet(Http!Connected(k)') /\ Cardinality(Http!Connected(k)') <= MaxConnections
      <4>1. CASE k = handle[v]
        <5>1. Http!Connected(k)' \subseteq Http!Connected(k) \cup {v}
          BY <2>2, <3>0 DEF Http!TypeOK, Http!Connected, Http!GoTo
        <5> QED BY <2>2, <4>1, <5>1, OneMore, BatchAssumption DEF HttpInv
      <4>2. CASE k # handle[v]
        <5>1. Http!Connected(k)' \subseteq Http!Connected(k)
          BY <2>2, <3>0, <4>2 DEF Http!TypeOK, Http!Connected, Http!GoTo
        <5> QED BY <5>1, NoMore, BatchAssumption DEF HttpInv
      <4> QED BY <4>1, <4>2
    <3> QED BY <3>0, <3>1, <3>2, <3>3 DEF HttpInv, Http!OneOpenClient
  <2> QED BY <1>4, <2>1, <2>2, SameCardinality DEF Http!Post
<1>5. CASE Http!PoolTimeout(v)
  BY <1>5, HttpLess DEF Http!PoolTimeout, Http!Done
<1>6. CASE Http!Reply(v)
  <2>1. PICK outcome \in {"ok", "error"} : Http!Done(v, outcome)
    BY <1>6 DEF Http!Reply
  <2>2. Http!GoTo(v, outcome) /\ handle' = [handle EXCEPT ![v] = 0]
    BY <2>1 DEF Http!Done
  <2>3. UNCHANGED <<client, made, closed>>
    BY <1>6 DEF Http!Reply
  <2>4. outcome \in {"idle", "check", "create", "return", "ok", "error"}
    OBVIOUS
  <2> QED BY <2>2, <2>3, <2>4, HttpLess, Zenon
<1> QED BY <1>1, <1>2, <1>3, <1>4, <1>5, <1>6 DEF Http!Call

LEMMA HttpClosed ==
  ASSUME Http!TypeOK, HttpInv, CloseClient
  PROVE  Http!TypeOK' /\ HttpInv'
<1> USE DEF Http!None, Http!At
<1>1. /\ made' = made /\ http' = http /\ handle' = handle
      /\ \/ client' = client /\ closed' = closed
         \/ client # 0 /\ client' = 0 /\ closed' = closed \cup {client}
  BY DEF CloseClient, Http!Close
<1>2. Http!TypeOK'
  <2>1. made \in Nat /\ client \in 0 .. made /\ closed \subseteq 1 .. made /\ client \notin closed
    BY DEF Http!TypeOK
  <2>2. client' \in 0 .. made' /\ closed' \subseteq 1 .. made' /\ client' \notin closed'
    <3>1. CASE client' = client /\ closed' = closed
      BY <1>1, <2>1, <3>1
    <3>2. CASE client # 0 /\ client' = 0 /\ closed' = closed \cup {client}
      BY <1>1, <2>1, <3>2
    <3> QED BY <1>1, <3>1, <3>2
  <2> QED BY <1>1, <2>1, <2>2 DEF Http!TypeOK
<1>3. Http!OneOpenClient'
  BY <1>1 DEF HttpInv, Http!OneOpenClient
<1>4. \A k \in 1 .. made : Http!Connected(k)' = Http!Connected(k)
  BY <1>1 DEF Http!Connected
<1> QED BY <1>1, <1>2, <1>3, <1>4 DEF HttpInv

LEMMA HttpKept ==
  ASSUME IInv, [Next]_vars
  PROVE  Http!TypeOK' /\ HttpInv'
<1> USE DEF IInv, TypeOK
<1>1. CASE UNCHANGED <<client, made, closed, http, handle>>
  <2>1. \A k \in 1 .. made : Http!Connected(k)' = Http!Connected(k)
    BY <1>1 DEF Http!Connected, Http!At
  <2> QED BY <1>1, <2>1 DEF HttpInv, Http!TypeOK, Http!OneOpenClient
<1>2. ASSUME NEW v \in Vehicles, NEW place \in {"idle", "check"},
             Http!GoTo(v, place), UNCHANGED <<client, made, closed, handle>>
      PROVE  Http!TypeOK' /\ HttpInv'
  BY <1>2, HttpLess
<1>3. ASSUME NEW v \in Vehicles, Generate(v)
      PROVE  Http!TypeOK' /\ HttpInv'
  BY <1>2, <1>3, HttpCall DEF Generate, CallLlm, Finished, Repair, FallBack, Finish, Http!Begin
<1>4. ASSUME NEW f \in Fleet, Handle(f)
      PROVE  Http!TypeOK' /\ HttpInv'
  <2>1. CASE Direct(f)
    <3>1. <<f, 1>> \in Vehicles
      <4>1. 1 \in Sizes /\ 1 \in 1 .. 1
        BY <2>1 DEF Direct
      <4> QED BY <4>1, VehicleShape
    <3> QED BY <2>1, <3>1, <1>2 DEF Direct, Start, Http!Begin
  <2> QED BY <1>1, <1>4, <2>1 DEF Handle, GetExecutor, Submit, SubmitRefused, Collect,
             HandOut, CollectRaises, Persist
<1>5. ASSUME NEW p \in Executors, TakeNext(p)
      PROVE  Http!TypeOK' /\ HttpInv'
  <2>1. Head(queue[p]) \in Vehicles
    BY <1>5 DEF TakeNext
  <2> QED BY <1>1, <1>2, <1>5, <2>1 DEF TakeNext, Start, Http!Begin
<1> QED BY <1>1, <1>3, <1>4, <1>5, HttpClosed DEF Next, vars, ShutdownExecutor

-----------------------------------------------------------------------------
(* Types *)

\* Fleets that were sent are no more than there are, and one more than before
\* when another is sent.
LEMMA FleetsSent ==
  ASSUME PoolInv, TypeOK
  PROVE  /\ Cardinality(Fleet) \in Nat
         /\ pools <= Cardinality(Fleet)
         /\ \A f \in Fleet : phase[f] = "start" =>
              pools < Cardinality({g \in Fleet : phase[g] # "start"} \cup {f})
         /\ \A S \in SUBSET Fleet : Cardinality(S) <= Cardinality(Fleet) /\ Cardinality(S) \in Nat
<1>1. \A S \in SUBSET Fleet : /\ IsFiniteSet(S) /\ Cardinality(S) <= Cardinality(Fleet)
                              /\ Cardinality(S) \in Nat
  BY FS_Subset, FS_CardinalityType, BatchAssumption
<1> DEFINE Sent == {g \in Fleet : phase[g] # "start"}
<1>2. IsFiniteSet(Sent) /\ Cardinality(Sent) \in Nat /\ pools <= Cardinality(Sent) /\ pools \in Nat
  BY <1>1 DEF PoolInv, TypeOK
<1>3. ASSUME NEW f \in Fleet, phase[f] = "start"
      PROVE  pools < Cardinality(Sent \cup {f})
  <2>1. f \notin Sent
    BY <1>3
  <2>2. Cardinality(Sent \cup {f}) = Cardinality(Sent) + 1
    BY <1>2, <2>1, FS_AddElement
  <2> QED BY <1>2, <2>2
<1>4. Cardinality(Fleet) \in Nat /\ Cardinality(Sent) <= Cardinality(Fleet)
  BY <1>1, FS_CardinalityType, BatchAssumption
<1> QED BY <1>1, <1>2, <1>3, <1>4

\* A handler goes on to the next vehicle or to its next phase.
LEMMA Moved ==
  ASSUME TypeOK, NEW f \in Fleet,
         NEW place \in {"start", "submit", "collect", "persist", "answered", "failed"},
         \/ Enter(f, place)
         \/ next' = [next EXCEPT ![f] = @ + 1] /\ phase' = phase
  PROVE  /\ phase' \in [Fleet -> {"start", "submit", "collect", "persist", "answered", "failed"}]
         /\ next' \in [Fleet -> Nat]
<1>1. CASE Enter(f, place)
  BY <1>1 DEF Enter, TypeOK
<1>2. CASE next' = [next EXCEPT ![f] = @ + 1] /\ phase' = phase
  BY <1>2 DEF TypeOK
<1> QED BY <1>1, <1>2

LEMMA TypesKept ==
  ASSUME IInv, [Next]_vars
  PROVE  TypeOK'
<1>0. Http!TypeOK' /\ TypeOK /\ FleetInv /\ PoolInv
  BY HttpKept DEF IInv
<1> USE DEF TypeOK, poolVars, fleetVars, serverVars, Start
<1>1. ASSUME NEW f \in Fleet, Direct(f)
      PROVE  TypeOK'
  <2>1. /\ size' \in [Fleet -> Sizes \cup {0}]
        /\ stage' \in [Vehicles -> Ended \cup {"none", "queued", "cancelled", "running"}]
        /\ phase' \in [Fleet -> {"start", "submit", "collect", "persist", "answered", "failed"}]
        /\ next' \in [Fleet -> Nat]
    BY <1>0, <1>1 DEF Direct, Enter
  <2>2. UNCHANGED <<poolVars, queue, pool, results, rounds, rows, serverVars>>
    BY <1>1 DEF Direct, Enter
  <2> QED BY <1>0, <2>1, <2>2, Zenon
<1>2. ASSUME NEW f \in Fleet, GetExecutor(f)
      PROVE  TypeOK'
  <2>1. pools + 1 \in 0 .. Cardinality(Fleet)
    <3>1. phase[f] = "start" /\ pools \in Nat
      BY <1>0, <1>2 DEF GetExecutor, Enter
    <3>2. {g \in Fleet : phase[g] # "start"} \cup {f} \in SUBSET Fleet
      OBVIOUS
    <3>3. /\ pools < Cardinality({g \in Fleet : phase[g] # "start"} \cup {f})
          /\ Cardinality({g \in Fleet : phase[g] # "start"} \cup {f}) <= Cardinality(Fleet)
          /\ Cardinality({g \in Fleet : phase[g] # "start"} \cup {f}) \in Nat
          /\ Cardinality(Fleet) \in Nat
      BY <1>0, <3>1, <3>2, FleetsSent
    <3> QED BY <3>1, <3>3
  <2>2. /\ pools' \in 0 .. Cardinality(Fleet) /\ executor' \in 0 .. pools'
        /\ down \subseteq 1 .. pools' /\ pool' \in [Fleet -> 0 .. pools']
        /\ size' \in [Fleet -> Sizes \cup {0}]
        /\ phase' \in [Fleet -> {"start", "submit", "collect", "persist", "answered", "failed"}]
        /\ next' \in [Fleet -> Nat]
    BY <1>0, <1>2, <2>1 DEF GetExecutor, Enter
  <2>3. UNCHANGED <<down, queue, results, stage, rounds, rows, serverVars>>
    BY <1>2 DEF GetExecutor, Enter
  <2> QED BY <1>0, <2>2, <2>3, Zenon
<1>3. ASSUME NEW f \in Fleet, Submit(f)
      PROVE  TypeOK'
  <2>0. \/ Enter(f, "collect")
        \/ next' = [next EXCEPT ![f] = @ + 1] /\ phase' = phase
    BY <1>3, Zenon DEF Submit
  <2>1. pool[f] \in Executors /\ <<f, next[f]>> \in Vehicles
    <3>1. size[f] > 1 /\ next[f] \in 1 .. size[f] /\ pool[f] > 0
      BY <1>0, <1>3 DEF Submit, FleetInv, FleetFits
    <3>2. size[f] \in Sizes
      BY <1>0, <3>1
    <3>3. pool[f] \in 1 .. Cardinality(Fleet)
      BY <1>0, <3>1, FleetsSent, SMTT(30)
    <3> QED BY <3>1, <3>2, <3>3, VehicleShape DEF Executors
  <2>2. queue' \in [Executors -> Seq(Vehicles)]
    BY <1>0, <1>3, <2>1 DEF Submit
  <2>3. stage' \in [Vehicles -> Ended \cup {"none", "queued", "cancelled", "running"}]
    BY <1>0, <1>3 DEF Submit
  <2>4. phase' \in [Fleet -> {"start", "submit", "collect", "persist", "answered", "failed"}] /\ next' \in [Fleet -> Nat]
    BY <1>0, <1>3, <2>0, Moved
  <2>5. UNCHANGED <<poolVars, size, pool, results, rounds, rows, serverVars>>
    BY <1>3 DEF Submit
  <2> QED BY <1>0, <2>2, <2>3, <2>4, <2>5, Zenon
<1>4. ASSUME NEW f \in Fleet, SubmitRefused(f)
      PROVE  TypeOK'
  <2>1. /\ phase' \in [Fleet -> {"start", "submit", "collect", "persist", "answered", "failed"}]
        /\ next' \in [Fleet -> Nat]
    BY <1>0, <1>4 DEF SubmitRefused, Enter
  <2>2. UNCHANGED <<poolVars, queue, size, pool, results, stage, rounds, rows, serverVars>>
    BY <1>4 DEF SubmitRefused, Enter
  <2> QED BY <1>0, <2>1, <2>2, Zenon
<1>5. ASSUME NEW f \in Fleet, Collect(f)
      PROVE  TypeOK'
  <2>0. \/ Enter(f, "persist")
        \/ next' = [next EXCEPT ![f] = @ + 1] /\ phase' = phase
    BY <1>5, Zenon DEF Collect, HandOut
  <2>1. <<f, next[f]>> \in Vehicles
    <3>1. size[f] # 0 /\ next[f] \in 1 .. size[f]
      BY <1>0, <1>5 DEF Collect, FleetInv, FleetFits
    <3>2. size[f] \in Sizes
      BY <1>0, <3>1
    <3> QED BY <3>1, <3>2, VehicleShape
  <2>2. <<<<f, next[f]>>, stage[<<f, next[f]>>]>> \in Vehicles \X Made
    BY <1>5, <2>1 DEF Collect
  <2>3. results' \in [Fleet -> Seq(Vehicles \X Made)]
    BY <1>0, <1>5, <2>2 DEF Collect, HandOut
  <2>4. phase' \in [Fleet -> {"start", "submit", "collect", "persist", "answered", "failed"}] /\ next' \in [Fleet -> Nat]
    BY <1>0, <1>5, <2>0, Moved
  <2>5. UNCHANGED <<poolVars, queue, size, pool, stage, rounds, rows, serverVars>>
    BY <1>5 DEF Collect, HandOut
  <2> QED BY <1>0, <2>3, <2>4, <2>5, Zenon
<1>6. ASSUME NEW f \in Fleet, CollectRaises(f)
      PROVE  TypeOK'
  <2>1. /\ phase' \in [Fleet -> {"start", "submit", "collect", "persist", "answered", "failed"}]
        /\ next' \in [Fleet -> Nat]
        /\ results' \in [Fleet -> Seq(Vehicles \X Made)]
        /\ stage' \in [Vehicles -> Ended \cup {"none", "queued", "cancelled", "running"}]
    BY <1>0, <1>6 DEF CollectRaises, Enter
  <2>2. UNCHANGED <<poolVars, queue, size, pool, rounds, rows, serverVars>>
    BY <1>6 DEF CollectRaises, Enter
  <2> QED BY <1>0, <2>1, <2>2, Zenon
<1>7. ASSUME NEW f \in Fleet, Persist(f)
      PROVE  TypeOK'
  <2>0. \/ Enter(f, "answered")
        \/ next' = [next EXCEPT ![f] = @ + 1] /\ phase' = phase
    BY <1>7, Zenon DEF Persist
  <2>1. results[f][next[f]] \in Vehicles \X Made
    BY <1>0, <1>7 DEF Persist, FleetInv, FleetFits
  <2>2. rows' \subseteq Vehicles \X Made
    BY <1>0, <1>7, <2>1 DEF Persist
  <2>4. phase' \in [Fleet -> {"start", "submit", "collect", "persist", "answered", "failed"}] /\ next' \in [Fleet -> Nat]
    BY <1>0, <1>7, <2>0, Moved
  <2>3. UNCHANGED <<poolVars, queue, size, pool, results, stage, rounds, serverVars>>
    BY <1>7 DEF Persist
  <2> QED BY <1>0, <2>2, <2>3, <2>4, Zenon
<1>8. ASSUME NEW p \in Executors, TakeNext(p)
      PROVE  TypeOK'
  <2>1. Head(queue[p]) \in Vehicles /\ queue' \in [Executors -> Seq(Vehicles)]
    BY <1>0, <1>8 DEF TakeNext
  <2>2. stage' \in [Vehicles -> Ended \cup {"none", "queued", "cancelled", "running"}]
    BY <1>0, <1>8, <2>1 DEF TakeNext
  <2>3. UNCHANGED <<poolVars, fleetVars, rounds, rows, serverVars>>
    BY <1>8 DEF TakeNext
  <2> QED BY <1>0, <2>1, <2>2, <2>3, Zenon
<1>9. ASSUME NEW v \in Vehicles, Generate(v)
      PROVE  TypeOK'
  <2>1. UNCHANGED <<poolVars, queue, fleetVars, rows, serverVars>>
    BY <1>9 DEF Generate, CallLlm, Finished, Repair, FallBack, Finish
  <2>2. /\ stage' \in [Vehicles -> Ended \cup {"none", "queued", "cancelled", "running"}]
        /\ rounds' \in [Vehicles -> 0 .. MaxRepairAttempts]
    <3>1. CASE CallLlm(v)
      BY <1>0, <3>1 DEF CallLlm
    <3>2. CASE Repair(v)
      BY <1>0, <3>2, BatchAssumption DEF Repair
    <3>3. ASSUME NEW by \in Made, Finish(v, by)
          PROVE  /\ stage' \in [Vehicles -> Ended \cup {"none", "queued", "cancelled", "running"}]
                 /\ rounds' \in [Vehicles -> 0 .. MaxRepairAttempts]
      <4>1. stage' \in [Vehicles -> Ended \cup {"none", "queued", "cancelled", "running"}]
        BY <1>0, <3>3 DEF Finish, Ended, Made
      <4>2. rounds' \in [Vehicles -> 0 .. MaxRepairAttempts]
        BY <1>0, <3>3, BatchAssumption DEF Finish
      <4> QED BY <4>1, <4>2
    <3> QED BY <1>9, <3>1, <3>2, <3>3 DEF Generate, Finished, FallBack, Made
  <2> QED BY <1>0, <2>1, <2>2, Zenon
<1>10. CASE CloseClient
  <2>1. closing' \in BOOLEAN /\ shutdowns' \in 0 .. MaxShutdowns
    BY <1>0, <1>10, BatchAssumption DEF CloseClient
  <2>2. UNCHANGED <<poolVars, queue, fleetVars, stage, rounds, rows>>
    BY <1>10 DEF CloseClient
  <2> QED BY <1>0, <2>1, <2>2, Zenon
<1>11. CASE ShutdownExecutor
  <2>1. /\ executor' \in 0 .. pools /\ down' \subseteq 1 .. pools
        /\ closing' \in BOOLEAN
    <3>1. executor \in 0 .. pools /\ down \subseteq 1 .. pools /\ pools \in Nat
      BY <1>0
    <3>2. executor' = 0 /\ closing' = FALSE
          /\ down' = (IF executor = 0 THEN down ELSE down \cup {executor})
      BY <1>11 DEF ShutdownExecutor
    <3>3. CASE executor = 0
      BY <3>1, <3>2, <3>3
    <3>4. CASE executor # 0
      <4>1. executor \in 1 .. pools /\ 0 \in 0 .. pools
        BY <3>1, <3>4
      <4> QED BY <3>1, <3>2, <3>4, <4>1, Zenon
    <3> QED BY <3>3, <3>4
  <2>2. UNCHANGED <<pools, queue, fleetVars, stage, rounds, rows, shutdowns>>
    BY <1>11 DEF ShutdownExecutor
  <2> QED BY <1>0, <2>1, <2>2, Zenon
<1>12. CASE UNCHANGED vars
  <2>1. UNCHANGED <<poolVars, queue, fleetVars, stage, rounds, rows, serverVars>>
    BY <1>12 DEF vars
  <2> QED BY <1>0, <2>1, Zenon
<1> QED BY <1>1, <1>2, <1>3, <1>4, <1>5, <1>6, <1>7, <1>8, <1>9, <1>10, <1>11, <1>12 DEF Next, Handle

-----------------------------------------------------------------------------
(* Fleets *)

\* A step that another fleet's handler takes, or that only moves vehicles along
\* which nobody has collected yet.
Untouched(f) ==
  /\ size'[f] = size[f] /\ phase'[f] = phase[f] /\ pool'[f] = pool[f]
  /\ next'[f] = next[f] /\ results'[f] = results[f]
  /\ \A i \in Nat : <<f, i>> \in Vehicles /\ stage[<<f, i>>] \in Made \cup {"none"} =>
       stage'[<<f, i>>] = stage[<<f, i>>]

\* What a fleet has collected are vehicles of its own.
LEMMA Collected ==
  ASSUME TypeOK, NEW f \in Fleet, FleetFits(f)
  PROVE  /\ size[f] \in Nat /\ Len(results[f]) \in Nat /\ Len(results[f]) <= size[f]
         /\ \A i \in 1 .. size[f] : <<f, i>> \in Vehicles /\ i \in Nat
         /\ phase[f] # "start" => size[f] \in Sizes /\ size[f] \in Nat \ {0}
<1>0. /\ size[f] \in Sizes \cup {0}
      /\ results[f] \in Seq(Vehicles \X Made)
      /\ phase[f] \in {"start", "submit", "collect", "persist", "answered", "failed"}
  BY DEF TypeOK
<1>1. size[f] \in Nat /\ (size[f] # 0 => size[f] \in Sizes)
  <2>1. Sizes \subseteq Nat
    BY BatchAssumption
  <2>2. CASE size[f] \in Sizes
    BY <2>1, <2>2
  <2>3. CASE size[f] = 0
    BY <2>3
  <2> QED BY <1>0, <2>2, <2>3
<1>2. Len(results[f]) \in Nat /\ Len(results[f]) <= size[f]
  <2>0. Len(results[f]) \in Nat
    BY <1>0
  <2>1. CASE phase[f] \in {"start", "submit", "failed"}
    <3>1. results[f] = <<>>
      BY <2>1 DEF FleetFits
    <3> QED BY <1>1, <3>1
  <2>2. CASE phase[f] = "collect"
    <3>1. Len(results[f]) = next[f] - 1 /\ next[f] \in 1 .. size[f]
      BY <2>2 DEF FleetFits
    <3> QED BY <1>1, <2>0, <3>1
  <2>3. CASE phase[f] \in {"persist", "answered"}
    <3>1. Len(results[f]) = size[f]
      BY <2>3 DEF FleetFits
    <3> QED BY <1>1, <3>1
  <2> QED BY <1>0, <2>1, <2>2, <2>3
<1>3. \A i \in 1 .. size[f] : <<f, i>> \in Vehicles /\ i \in Nat
  BY <1>1, VehicleShape
<1> QED BY <1>1, <1>2, <1>3 DEF FleetFits

LEMMA FleetFrame ==
  ASSUME TypeOK, NEW f \in Fleet, FleetFits(f), VehiclesFit(f), Untouched(f),
         stage' \in [Vehicles -> Ended \cup {"none", "queued", "cancelled", "running"}]
  PROVE  FleetFits(f)' /\ VehiclesFit(f)'
<1>1. \A i \in 1 .. Len(results[f]) : <<f, i>> \in Vehicles /\ i \in Nat
  <2>1. /\ size[f] \in Nat /\ Len(results[f]) \in Nat /\ Len(results[f]) <= size[f]
        /\ \A i \in 1 .. size[f] : <<f, i>> \in Vehicles /\ i \in Nat
    BY Collected
  <2> QED BY <2>1
<1>2. \A i \in 1 .. Len(results[f]) : stage'[<<f, i>>] = stage[<<f, i>>]
  BY <1>1 DEF Untouched, FleetFits
<1>3. FleetFits(f)'
  BY <1>2, Zenon DEF FleetFits, Untouched
<1>4. VehiclesFit(f)'
  BY DEF VehiclesFit, Untouched
<1> QED BY <1>3, <1>4

\* A handler's step is no step of another fleet.
LEMMA OtherFleets ==
  ASSUME TypeOK, NEW f \in Fleet, Handle(f), NEW g \in Fleet, g # f
  PROVE  Untouched(g)
<1> USE DEF TypeOK, Untouched, poolVars, fleetVars, Enter
<1>1. CASE Direct(f)
  BY <1>1 DEF Direct, Start
<1>2. CASE GetExecutor(f)
  BY <1>2 DEF GetExecutor
<1>3. CASE Submit(f)
  BY <1>3 DEF Submit
<1>4. CASE SubmitRefused(f)
  BY <1>4 DEF SubmitRefused
<1>5. CASE Collect(f)
  BY <1>5 DEF Collect, HandOut
<1>6. CASE CollectRaises(f)
  BY <1>6, Zenon DEF CollectRaises
<1>7. CASE Persist(f)
  BY <1>7 DEF Persist
<1> QED BY <1>1, <1>2, <1>3, <1>4, <1>5, <1>6, <1>7 DEF Handle

\* No other step touches what the handlers rely on.
LEMMA NoFleet ==
  ASSUME IInv, NEW g \in Fleet,
         \/ \E p \in Executors : TakeNext(p)
         \/ \E v \in Vehicles : Generate(v)
         \/ CloseClient \/ ShutdownExecutor \/ UNCHANGED vars
  PROVE  Untouched(g)
<1> USE DEF IInv, TypeOK, Untouched, poolVars, fleetVars
<1>1. ASSUME NEW p \in Executors, TakeNext(p)
      PROVE  Untouched(g)
  BY <1>1 DEF TakeNext, Start, Made
<1>2. ASSUME NEW v \in Vehicles, Generate(v)
      PROVE  Untouched(g)
  BY <1>2 DEF Generate, CallLlm, Finished, Repair, FallBack, Finish, Made
<1>3. CASE CloseClient \/ ShutdownExecutor \/ UNCHANGED vars
  BY <1>3 DEF CloseClient, ShutdownExecutor, vars
<1> QED BY <1>1, <1>2, <1>3

\* The handler's own fleet, phase by phase.
LEMMA OwnFleet ==
  ASSUME IInv, NEW f \in Fleet, Handle(f), TypeOK'
  PROVE  FleetFits(f)' /\ VehiclesFit(f)'
<1>0. /\ TypeOK /\ FleetFits(f) /\ VehiclesFit(f)
      /\ size[f] \in Nat /\ next[f] \in Nat
      /\ \A i \in 1 .. size[f] : <<f, i>> \in Vehicles /\ i \in Nat
  BY Collected DEF IInv, FleetInv, TypeOK
<1>1. CASE Direct(f)
  <2>1. /\ phase'[f] = "collect" /\ size'[f] = 1 /\ next'[f] = 1 /\ results'[f] = <<>>
    BY <1>0, <1>1 DEF Direct, Enter, TypeOK, FleetFits
  <2>2. \A i \in Nat : <<f, i>> \in Vehicles /\ i # 1 => stage'[<<f, i>>] = "none"
    <3>1. ASSUME NEW i \in Nat, <<f, i>> \in Vehicles, i # 1
          PROVE  stage'[<<f, i>>] = "none"
      <4>1. stage[<<f, i>>] = "none"
        BY <1>0, <1>1, <3>1, VehicleShape DEF Direct, FleetFits, VehiclesFit
      <4> QED BY <1>0, <1>1, <3>1, <4>1 DEF Direct, Start, TypeOK
    <3> QED BY <3>1
  <2> QED BY <2>1, <2>2 DEF FleetFits, VehiclesFit
<1>2. CASE GetExecutor(f)
  <2>0. PICK n \in Sizes \ {1} : size' = [size EXCEPT ![f] = n]
    BY <1>2 DEF GetExecutor
  <2>1. /\ phase[f] = "start" /\ phase'[f] = "submit" /\ next'[f] = 1 /\ results'[f] = <<>>
        /\ size'[f] \in Sizes \ {1} /\ pool'[f] = executor'
        /\ stage' = stage
    BY <1>0, <1>2, <2>0 DEF GetExecutor, Enter, TypeOK, FleetFits
  <2>2. size'[f] > 1 /\ size'[f] \in Nat
    <3>1. size'[f] \in Nat \ {0} /\ size'[f] # 1
      BY <2>1, BatchAssumption
    <3> QED BY <3>1
  <2>3. executor' > 0
    BY <1>0, <1>2 DEF GetExecutor, TypeOK
  <2>4. \A i \in Nat : <<f, i>> \in Vehicles => stage[<<f, i>>] = "none"
    BY <1>0, <2>1, VehicleShape DEF FleetFits, VehiclesFit
  <2>5. FleetFits(f)'
    BY <2>1, <2>2, <2>3 DEF FleetFits
  <2>6. VehiclesFit(f)'
    BY <2>1, <2>4 DEF VehiclesFit
  <2> QED BY <2>5, <2>6
<1>3. CASE Submit(f)
  <2>1. /\ phase[f] = "submit" /\ size[f] > 1 /\ next[f] \in 1 .. size[f]
        /\ size'[f] = size[f] /\ pool'[f] = pool[f] /\ pool[f] > 0
        /\ results[f] = <<>> /\ results'[f] = <<>>
    BY <1>0, <1>3 DEF Submit, FleetFits, poolVars
  <2>2. \A i \in Nat : <<f, i>> \in Vehicles /\ i # next[f] => stage'[<<f, i>>] = stage[<<f, i>>]
    BY <1>0, <1>3 DEF Submit, TypeOK
  <2>3. CASE next[f] = size[f]
    <3>1. phase'[f] = "collect" /\ next'[f] = 1
      BY <1>0, <1>3, <2>3 DEF Submit, Enter, TypeOK
    <3>2. FleetFits(f)'
      BY <1>0, <2>1, <3>1 DEF FleetFits
    <3>3. VehiclesFit(f)'
      BY <1>0, <2>1, <2>2, <3>1 DEF VehiclesFit
    <3> QED BY <3>2, <3>3
  <2>4. CASE next[f] # size[f]
    <3>1. phase'[f] = "submit" /\ next'[f] = next[f] + 1
      BY <1>0, <1>3, <2>1, <2>4 DEF Submit, TypeOK
    <3>2. FleetFits(f)'
      BY <1>0, <2>1, <2>4, <3>1 DEF FleetFits
    <3>3. VehiclesFit(f)'
      BY <1>0, <2>1, <2>2, <3>1 DEF VehiclesFit
    <3> QED BY <3>2, <3>3
  <2> QED BY <2>3, <2>4
<1>4. CASE SubmitRefused(f)
  <2>1. /\ phase[f] = "submit" /\ phase'[f] = "failed" /\ next'[f] = 1
        /\ size'[f] = size[f] /\ results'[f] = results[f] /\ stage' = stage
    BY <1>0, <1>4 DEF SubmitRefused, Enter, TypeOK
  <2>2. FleetFits(f)'
    BY <1>0, <2>1 DEF FleetFits
  <2>3. VehiclesFit(f)'
    BY <1>0, <2>1 DEF VehiclesFit
  <2> QED BY <2>2, <2>3
<1>6. CASE CollectRaises(f)
  <2>1. /\ phase[f] = "collect" /\ phase'[f] = "failed" /\ next'[f] = 1
        /\ size'[f] = size[f] /\ results'[f] = <<>>
    BY <1>0, <1>6 DEF CollectRaises, Enter, TypeOK
  <2>2. \A i \in Nat : <<f, i>> \in Vehicles /\ stage'[<<f, i>>] # "none" => stage[<<f, i>>] # "none"
    BY <1>6 DEF CollectRaises
  <2>3. FleetFits(f)'
    BY <1>0, <2>1 DEF FleetFits
  <2>4. VehiclesFit(f)'
    BY <1>0, <2>1, <2>2 DEF VehiclesFit
  <2> QED BY <2>3, <2>4
<1>7. CASE Persist(f)
  <2>1. /\ phase[f] = "persist" /\ size'[f] = size[f] /\ results'[f] = results[f]
        /\ pool'[f] = pool[f] /\ stage' = stage
    BY <1>7 DEF Persist, poolVars
  <2>2. \/ next[f] = size[f] /\ phase'[f] = "answered" /\ next'[f] = 1
        \/ next[f] # size[f] /\ phase'[f] = "persist" /\ next'[f] = next[f] + 1
    BY <1>0, <1>7 DEF Persist, Enter, TypeOK
  <2>3. FleetFits(f)'
    BY <1>0, <2>1, <2>2 DEF FleetFits
  <2>4. VehiclesFit(f)'
    BY <1>0, <2>1, <2>2 DEF VehiclesFit
  <2> QED BY <2>3, <2>4
<1>5. CASE Collect(f)
  <2>1. /\ phase[f] = "collect" /\ size'[f] = size[f] /\ stage' = stage
        /\ next[f] \in 1 .. size[f] /\ Len(results[f]) = next[f] - 1
        /\ results[f] \in Seq(Vehicles \X Made)
        /\ results'[f] = Append(results[f], <<<<f, next[f]>>, stage[<<f, next[f]>>]>>)
        /\ stage[<<f, next[f]>>] \in Made
    BY <1>0, <1>5 DEF Collect, HandOut, FleetFits, TypeOK
  <2>2. /\ Len(results'[f]) = next[f]
        /\ \A i \in 1 .. next[f] :
             results'[f][i] = <<<<f, i>>, stage[<<f, i>>]>> /\ stage[<<f, i>>] \in Made
    <3>1. Len(results'[f]) = next[f] /\ results'[f][next[f]] = <<<<f, next[f]>>, stage[<<f, next[f]>>]>>
      BY <1>0, <2>1
    <3>2. ASSUME NEW i \in 1 .. next[f], i # next[f]
          PROVE  i \in 1 .. Len(results[f]) /\ results'[f][i] = results[f][i]
      BY <1>0, <2>1, <3>2
    <3>3. ASSUME NEW i \in 1 .. next[f], i # next[f]
          PROVE  results'[f][i] = <<<<f, i>>, stage[<<f, i>>]>> /\ stage[<<f, i>>] \in Made
      BY <1>0, <3>2, <3>3 DEF FleetFits
    <3> QED BY <2>1, <3>1, <3>3
  <2>3. \/ next[f] = size[f] /\ phase'[f] = "persist" /\ next'[f] = 1
        \/ next[f] # size[f] /\ phase'[f] = "collect" /\ next'[f] = next[f] + 1
    <3>1. Len(results[f]) + 1 = size[f] <=> next[f] = size[f]
      BY <1>0, <2>1
    <3>2. CASE next[f] = size[f]
      BY <1>0, <1>5, <3>1, <3>2 DEF Collect, HandOut, Enter, TypeOK
    <3>3. CASE next[f] # size[f]
      BY <1>0, <1>5, <3>1, <3>3 DEF Collect, HandOut, TypeOK
    <3> QED BY <3>2, <3>3
  <2>4. FleetFits(f)'
    <3>1. size'[f] # 0 /\ next'[f] \in 1 .. size'[f]
      BY <1>0, <2>1, <2>3
    <3>2. /\ phase'[f] = "collect" => Len(results'[f]) = next'[f] - 1
          /\ phase'[f] = "persist" => Len(results'[f]) = size'[f]
      BY <1>0, <2>1, <2>2, <2>3
    <3>3. \A i \in 1 .. Len(results'[f]) :
            results'[f][i] = <<<<f, i>>, stage'[<<f, i>>]>> /\ stage'[<<f, i>>] \in Made
      BY <2>1, <2>2
    <3>4. phase'[f] \in {"collect", "persist"}
      BY <2>3
    <3> QED BY <3>1, <3>2, <3>3, <3>4 DEF FleetFits
  <2>5. VehiclesFit(f)'
    BY <1>0, <2>1, <2>3 DEF VehiclesFit
  <2> QED BY <2>4, <2>5
<1> QED BY <1>1, <1>2, <1>3, <1>4, <1>5, <1>6, <1>7 DEF Handle

LEMMA FleetsKept ==
  ASSUME IInv, [Next]_vars
  PROVE  FleetInv'
<1>1. TypeOK' /\ TypeOK /\ FleetInv
      /\ stage' \in [Vehicles -> Ended \cup {"none", "queued", "cancelled", "running"}]
  BY TypesKept DEF TypeOK, IInv
<1>2. ASSUME NEW f \in Fleet, Handle(f), NEW g \in Fleet
      PROVE  FleetFits(g)' /\ VehiclesFit(g)'
  <2>1. CASE g = f
    BY <1>1, <1>2, <2>1, OwnFleet
  <2>2. CASE g # f
    BY <1>1, <1>2, <2>2, OtherFleets, FleetFrame DEF FleetInv
  <2> QED BY <2>1, <2>2
<1>3. ASSUME \/ \E p \in Executors : TakeNext(p)
             \/ \E v \in Vehicles : Generate(v)
             \/ CloseClient \/ ShutdownExecutor \/ UNCHANGED vars,
             NEW g \in Fleet
      PROVE  FleetFits(g)' /\ VehiclesFit(g)'
  BY <1>1, <1>3, NoFleet, FleetFrame DEF FleetInv
<1> QED BY <1>2, <1>3 DEF FleetInv, Next

-----------------------------------------------------------------------------
(* The pools *)

LEMMA QueuesKept ==
  ASSUME IInv, [Next]_vars
  PROVE  QueueInv'
<1>0. TypeOK /\ FleetInv /\ QueueInv /\ PoolInv
  BY DEF IInv
<1> SUFFICES ASSUME NEW p \in Executors, NEW k \in 1 .. Len(queue'[p])
             PROVE  pool'[queue'[p][k][1]] = p
  BY DEF QueueInv
<1>1. p \in Nat \ {0}
  BY FS_CardinalityType, BatchAssumption DEF Executors
<1>2. CASE UNCHANGED <<queue, pool>>
  BY <1>0, <1>2 DEF QueueInv
<1>3. ASSUME NEW f \in Fleet, GetExecutor(f)
      PROVE  pool'[queue'[p][k][1]] = p
  <2>1. queue[p][k] \in Vehicles /\ pool[queue[p][k][1]] = p
    BY <1>0, <1>3 DEF GetExecutor, QueueInv, TypeOK
  <2>2. queue[p][k][1] \in Fleet /\ queue[p][k][1] # f
    BY <1>0, <1>1, <1>3, <2>1, VehicleShape DEF GetExecutor, PoolInv
  <2> QED BY <1>0, <1>3, <2>1, <2>2 DEF GetExecutor, TypeOK
<1>4. ASSUME NEW f \in Fleet, Submit(f)
      PROVE  pool'[queue'[p][k][1]] = p
  <2>1. pool' = pool /\ queue' = [queue EXCEPT ![pool[f]] = Append(@, <<f, next[f]>>)]
    BY <1>4 DEF Submit
  <2>2. queue[p] \in Seq(Vehicles)
    BY <1>0 DEF TypeOK
  <2>3. CASE p # pool[f] \/ k \in 1 .. Len(queue[p])
    BY <1>0, <2>1, <2>2, <2>3 DEF QueueInv, TypeOK
  <2>4. CASE p = pool[f] /\ k \notin 1 .. Len(queue[p])
    <3>1. queue'[p] = Append(queue[p], <<f, next[f]>>)
      BY <1>0, <2>1, <2>4 DEF TypeOK
    <3>2. queue'[p][k] = <<f, next[f]>>
      BY <2>2, <2>4, <3>1
    <3> QED BY <2>1, <2>4, <3>2
  <2> QED BY <2>3, <2>4
<1>5. ASSUME NEW q \in Executors, TakeNext(q)
      PROVE  pool'[queue'[p][k][1]] = p
  <2>1. pool' = pool /\ queue[q] # <<>> /\ queue' = [queue EXCEPT ![q] = Tail(@)]
    BY <1>5 DEF TakeNext, fleetVars
  <2>2. queue[p] \in Seq(Vehicles)
    BY <1>0 DEF TypeOK
  <2>3. CASE p # q
    BY <1>0, <2>1, <2>3 DEF QueueInv, TypeOK
  <2>4. CASE p = q
    <3>1. k + 1 \in 1 .. Len(queue[p]) /\ queue'[p][k] = queue[p][k + 1]
      BY <1>0, <2>1, <2>2, <2>4 DEF TypeOK
    <3> QED BY <1>0, <2>1, <3>1 DEF QueueInv
  <2> QED BY <2>3, <2>4
<1> QED
  BY <1>2, <1>3, <1>4, <1>5
  DEF Next, Handle, Direct, SubmitRefused, Collect, HandOut, CollectRaises, Persist,
      Generate, CallLlm, Finished, Repair, FallBack, Finish, CloseClient,
      ShutdownExecutor, vars, fleetVars

\* Only TakeNext adds to the vehicles a pool is working for.
LEMMA WorkingKept ==
  ASSUME IInv, [Next]_vars, NEW p \in Executors
  PROVE  IsFiniteSet(Working(p)') /\ Cardinality(Working(p)') <= MaxWorkers
<1>0. TypeOK /\ FleetInv /\ QueueInv /\ PoolInv
  BY DEF IInv
<1>1. p \in Nat \ {0}
  BY FS_CardinalityType, BatchAssumption DEF Executors
<1>2. IsFiniteSet(Working(p)) /\ Cardinality(Working(p)) <= MaxWorkers /\ MaxWorkers \in Nat
  BY <1>0, BatchAssumption DEF PoolInv
<1>3. ASSUME NEW v, Working(p)' \subseteq Working(p) \cup {v}, Cardinality(Working(p)) < MaxWorkers
      PROVE  IsFiniteSet(Working(p)') /\ Cardinality(Working(p)') <= MaxWorkers
  BY <1>2, <1>3, OneMore
<1>4. ASSUME Working(p)' \subseteq Working(p)
      PROVE  IsFiniteSet(Working(p)') /\ Cardinality(Working(p)') <= MaxWorkers
  BY <1>2, <1>4, NoMore
<1>5. CASE /\ pool' = pool
           /\ \A v \in Vehicles : stage'[v] = "running" => stage[v] = "running"
  BY <1>4, <1>5 DEF Working
<1>6. ASSUME NEW f \in Fleet, Direct(f)
      PROVE  Working(p)' \subseteq Working(p)
  <2>1. pool[f] = 0 /\ pool' = pool
    BY <1>0, <1>6 DEF Direct, PoolInv
  <2>2. \A v \in Vehicles : v[1] # f => stage'[v] = stage[v]
    BY <1>0, <1>6 DEF Direct, Start, TypeOK
  <2> QED BY <1>1, <2>1, <2>2 DEF Working
<1>7. ASSUME NEW f \in Fleet, GetExecutor(f)
      PROVE  Working(p)' \subseteq Working(p)
  <2>1. stage' = stage /\ \A g \in Fleet : g # f => pool'[g] = pool[g]
    BY <1>0, <1>7 DEF GetExecutor, TypeOK
  <2>2. ASSUME NEW v \in Vehicles, v[1] = f
        PROVE  stage[v] # "running"
    <3>1. v = <<f, v[2]>> /\ v[2] \in Nat \ {0}
      BY <2>2, VehicleShape
    <3>2. size[f] = 0 /\ VehiclesFit(f)
      BY <1>0, <1>7 DEF GetExecutor, FleetInv, FleetFits
    <3>3. stage[<<f, v[2]>>] = "none"
      BY <2>2, <3>1, <3>2 DEF VehiclesFit
    <3> QED BY <3>1, <3>3
  <2> QED BY <2>1, <2>2, VehicleShape DEF Working
<1>8. ASSUME NEW q \in Executors, TakeNext(q)
      PROVE  IsFiniteSet(Working(p)') /\ Cardinality(Working(p)') <= MaxWorkers
  <2> DEFINE h == Head(queue[q])
  <2>1. h \in Vehicles /\ pool[h[1]] = q /\ pool' = pool
    <3>1. queue[q] \in Seq(Vehicles) /\ queue[q] # <<>> /\ pool' = pool
      BY <1>0, <1>8 DEF TakeNext, TypeOK, fleetVars
    <3>2. h = queue[q][1] /\ 1 \in 1 .. Len(queue[q])
      BY <3>1
    <3> QED BY <1>0, <3>1, <3>2 DEF QueueInv
  <2>2. \A v \in Vehicles : v # h => stage'[v] = stage[v]
    BY <1>0, <1>8 DEF TakeNext, Start, TypeOK
  <2>3. CASE p = q
    <3>1. Working(p)' \subseteq Working(p) \cup {h}
      BY <2>1, <2>2 DEF Working
    <3> QED BY <1>3, <1>8, <2>3, <3>1 DEF TakeNext, WorkerFree
  <2>4. CASE p # q
    <3>1. Working(p)' \subseteq Working(p)
      BY <2>1, <2>2, <2>4 DEF Working
    <3> QED BY <1>4, <3>1
  <2> QED BY <2>3, <2>4
<1>9. ASSUME NEW v \in Vehicles, Generate(v)
      PROVE  /\ pool' = pool
             /\ \A w \in Vehicles : stage'[w] = "running" => stage[w] = "running"
  BY <1>0, <1>9 DEF Generate, CallLlm, Finished, Repair, FallBack, Finish, fleetVars, TypeOK
<1>10. ASSUME NEW f \in Fleet,
              Submit(f) \/ SubmitRefused(f) \/ Collect(f) \/ CollectRaises(f) \/ Persist(f)
       PROVE  /\ pool' = pool
              /\ \A w \in Vehicles : stage'[w] = "running" => stage[w] = "running"
  BY <1>0, <1>10 DEF Submit, SubmitRefused, Collect, HandOut, CollectRaises, Persist, TypeOK
<1>11. CASE CloseClient \/ ShutdownExecutor \/ UNCHANGED vars
  BY <1>5, <1>11 DEF CloseClient, ShutdownExecutor, vars, fleetVars
<1> QED BY <1>4, <1>5, <1>6, <1>7, <1>8, <1>9, <1>10, <1>11 DEF Next, Handle

\* Pools are only made when there is none, by a fleet that makes its first step.
LEMMA PoolsKept ==
  ASSUME IInv, [Next]_vars
  PROVE  PoolInv'
<1>0. TypeOK /\ TypeOK' /\ FleetInv /\ PoolInv
  BY TypesKept DEF IInv
<1> DEFINE Sent == {f \in Fleet : phase[f] # "start"}
<1>1. pools \in Nat /\ pools <= Cardinality(Sent) /\ Cardinality(Sent) \in Nat
  <2>1. Sent \in SUBSET Fleet
    OBVIOUS
  <2>2. Cardinality(Sent) \in Nat
    BY <1>0, <2>1, FleetsSent
  <2> QED BY <1>0, <2>2 DEF PoolInv, TypeOK
<1>2. ASSUME UNCHANGED pools, Sent \subseteq Sent'
      PROVE  pools' <= Cardinality(Sent')
  <2>1. IsFiniteSet(Sent')
    BY FS_Subset, BatchAssumption
  <2>2. Cardinality(Sent) <= Cardinality(Sent') /\ Cardinality(Sent') \in Nat
    BY <1>2, <2>1, FS_Subset, FS_CardinalityType
  <2> QED BY <1>1, <1>2, <2>2
<1>3. ASSUME UNCHANGED pools, UNCHANGED pool,
             \A f \in Fleet : phase'[f] = "start" => phase[f] = "start",
             \/ UNCHANGED <<down, executor, closing, shutdowns>>
             \/ CloseClient \/ ShutdownExecutor
      PROVE  PoolInv'
  <2>1. pools' <= Cardinality(Sent')
    BY <1>2, <1>3
  <2>2. \A f \in Fleet : phase'[f] = "start" => pool'[f] = 0
    BY <1>0, <1>3 DEF PoolInv
  <2>3. 1 .. pools \subseteq down' \cup {executor'}
    BY <1>0, <1>1, <1>3 DEF PoolInv, CloseClient, ShutdownExecutor, poolVars
  <2>4. down' # {} \/ closing' => shutdowns' > 0
    BY <1>0, <1>3 DEF PoolInv, CloseClient, ShutdownExecutor, poolVars, TypeOK
  <2> QED BY <1>3, <2>1, <2>2, <2>3, <2>4, WorkingKept, Zenon DEF PoolInv
<1>4. ASSUME NEW f \in Fleet, GetExecutor(f)
      PROVE  PoolInv'
  <2>1. /\ phase[f] = "start" /\ UNCHANGED <<down, closing, shutdowns>>
        /\ Sent' = Sent \cup {f}
        /\ \A g \in Fleet : phase'[g] = "start" => phase[g] = "start" /\ pool'[g] = pool[g]
    BY <1>0, <1>4 DEF GetExecutor, Enter, serverVars, TypeOK
  <2>2. pools < Cardinality(Sent \cup {f}) /\ Cardinality(Sent \cup {f}) \in Nat
    <3>1. Sent \cup {f} \in SUBSET Fleet
      OBVIOUS
    <3> QED BY <1>0, <2>1, <3>1, FleetsSent
  <2>3. /\ pools' = pools \/ pools' = pools + 1
        /\ 1 .. pools' \subseteq down \cup {executor'}
    <3>1. CASE executor = 0
      <4>1. 1 .. pools \subseteq down /\ pools' = pools + 1 /\ executor' = pools + 1
        BY <1>0, <1>1, <1>4, <3>1 DEF PoolInv, GetExecutor
      <4> QED BY <1>1, <4>1
    <3>2. CASE executor # 0
      BY <1>0, <1>4, <3>2 DEF PoolInv, GetExecutor
    <3> QED BY <3>1, <3>2
  <2>4. pools' <= Cardinality(Sent')
    BY <1>1, <2>1, <2>2, <2>3
  <2>5. \A g \in Fleet : phase'[g] = "start" => pool'[g] = 0
    BY <1>0, <2>1 DEF PoolInv
  <2>6. down' # {} \/ closing' => shutdowns' > 0
    BY <1>0, <2>1 DEF PoolInv
  <2> QED BY <2>1, <2>3, <2>4, <2>5, <2>6, WorkingKept, Zenon DEF PoolInv
<1>5. ASSUME NEW f \in Fleet,
             \/ Direct(f) \/ Submit(f) \/ SubmitRefused(f)
             \/ Collect(f) \/ CollectRaises(f) \/ Persist(f)
      PROVE  PoolInv'
  <2>1. UNCHANGED <<pools, pool, down, executor, closing, shutdowns>>
    BY <1>5 DEF Direct, Submit, SubmitRefused, Collect, HandOut, CollectRaises, Persist,
           poolVars, serverVars
  <2>2. \/ phase' = phase
        \/ \E place \in {"collect", "failed", "persist", "answered"} :
             phase' = [phase EXCEPT ![f] = place]
    BY <1>5, Zenon DEF Direct, Submit, SubmitRefused, Collect, HandOut, CollectRaises,
       Persist, Enter
  <2>3. \A g \in Fleet : phase'[g] = "start" => phase[g] = "start"
    <3>1. phase \in [Fleet -> {"start", "submit", "collect", "persist", "answered", "failed"}]
      BY <1>0 DEF TypeOK
    <3> QED BY ONLY <2>2, <3>1
  <2> QED BY <1>3, <2>1, <2>3
<1>6. CASE \/ \E p \in Executors : TakeNext(p)
           \/ \E v \in Vehicles : Generate(v)
           \/ UNCHANGED vars
  <2>1. UNCHANGED <<pools, pool, phase, down, executor, closing, shutdowns>>
    BY <1>6 DEF TakeNext, Generate, CallLlm, Finished, Repair, FallBack, Finish, vars,
           poolVars, fleetVars, serverVars
  <2> QED BY <1>3, <2>1
<1>7. CASE CloseClient \/ ShutdownExecutor
  <2>1. UNCHANGED <<pools, pool, phase>>
    BY <1>7 DEF CloseClient, ShutdownExecutor, poolVars, fleetVars
  <2> QED BY <1>3, <1>7, <2>1
<1> QED BY <1>4, <1>5, <1>6, <1>7 DEF Next, Handle

-----------------------------------------------------------------------------
(* The theorems *)

LEMMA InitInv == Init => IInv
<1> SUFFICES ASSUME Init PROVE IInv
  OBVIOUS
<1> USE DEF Init, Http!Init, Http!None
<1>1. Http!TypeOK
  BY DEF Http!TypeOK
<1>2. TypeOK
  <2>1. Cardinality(Fleet) \in Nat
    BY FS_CardinalityType, BatchAssumption
  <2>2. \A S : <<>> \in Seq(S)
    OBVIOUS
  <2>3. /\ executor \in 0 .. pools /\ pools \in 0 .. Cardinality(Fleet)
        /\ down \subseteq 1 .. pools /\ pool \in [Fleet -> 0 .. pools]
        /\ rounds \in [Vehicles -> 0 .. MaxRepairAttempts] /\ shutdowns \in 0 .. MaxShutdowns
    BY <2>1, BatchAssumption
  <2>4. /\ queue \in [Executors -> Seq(Vehicles)]
        /\ results \in [Fleet -> Seq(Vehicles \X Made)]
    BY <2>2
  <2>5. /\ phase \in [Fleet -> {"start", "submit", "collect", "persist", "answered", "failed"}]
        /\ size \in [Fleet -> Sizes \cup {0}] /\ next \in [Fleet -> Nat]
        /\ stage \in [Vehicles -> Ended \cup {"none", "queued", "cancelled", "running"}]
        /\ rows \subseteq Vehicles \X Made /\ closing \in BOOLEAN
    OBVIOUS
  <2> QED BY <1>1, <2>3, <2>4, <2>5, Zenon DEF TypeOK
<1>3. FleetInv
  BY DEF FleetInv, FleetFits, VehiclesFit
<1>4. QueueInv
  BY DEF QueueInv
<1>5. PoolInv
  <2>1. \A p \in Executors : Working(p) = {}
    BY DEF Working
  <2>2. Cardinality({f \in Fleet : phase[f] # "start"}) \in Nat
    BY FS_Subset, FS_CardinalityType, BatchAssumption
  <2>3. \A p \in Executors : IsFiniteSet(Working(p)) /\ Cardinality(Working(p)) <= MaxWorkers
    <3>1. IsFiniteSet({}) /\ Cardinality({}) = 0 /\ MaxWorkers \in Nat
      BY FS_EmptySet, BatchAssumption
    <3>2. 0 <= MaxWorkers
      BY <3>1
    <3> QED BY <2>1, <3>1, <3>2, Zenon
  <2>4. /\ 1 .. pools \subseteq down \cup {executor}
        /\ ~(down # {} \/ closing)
        /\ pools <= Cardinality({f \in Fleet : phase[f] # "start"})
        /\ \A f \in Fleet : phase[f] = "start" => pool[f] = 0
    BY <2>2
  <2> QED BY <2>3, <2>4, Zenon DEF PoolInv
<1>6. HttpInv
  BY DEF HttpInv, Http!OneOpenClient
<1> QED BY <1>2, <1>3, <1>4, <1>5, <1>6 DEF IInv

LEMMA Invariance == Spec => []IInv
<1>1. Init => IInv
  BY InitInv
<1>2. IInv /\ [Next]_vars => IInv'
  BY HttpKept, TypesKept, FleetsKept, QueuesKept, PoolsKept DEF IInv
<1> QED BY <1>1, <1>2, PTL DEF Spec

\* The types, for every number of fleets, vehicles, workers, connections and
\* shutdowns; no pool is ever made without a fleet of its own.
THEOREM TypeCorrect == Spec => []TypeOK
<1>1. IInv => TypeOK
  BY DEF IInv
<1> QED BY <1>1, Invariance, PTL

\* Neither threads nor connections outgrow their bounds, however requests, threads
\* and shutdowns race for the shared pool and client.
THEOREM BoundsKept == Spec => []ResourcesBounded
<1>1. ASSUME IInv
      PROVE  ResourcesBounded
  <2>0. TypeOK /\ Http!TypeOK /\ FleetInv /\ QueueInv /\ PoolInv /\ HttpInv
    BY <1>1 DEF IInv, TypeOK
  <2>1. FanOutBounded
    <3> DEFINE Live == {v \in Vehicles : stage[v] = "running" /\ pool[v[1]] \in 1 .. pools \ down}
    <3>1. CASE executor \in 1 .. pools
      <4>1. executor \in Executors
        BY <2>0, <3>1, FleetsSent DEF Executors, TypeOK
      <4>2. Live \subseteq Working(executor)
        BY <2>0 DEF PoolInv, Working
      <4>3. Cardinality(Live) <= MaxWorkers
        BY <2>0, <4>1, <4>2, NoMore, BatchAssumption DEF PoolInv
      <4> QED BY <2>0, <4>3, Zenon DEF PoolInv, FanOutBounded
    <3>2. CASE executor \notin 1 .. pools
      <4>1. Live = {}
        BY <2>0, <3>2 DEF PoolInv
      <4>2. Cardinality(Live) <= MaxWorkers
        <5>1. Cardinality({}) = 0 /\ 0 <= MaxWorkers
          BY FS_EmptySet, BatchAssumption
        <5> QED BY <4>1, <5>1, Zenon
      <4> QED BY <2>0, <4>2, Zenon DEF PoolInv, FanOutBounded
    <3> QED BY <3>1, <3>2
  <2>2. Http!OneOpenClient
    BY <2>0 DEF HttpInv
  <2>3. Http!ConnectionsBounded
    <3> DEFINE Open == {v \in Vehicles : Http!At(v, "sent") /\ handle[v] \notin closed}
    <3>1. \A v \in Vehicles : Http!At(v, "sent") => handle[v] \in 1 .. made
      BY <2>0 DEF HttpInv, Http!TypeOK, Http!At
    <3>2. \A v \in Open : handle[v] = client
      BY <2>2, <3>1 DEF Http!OneOpenClient
    <3>3. Cardinality(Open) <= MaxConnections
      <4>1. CASE client \in 1 .. made
        <5>1. Open \subseteq Http!Connected(client)
          BY <3>2 DEF Http!Connected
        <5> QED BY <2>0, <4>1, <5>1, NoMore, BatchAssumption DEF HttpInv
      <4>2. CASE client \notin 1 .. made
        <5>1. Open = {}
          BY <3>1, <3>2, <4>2
        <5> QED BY <5>1, FS_EmptySet, BatchAssumption
      <4> QED BY <4>1, <4>2
    <3> QED BY <3>3, SameCardinality DEF Http!ConnectionsBounded
  <2> QED BY <2>1, <2>2, <2>3 DEF ResourcesBounded, ConnectionsBounded
<1> QED BY <1>1, Invariance, PTL

-----------------------------------------------------------------------------
(* The refinement *)

LEMMA SameVehicles == Promise!Vehicles = Vehicles
  BY DEF Promise!Vehicles, Vehicles

\* Nothing that a fleet can see.
Unseen == UNCHANGED <<size, Outcome, Reply, rows, shutdowns>>

LEMMA Stutters == ASSUME Unseen PROVE UNCHANGED Promise!fleetVars
  BY DEF Unseen, Promise!fleetVars

\* Stages that are no ends are not seen.
LEMMA SameOutcome ==
  ASSUME TypeOK, TypeOK', \A v \in Vehicles : stage'[v] = stage[v] \/ {stage[v], stage'[v]} \cap Ended = {}
  PROVE  Outcome' = Outcome
<1>1. \A v \in Vehicles : (IF stage'[v] \in Ended THEN stage'[v] ELSE "pending")
                            = (IF stage[v] \in Ended THEN stage[v] ELSE "pending")
  OBVIOUS
<1> QED BY <1>1 DEF Outcome

\* A handler that does not come to an answer shows nothing.
LEMMA SameReply ==
  ASSUME TypeOK, \A f \in Fleet :
           \/ phase'[f] = phase[f] /\ results'[f] = results[f]
           \/ {phase[f], phase'[f]} \subseteq {"start", "submit", "collect"}
           \/ {phase[f], phase'[f]} \subseteq {"persist", "answered"} /\ results'[f] = results[f]
  PROVE  Reply' = Reply
<1> DEFINE R(p, r) == CASE p \in {"persist", "answered"} -> r
                        [] p = "failed" -> << <<>> >>
                        [] OTHER -> <<>>
<1>1. \A f \in Fleet : R(phase'[f], results'[f]) = R(phase[f], results[f])
  OBVIOUS
<1>2. Reply = [f \in Fleet |-> R(phase[f], results[f])]
  BY DEF Reply
<1>3. Reply' = [f \in Fleet |-> R(phase'[f], results'[f])]
  BY DEF Reply
<1> QED BY <1>1, <1>2, <1>3, Zenon

LEMMA HandlerRefines ==
  ASSUME IInv, TypeOK', NEW f \in Fleet, Handle(f)
  PROVE  [Promise!Next]_(Promise!fleetVars)
<1>0. TypeOK /\ FleetFits(f) /\ VehiclesFit(f)
  BY DEF IInv, FleetInv
<1>1. ASSUME Promise!Send(f) \/ Promise!Answer(f) \/ Promise!Fail(f) \/ Promise!Record(f)
      PROVE  Promise!Next
  BY <1>1 DEF Promise!Next
<1>2. CASE Direct(f)
  <2>1. /\ size[f] = 0 /\ size' = [size EXCEPT ![f] = 1] /\ 1 \in Sizes
        /\ UNCHANGED <<rows, shutdowns>>
    BY <1>0, <1>2 DEF Direct, FleetFits, serverVars
  <2>2. Reply' = Reply
    BY <1>0, <1>2, SameReply DEF Direct, Enter, TypeOK
  <2>3. stage[<<f, 1>>] = "none"
    <3>1. <<f, 1>> \in Vehicles /\ 1 \in Nat /\ ~(1 <= 0)
      BY <2>1, VehicleShape
    <3> QED BY <1>0, <2>1, <3>1 DEF VehiclesFit
  <2>4. Outcome' = Outcome
    BY <1>0, <1>2, <2>3, SameOutcome, SMTT(30) DEF Direct, Start, TypeOK, Ended, Made
  <2>5. Promise!Send(f)
    BY <2>1, <2>2, <2>4 DEF Promise!Send
  <2> QED BY <1>1, <2>5
<1>3. CASE GetExecutor(f)
  <2>1. /\ size[f] = 0 /\ \E n \in Sizes : size' = [size EXCEPT ![f] = n]
        /\ UNCHANGED <<rows, shutdowns, stage>>
    BY <1>0, <1>3 DEF GetExecutor, FleetFits, serverVars
  <2>2. Reply' = Reply
    BY <1>0, <1>3, SameReply DEF GetExecutor, Enter, TypeOK
  <2>3. Outcome' = Outcome
    BY <2>1 DEF Outcome
  <2>4. Promise!Send(f)
    BY <2>1, <2>2, <2>3 DEF Promise!Send
  <2> QED BY <1>1, <2>4
<1>4. CASE Submit(f)
  <2>1. UNCHANGED <<size, rows, shutdowns, results>>
    BY <1>4 DEF Submit, serverVars
  <2>2. Reply' = Reply
    <3>1. /\ phase[f] = "submit" /\ phase'[f] \in {"submit", "collect"}
          /\ \A g \in Fleet \ {f} : phase'[g] = phase[g]
      BY <1>0, <1>4 DEF Submit, Enter, TypeOK
    <3>2. \A g \in Fleet : \/ phase'[g] = phase[g] /\ results'[g] = results[g]
                           \/ {phase[g], phase'[g]} \subseteq {"start", "submit", "collect"}
      BY <2>1, <3>1
    <3> QED BY <1>0, <3>2, SameReply
  <2>3. ASSUME <<f, next[f]>> \in Vehicles
        PROVE  stage[<<f, next[f]>>] = "none"
    BY <1>0, <1>4, <2>3 DEF Submit, VehiclesFit, TypeOK
  <2>4. Outcome' = Outcome
    <3>1. stage' = [stage EXCEPT ![<<f, next[f]>>] = "queued"]
      BY <1>4 DEF Submit
    <3>2. ASSUME NEW v \in Vehicles
          PROVE  stage'[v] = stage[v] \/ (stage[v] = "none" /\ stage'[v] = "queued")
      <4>1. DOMAIN stage = Vehicles
        BY <1>0 DEF TypeOK
      <4>2. CASE v # <<f, next[f]>>
        BY <3>1, <4>1, <4>2
      <4>3. CASE v = <<f, next[f]>>
        <5>1. stage'[v] = "queued"
          BY <3>1, <4>1, <4>3
        <5> QED BY <2>3, <4>3, <5>1, Zenon
      <4> QED BY <4>2, <4>3
    <3>3. "none" \notin Ended /\ "queued" \notin Ended
      BY DEF Ended, Made
    <3>4. ASSUME NEW v \in Vehicles
          PROVE  stage'[v] = stage[v] \/ {stage[v], stage'[v]} \cap Ended = {}
      <4>1. CASE stage[v] = "none" /\ stage'[v] = "queued"
        BY <3>3, <4>1
      <4> QED BY <3>2, <4>1
    <3> QED BY <1>0, <3>4, SameOutcome
  <2> QED BY <2>1, <2>2, <2>4, Stutters DEF Unseen
<1>5. CASE SubmitRefused(f)
  <2>1. /\ phase[f] = "submit" /\ phase' = [phase EXCEPT ![f] = "failed"]
        /\ UNCHANGED <<size, rows, shutdowns, stage, results>>
    BY <1>5 DEF SubmitRefused, Enter, serverVars
  <2>2. shutdowns > 0 /\ size[f] > 1
    BY <1>0, <1>5 DEF SubmitRefused, FleetFits, IInv, PoolInv
  <2>3. Outcome' = Outcome
    BY <2>1 DEF Outcome
  <2>4. Reply[f] = <<>> /\ Reply' = [Reply EXCEPT ![f] = << <<>> >>]
    BY <1>0, <2>1 DEF Reply, TypeOK
  <2>5. Promise!Fail(f)
    BY <2>1, <2>2, <2>3, <2>4 DEF Promise!Fail, Promise!Pending, Promise!Failed
  <2> QED BY <1>1, <2>5
<1>6. CASE CollectRaises(f)
  <2>1. /\ phase[f] = "collect" /\ phase' = [phase EXCEPT ![f] = "failed"]
        /\ results' = [results EXCEPT ![f] = <<>>]
        /\ UNCHANGED <<size, rows, shutdowns>>
    BY <1>6 DEF CollectRaises, Enter, serverVars
  <2>2. <<f, next[f]>> \in Promise!InFleet(f) /\ Outcome[<<f, next[f]>>] = "raised"
    <3>1. next[f] \in 1 .. size[f] /\ <<f, next[f]>> \in Vehicles
      BY <1>0, <2>1, Collected DEF FleetFits
    <3> QED BY <1>6, <3>1 DEF CollectRaises, Promise!InFleet, Outcome, Ended
  <2>3. Outcome' = Outcome
    BY <1>0, <1>6, SameOutcome DEF CollectRaises, Ended, Made
  <2>4. Reply[f] = <<>> /\ Reply' = [Reply EXCEPT ![f] = << <<>> >>]
    BY <1>0, <2>1 DEF Reply, TypeOK
  <2>5. Promise!Fail(f)
    BY <2>1, <2>2, <2>3, <2>4 DEF Promise!Fail, Promise!Pending, Promise!Failed
  <2> QED BY <1>1, <2>5
<1>7. CASE Persist(f)
  <2>1. /\ phase[f] = "persist" /\ size[f] > 0 /\ next[f] \in 1 .. size[f]
        /\ results[f] \in Seq(Vehicles \X Made) /\ Len(results[f]) = size[f]
        /\ UNCHANGED <<size, shutdowns, stage, results>>
    BY <1>0, <1>7, Collected DEF Persist, serverVars, FleetFits, TypeOK
  <2>2. Outcome' = Outcome
    BY <2>1 DEF Outcome
  <2>3. Reply' = Reply
    BY <1>0, <1>7, SameReply DEF Persist, Enter, TypeOK
  <2>4. Reply[f] = results[f] /\ Reply[f] # <<>> /\ Reply[f] # << <<>> >>
    <3>1. Reply[f] = results[f]
      BY <2>1 DEF Reply
    <3>2. results[f][1] = <<<<f, 1>>, stage[<<f, 1>>]>>
      BY <1>0, <2>1 DEF FleetFits
    <3>3. results[f][1] # <<>> /\ << <<>> >>[1] = <<>>
      BY <3>2
    <3> QED BY <2>1, <3>1, <3>3
  <2>5. rows' = rows \/ rows' = rows \cup {Reply[f][next[f]]}
    BY <1>7, <2>4 DEF Persist
  <2>6. CASE rows' = rows
    BY <2>1, <2>2, <2>3, <2>6, Stutters DEF Unseen
  <2>7. CASE rows' = rows \cup {Reply[f][next[f]]}
    <3>1. Promise!Record(f)
      BY <2>1, <2>2, <2>3, <2>4, <2>7 DEF Promise!Record, Promise!Pending, Promise!Failed
    <3> QED BY <1>1, <3>1
  <2> QED BY <2>5, <2>6, <2>7
<1>8. CASE Collect(f)
  <2>1. /\ phase[f] = "collect" /\ stage[<<f, next[f]>>] \in Made
        /\ results' = [results EXCEPT ![f] = Append(@, <<<<f, next[f]>>, stage[<<f, next[f]>>]>>)]
        /\ UNCHANGED <<size, rows, shutdowns, stage>>
    BY <1>8 DEF Collect, HandOut, serverVars
  <2>2. Outcome' = Outcome
    BY <2>1 DEF Outcome
  <2>3. CASE Len(results[f]) + 1 # size[f]
    <3>1. phase' = phase
      BY <1>8, <2>3 DEF Collect, HandOut
    <3>2. Reply' = Reply
      BY <1>0, <2>1, <3>1, SameReply DEF TypeOK
    <3> QED BY <2>1, <2>2, <3>2, Stutters DEF Unseen
  <2>4. CASE Len(results[f]) + 1 = size[f]
    <3>1. phase' = [phase EXCEPT ![f] = "persist"]
      BY <1>8, <2>4 DEF Collect, HandOut, Enter
    <3>2. Reply[f] = <<>> /\ Reply' = [Reply EXCEPT ![f] = results'[f]]
      BY <1>0, <2>1, <3>1 DEF Reply, TypeOK
    <3>3. /\ results[f] \in Seq(Vehicles \X Made) /\ size[f] \in Nat \ {0}
          /\ next[f] = size[f] /\ Len(results[f]) = size[f] - 1
          /\ results'[f] = Append(results[f], <<<<f, next[f]>>, stage[<<f, next[f]>>]>>)
      <4>1. size[f] \in Nat \ {0} /\ next[f] \in 1 .. size[f] /\ Len(results[f]) = next[f] - 1
        BY <1>0, <2>1, Collected DEF FleetFits
      <4>2. next[f] = size[f]
        BY <2>4, <4>1
      <4>3. /\ results[f] \in Seq(Vehicles \X Made)
            /\ results'[f] = Append(results[f], <<<<f, next[f]>>, stage[<<f, next[f]>>]>>)
        BY <1>0, <2>1 DEF TypeOK
      <4> QED BY <4>1, <4>2, <4>3
    <3>4. ASSUME NEW i \in 1 .. size[f]
          PROVE  /\ results'[f][i] = <<<<f, i>>, stage[<<f, i>>]>>
                 /\ <<f, i>> \in Vehicles /\ stage[<<f, i>>] \in Made
      <4>1. <<f, i>> \in Vehicles
        BY <1>0, Collected
      <4>2. CASE i = size[f]
        <5>1. results'[f][i] = <<<<f, next[f]>>, stage[<<f, next[f]>>]>>
          BY <3>3, <4>2
        <5> QED BY <2>1, <3>3, <4>1, <4>2, <5>1
      <4>3. CASE i # size[f]
        <5>1. i \in 1 .. Len(results[f]) /\ results'[f][i] = results[f][i]
          BY <3>3, <4>3
        <5> QED BY <1>0, <4>1, <5>1 DEF FleetFits
      <4> QED BY <4>2, <4>3
    <3>5. \A i \in 1 .. size[f] : Outcome[<<f, i>>] = stage[<<f, i>>] /\ Promise!Served(<<f, i>>)
      BY <3>4 DEF Outcome, Promise!Served, Ended, Made
    <3>6. results'[f] = [i \in 1 .. size[f] |-> <<<<f, i>>, Outcome[<<f, i>>]>>]
      <4>1. DOMAIN results'[f] = 1 .. size[f]
        BY <3>3
      <4>2. results'[f] = [i \in 1 .. size[f] |-> results'[f][i]]
        BY <3>3, <4>1
      <4> QED BY <3>4, <3>5, <4>2, Zenon
    <3>7. Promise!Answer(f)
      <4>1. \A v \in Promise!InFleet(f) : Promise!Served(v)
        BY <3>5 DEF Promise!InFleet
      <4>2. /\ size[f] > 0 /\ Reply[f] = Promise!Pending
            /\ Reply' = [Reply EXCEPT ![f] = [i \in 1 .. size[f] |-> <<<<f, i>>, Outcome[<<f, i>>]>>]]
        <5>1. size[f] > 0
          BY <3>3
        <5> QED BY <3>2, <3>6, <5>1, Zenon DEF Promise!Pending
      <4> QED BY <2>1, <2>2, <4>1, <4>2, Zenon DEF Promise!Answer
    <3> QED BY <1>1, <3>7
  <2> QED BY <2>3, <2>4
<1> QED BY <1>2, <1>3, <1>4, <1>5, <1>6, <1>7, <1>8 DEF Handle

LEMMA VehicleRefines ==
  ASSUME IInv, TypeOK', NEW v \in Vehicles, Generate(v)
  PROVE  [Promise!Next]_(Promise!fleetVars)
<1>0. TypeOK
  BY DEF IInv
<1>1. UNCHANGED <<size, phase, results, rows, shutdowns>>
  BY DEF Generate, CallLlm, Finished, Repair, FallBack, Finish, fleetVars, serverVars
<1>2. Reply' = Reply
  BY <1>1 DEF Reply
<1>3. CASE CallLlm(v) \/ Repair(v)
  <2>1. Outcome' = Outcome
    BY <1>3 DEF CallLlm, Repair, Outcome
  <2> QED BY <1>1, <1>2, <2>1, Stutters DEF Unseen
<1>4. ASSUME NEW by \in Made, stage[v] = "running", Finish(v, by)
      PROVE  Promise!Next
  <2>1. v[1] \in Fleet /\ v[2] \in Nat \ {0} /\ v = <<v[1], v[2]>>
    BY VehicleShape
  <2>2. v \in Promise!InFleet(v[1])
    <3>1. v[2] <= size[v[1]] /\ size[v[1]] \in Nat
      BY <1>0, <1>4, <2>1, Collected DEF IInv, FleetInv, VehiclesFit
    <3>2. v[2] \in 1 .. size[v[1]]
      BY <2>1, <3>1
    <3> QED BY <2>1, <3>2 DEF Promise!InFleet
  <2>3. PICK end \in Ended :
          /\ stage' = [stage EXCEPT ![v] = end]
          /\ end = "raised" => Fails[v] # "never"
          /\ end = "mock-fallback" => Fails[v] = "never"
          /\ end = "openai" => Fails[v] # "always"
    BY <1>4, BatchAssumption DEF Finish, Ended, Made
  <2>4. Outcome[v] = "pending" /\ Outcome' = [Outcome EXCEPT ![v] = end]
    BY <1>0, <1>4, <2>3 DEF Outcome, Ended, Made, TypeOK
  <2>5. Promise!Serve(v)
    BY <1>1, <1>2, <2>2, <2>3, <2>4 DEF Promise!Serve, Ended, Made
  <2> QED BY <2>5, SameVehicles DEF Promise!Next
<1> QED BY <1>3, <1>4 DEF Generate, Finished, FallBack, Made

LEMMA OtherRefines ==
  ASSUME IInv, TypeOK',
         \/ \E p \in Executors : TakeNext(p)
         \/ CloseClient \/ ShutdownExecutor \/ UNCHANGED vars
  PROVE  [Promise!Next]_(Promise!fleetVars)
<1>0. TypeOK
  BY DEF IInv
<1>1. ASSUME NEW p \in Executors, TakeNext(p)
      PROVE  UNCHANGED Promise!fleetVars
  <2>1. UNCHANGED <<size, phase, results, rows, shutdowns>>
    BY <1>1 DEF TakeNext, fleetVars, serverVars
  <2>2. Reply' = Reply
    BY <2>1 DEF Reply
  <2>3. Outcome' = Outcome
    BY <1>0, <1>1, SameOutcome DEF TakeNext, Start, TypeOK, Ended, Made
  <2> QED BY <2>1, <2>2, <2>3, Stutters DEF Unseen
<1>2. CASE CloseClient
  <2>1. UNCHANGED <<size, phase, results, rows, stage>> /\ shutdowns' = shutdowns + 1
    BY <1>2 DEF CloseClient, fleetVars
  <2>2. Reply' = Reply /\ Outcome' = Outcome
    BY <2>1 DEF Reply, Outcome
  <2>3. (shutdowns' > 0) = TRUE
    BY <1>0, <2>1 DEF TypeOK
  <2>4. Promise!Stop
    BY <2>1, <2>2, <2>3 DEF Promise!Stop
  <2> QED BY <2>4 DEF Promise!Next
<1>3. CASE ShutdownExecutor \/ UNCHANGED vars
  <2>1. UNCHANGED <<size, phase, results, rows, stage, shutdowns>>
    BY <1>3 DEF ShutdownExecutor, vars, fleetVars, serverVars
  <2>2. Reply' = Reply /\ Outcome' = Outcome
    BY <2>1 DEF Reply, Outcome
  <2> QED BY <2>1, <2>2, Stutters DEF Unseen
<1> QED BY <1>1, <1>2, <1>3

\* The threads, the shared pool and the shutdown implement what a fleet is promised:
\* every vehicle's own outcome in the order sent, or no answer at all.
THEOREM Refines == Spec => PromiseKept
<1>1. Init => Promise!Init
  <2> SUFFICES ASSUME Init PROVE Promise!Init
    OBVIOUS
  <2>1. Outcome = [v \in Vehicles |-> "pending"]
    BY DEF Init, Outcome, Ended, Made
  <2>2. Reply = [f \in Fleet |-> <<>>]
    BY DEF Init, Reply
  <2>3. (shutdowns > 0) = FALSE
    BY DEF Init
  <2>4. size = [f \in Fleet |-> 0] /\ rows = {}
    BY DEF Init
  <2> QED BY <2>1, <2>2, <2>3, <2>4, SameVehicles DEF Promise!Init, Promise!Pending
<1>2. IInv /\ IInv' /\ [Next]_vars => [Promise!Next]_(Promise!fleetVars)
  <2> SUFFICES ASSUME IInv, IInv', [Next]_vars
               PROVE  [Promise!Next]_(Promise!fleetVars)
    OBVIOUS
  <2>1. TypeOK'
    BY DEF IInv
  <2> QED BY <2>1, HandlerRefines, VehicleRefines, OtherRefines DEF Next
<1> QED BY <1>1, <1>2, Invariance, PTL DEF Spec, PromiseKept, Promise!Spec
=============================================================================
