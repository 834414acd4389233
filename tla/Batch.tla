-------------------------------- MODULE Batch --------------------------------
(***************************************************************************)
(* POST /api/batch (backend/batch.py, generate_batch of backend/main.py):  *)
(* the handlers of several fleets, the thread pool they share, the HTTP    *)
(* client (module HttpClient) its threads share, and the shutdown that     *)
(* closes both.  The pipeline of one vehicle is its calls to the LLM and   *)
(* how it ends; module Pipeline has the rest.                              *)
(*                                                                         *)
(* concurrent.futures is modelled as it is: submit refuses once the pool   *)
(* is shut down, the workers take what was submitted in its order and      *)
(* drain the queue even then, and map hands out the results in the order   *)
(* of its arguments and cancels what has not begun when one of them fails. *)
(***************************************************************************)
EXTENDS Integers, Sequences, FiniteSets

CONSTANTS
  Fleet, Sizes, Fails, \* see module Fleets
  MaxWorkers,          \* settings.batch_max_workers
  MaxConnections,      \* settings.llm_max_connections
  MaxRepairAttempts,   \* MAX_REPAIR_ATTEMPTS
  MaxShutdowns         \* bound on how often the application is shut down

Vehicles == Fleet \X UNION {1 .. n : n \in Sizes}

ASSUME BatchAssumption ==
  /\ IsFiniteSet(Fleet) /\ Sizes \subseteq Nat \ {0}
  /\ Fails \in [Vehicles -> {"never", "plan", "always"}]
  /\ {MaxWorkers, MaxConnections} \subseteq Nat \ {0}
  /\ {MaxRepairAttempts, MaxShutdowns} \subseteq Nat

VARIABLES
  client, made, closed, http, handle,   \* see module HttpClient
  executor,    \* _executor, numbered as they are made; 0 is None
  pools,       \* how many executors were made
  down,        \* those that were shut down
  queue,       \* what was submitted to each and not taken yet
  size,        \* how many vehicles each fleet has, 0 before it is sent
  phase,       \* where the handler of each fleet stands
  pool,        \* the executor _get_executor has returned to it
  next,        \* the vehicle it submits, waits for or records next
  results,     \* what map has handed out so far
  stage,       \* how far each vehicle is
  rounds,      \* rounds of repair of its program
  rows,        \* history rows of kind batch_item
  closing,     \* lifespan is between its two calls
  shutdowns    \* how often the application was shut down

poolVars == <<executor, pools, down>>
fleetVars == <<size, phase, pool, next, results>>
serverVars == <<closing, shutdowns>>
vars == <<client, made, closed, http, handle, poolVars, queue, fleetVars,
          stage, rounds, rows, serverVars>>

Http == INSTANCE HttpClient WITH Callers <- Vehicles

\* No fleet makes more than one.
Executors == 1 .. Cardinality(Fleet)

\* How a vehicle's pipeline ends: with a program, and who made it, or raising.
Made == {"openai", "mock-fallback"}
Ended == Made \cup {"raised"}

Init ==
  /\ Http!Init
  /\ executor = 0 /\ pools = 0 /\ down = {}
  /\ queue = [p \in Executors |-> <<>>]
  /\ size = [f \in Fleet |-> 0]
  /\ phase = [f \in Fleet |-> "start"]
  /\ pool = [f \in Fleet |-> 0]
  /\ next = [f \in Fleet |-> 1]
  /\ results = [f \in Fleet |-> <<>>]
  /\ stage = [v \in Vehicles |-> "none"]
  /\ rounds = [v \in Vehicles |-> 0]
  /\ rows = {}
  /\ closing = FALSE /\ shutdowns = 0

Enter(f, place) ==
  /\ phase' = [phase EXCEPT ![f] = place]
  /\ next' = [next EXCEPT ![f] = 1]

\* generate(v) begins, and with it the first call to the LLM.
Start(v) ==
  /\ stage' = [stage EXCEPT ![v] = "running"]
  /\ Http!Begin(v)
  /\ UNCHANGED <<client, made, closed, handle>>

-----------------------------------------------------------------------------
(* The handler of a fleet *)

\* A single vehicle needs no pool: the handler's own thread runs its pipeline.
Direct(f) ==
  /\ phase[f] = "start" /\ 1 \in Sizes
  /\ size' = [size EXCEPT ![f] = 1]
  /\ Start(<<f, 1>>)
  /\ Enter(f, "collect")
  /\ UNCHANGED <<poolVars, queue, pool, results, rounds, rows, serverVars>>

\* A slip: every request makes a pool of its own.
GetOwnExecutor(f) ==
  /\ phase[f] = "start"
  /\ \E n \in Sizes \ {1} : size' = [size EXCEPT ![f] = n]
  /\ pools' = pools + 1
  /\ executor' = pools'
  /\ pool' = [pool EXCEPT ![f] = executor']
  /\ Enter(f, "submit")
  /\ UNCHANGED <<client, made, closed, http, handle, down, queue, results, stage,
                 rounds, rows, serverVars>>

\* _get_executor, all of it under _executor_lock.
GetExecutor(f) ==
  /\ phase[f] = "start"
  /\ \E n \in Sizes \ {1} : size' = [size EXCEPT ![f] = n]
  /\ IF executor = 0 THEN pools' = pools + 1 /\ executor' = pools'
                     ELSE UNCHANGED <<pools, executor>>
  /\ pool' = [pool EXCEPT ![f] = executor']
  /\ Enter(f, "submit")
  /\ UNCHANGED <<client, made, closed, http, handle, down, queue, results, stage,
                 rounds, rows, serverVars>>

\* map submits one call after the other.
Submit(f) ==
  /\ phase[f] = "submit" /\ pool[f] \notin down
  /\ queue' = [queue EXCEPT ![pool[f]] = Append(@, <<f, next[f]>>)]
  /\ stage' = [stage EXCEPT ![<<f, next[f]>>] = "queued"]
  /\ IF next[f] = size[f] THEN Enter(f, "collect")
     ELSE next' = [next EXCEPT ![f] = @ + 1] /\ UNCHANGED phase
  /\ UNCHANGED <<client, made, closed, http, handle, poolVars, size, pool, results,
                 rounds, rows, serverVars>>

\* A pool that was shut down meanwhile refuses.  What was submitted before is left
\* to run, for nobody.
SubmitRefused(f) ==
  /\ phase[f] = "submit" /\ pool[f] \in down
  /\ Enter(f, "failed")
  /\ UNCHANGED <<client, made, closed, http, handle, poolVars, queue, size, pool,
                 results, stage, rounds, rows, serverVars>>

HandOut(f, i) ==
  /\ results' = [results EXCEPT ![f] = Append(@, <<<<f, i>>, stage[<<f, i>>]>>)]
  /\ IF Len(results[f]) + 1 = size[f] THEN Enter(f, "persist")
     ELSE next' = [next EXCEPT ![f] = @ + 1] /\ UNCHANGED phase
  /\ UNCHANGED <<client, made, closed, http, handle, poolVars, queue, size, pool,
                 stage, rounds, rows, serverVars>>

\* A slip: results are handed out as they are ready.
CollectReady(f) ==
  /\ phase[f] = "collect"
  /\ \E i \in 1 .. size[f] :
       /\ stage[<<f, i>>] \in Made
       /\ \A k \in 1 .. Len(results[f]) : results[f][k][1] # <<f, i>>
       /\ HandOut(f, i)

\* map hands out the next result, in the order of the vehicles.
Collect(f) ==
  /\ phase[f] = "collect" /\ stage[<<f, next[f]>>] \in Made
  /\ HandOut(f, next[f])

\* The first failure in that order is raised again, and map cancels what no worker
\* has taken yet: the results of the other vehicles are lost.
CollectRaises(f) ==
  /\ phase[f] = "collect" /\ stage[<<f, next[f]>>] = "raised"
  /\ stage' = [v \in Vehicles |-> IF v[1] = f /\ stage[v] = "queued" THEN "cancelled" ELSE stage[v]]
  /\ results' = [results EXCEPT ![f] = <<>>]
  /\ Enter(f, "failed")
  /\ UNCHANGED <<client, made, closed, http, handle, poolVars, queue, size, pool,
                 rounds, rows, serverVars>>

\* generate_batch records item by item; a row that cannot be written is swallowed.
Persist(f) ==
  /\ phase[f] = "persist"
  /\ rows' \in {rows, rows \cup {results[f][next[f]]}}
  /\ IF next[f] = size[f] THEN Enter(f, "answered")
     ELSE next' = [next EXCEPT ![f] = @ + 1] /\ UNCHANGED phase
  /\ UNCHANGED <<client, made, closed, http, handle, poolVars, queue, size, pool,
                 results, stage, rounds, serverVars>>

Handle(f) ==
  \/ Direct(f) \/ GetExecutor(f) \/ Submit(f) \/ SubmitRefused(f)
  \/ Collect(f) \/ CollectRaises(f) \/ Persist(f)

-----------------------------------------------------------------------------
(* The workers of a pool *)

Working(p) == {v \in Vehicles : stage[v] = "running" /\ pool[v[1]] = p}

\* A slip: the workers of a pool that is shut down leave its queue behind.
WorkerFreeAndUp(p) == p \notin down /\ Cardinality(Working(p)) < MaxWorkers

WorkerFree(p) == Cardinality(Working(p)) < MaxWorkers

\* A free worker takes what was submitted first; what was cancelled is skipped.
TakeNext(p) ==
  /\ queue[p] # <<>> /\ WorkerFree(p)
  /\ queue' = [queue EXCEPT ![p] = Tail(@)]
  /\ IF stage[Head(queue[p])] = "queued" THEN Start(Head(queue[p]))
     ELSE UNCHANGED <<client, made, closed, http, handle, stage>>
  /\ UNCHANGED <<poolVars, fleetVars, rounds, rows, serverVars>>

-----------------------------------------------------------------------------
(* generate(v), in the thread of a worker or of the handler *)

\* A step of its call to the LLM.
CallLlm(v) ==
  /\ Http!Call(v)
  /\ UNCHANGED <<poolVars, queue, fleetVars, stage, rounds, rows, serverVars>>

\* The end of the pipeline, by whom the program was made.
Finish(v, by) ==
  /\ \/ /\ Fails[v] = "never" \/ (Fails[v] = "plan" /\ by = "openai")
        /\ stage' = [stage EXCEPT ![v] = by]
     \/ /\ Fails[v] = "always" \/ (Fails[v] = "plan" /\ by = "mock-fallback")
        /\ stage' = [stage EXCEPT ![v] = "raised"]
  /\ rounds' = [rounds EXCEPT ![v] = 0]
  /\ Http!GoTo(v, "idle")
  /\ UNCHANGED <<client, made, closed, handle, poolVars, queue, fleetVars, rows,
                 serverVars>>

\* The LLM's program is valid, or its rounds of repair are used up, or a round of
\* repair has failed.
Finished(v) ==
  /\ stage[v] = "running"
  /\ \/ http[v] = "ok"
     \/ http[v] = "error" /\ rounds[v] > 0
  /\ Finish(v, "openai")

\* A slip: one round too many.
RepairOnceMore(v) ==
  /\ stage[v] = "running" /\ http[v] = "ok" /\ rounds[v] <= MaxRepairAttempts
  /\ rounds' = [rounds EXCEPT ![v] = @ + 1]
  /\ Http!Begin(v)
  /\ UNCHANGED <<client, made, closed, handle, poolVars, queue, fleetVars, stage,
                 rows, serverVars>>

\* It is not valid: another round, another call.
Repair(v) ==
  /\ stage[v] = "running" /\ http[v] = "ok" /\ rounds[v] < MaxRepairAttempts
  /\ rounds' = [rounds EXCEPT ![v] = @ + 1]
  /\ Http!Begin(v)
  /\ UNCHANGED <<client, made, closed, handle, poolVars, queue, fleetVars, stage,
                 rows, serverVars>>

\* The first call has failed.
FallBack(v) ==
  /\ stage[v] = "running" /\ http[v] = "error" /\ rounds[v] = 0
  /\ Finish(v, "mock-fallback")

Generate(v) == CallLlm(v) \/ Finished(v) \/ Repair(v) \/ FallBack(v)

-----------------------------------------------------------------------------
(* lifespan: the application is shut down, whoever is still at work.  In tests it
   is started again in the same process. *)

CloseClient ==
  /\ ~closing /\ shutdowns < MaxShutdowns
  /\ Http!Close
  /\ closing' = TRUE /\ shutdowns' = shutdowns + 1
  /\ UNCHANGED <<poolVars, queue, fleetVars, stage, rounds, rows>>

\* shutdown_executor: nobody is waited for.
ShutdownExecutor ==
  /\ closing
  /\ down' = IF executor = 0 THEN down ELSE down \cup {executor}
  /\ executor' = 0
  /\ closing' = FALSE
  /\ UNCHANGED <<client, made, closed, http, handle, pools, queue, fleetVars,
                 stage, rounds, rows, shutdowns>>

Next ==
  \/ \E f \in Fleet : Handle(f)
  \/ \E p \in Executors : TakeNext(p)
  \/ \E v \in Vehicles : Generate(v)
  \/ CloseClient \/ ShutdownExecutor

\* Threads run; whether a fleet is sent and the server stopped is left open.
Fairness ==
  /\ \A f \in Fleet : WF_vars(size[f] > 0 /\ Handle(f))
  /\ \A p \in Executors : WF_vars(TakeNext(p))
  /\ \A v \in Vehicles : WF_vars(Generate(v))

Spec == Init /\ [][Next]_vars /\ Fairness

-----------------------------------------------------------------------------
TypeOK ==
  /\ Http!TypeOK
  /\ executor \in 0 .. pools /\ pools \in 0 .. Cardinality(Fleet)
  /\ down \subseteq 1 .. pools
  /\ queue \in [Executors -> Seq(Vehicles)]
  /\ phase \in [Fleet -> {"start", "submit", "collect", "persist", "answered", "failed"}]
  /\ pool \in [Fleet -> 0 .. pools]
  /\ size \in [Fleet -> Sizes \cup {0}]
  /\ next \in [Fleet -> Nat]
  /\ results \in [Fleet -> Seq(Vehicles \X Made)]
  /\ stage \in [Vehicles -> Ended \cup {"none", "queued", "cancelled", "running"}]
  /\ rounds \in [Vehicles -> 0 .. MaxRepairAttempts]
  /\ rows \subseteq Vehicles \X Made
  /\ closing \in BOOLEAN /\ shutdowns \in 0 .. MaxShutdowns

\* Batch fan-out stays bounded however many requests are in flight (the reason for
\* the shared pool): one pool at most takes work, and no more threads work in it
\* than one pool has.
FanOutBounded ==
  /\ 1 .. pools \subseteq down \cup {executor}
  /\ Cardinality({v \in Vehicles : /\ stage[v] = "running"
                                   /\ pool[v[1]] \in 1 .. pools \ down}) <= MaxWorkers

\* However the threads of all pools and handlers race for the HTTP client, and
\* whenever it is closed, one client at most is open and its connections are all
\* the connections there are.
ConnectionsBounded == Http!OneOpenClient /\ Http!ConnectionsBounded

\* Nothing the server shares among its requests outgrows its bound.
ResourcesBounded == FanOutBounded /\ ConnectionsBounded

\* What the fleets see: what came of each vehicle, and the answers.
Outcome == [v \in Vehicles |-> IF stage[v] \in Ended THEN stage[v] ELSE "pending"]
Reply ==
  [f \in Fleet |-> CASE phase[f] \in {"persist", "answered"} -> results[f]
                     [] phase[f] = "failed" -> << <<>> >>
                     [] OTHER -> <<>>]

\* What module Fleets promises is kept: no fleet gets a partial, a mixed or a
\* reordered answer, and the history holds answers only.
Promise == INSTANCE Fleets WITH
  outcome <- Outcome, reply <- Reply, recorded <- rows, stopped <- shutdowns > 0
PromiseKept == Promise!Spec

\* Every fleet that is sent is answered or fails, whatever is closed and shut down
\* under its threads: nobody waits for a thread, a connection or a result for good.
EveryFleetEnds ==
  \A f \in Fleet : size[f] > 0 ~> phase[f] \in {"answered", "failed"}
=============================================================================
