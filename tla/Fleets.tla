-------------------------------- MODULE Fleets --------------------------------
(***************************************************************************)
(* What POST /api/batch promises, whatever threads and pools it uses:      *)
(* every vehicle of a fleet gets the program it would get alone, in the    *)
(* order in which the vehicles were sent, or the fleet fails as a whole;   *)
(* and the history holds nothing that was not part of an answer.           *)
(***************************************************************************)
EXTENDS Integers, Sequences

CONSTANTS
  Fleet,   \* the fleets
  Sizes,   \* how many vehicles one may have
  Fails    \* Fails[v]: when vehicle v = <<f, i>> cannot be served: "never", if
           \* the LLM fails ("plan"), or "always"

VARIABLES
  size,      \* the vehicles of each fleet, 0 before it is sent
  outcome,   \* what came of generating for a vehicle: who made its program
  reply,     \* the answer to a fleet: its vehicles with their outcomes
  recorded,  \* the rows in the history
  stopped    \* whether the server was ever shut down

fleetVars == <<size, outcome, reply, recorded, stopped>>

Vehicles == Fleet \X UNION {1 .. n : n \in Sizes}
InFleet(f) == {<<f, i>> : i \in 1 .. size[f]}

Pending == <<>>
Failed == << <<>> >>   \* no vehicle's outcome: told apart from every answer

Init ==
  /\ size = [f \in Fleet |-> 0]
  /\ outcome = [v \in Vehicles |-> "pending"]
  /\ reply = [f \in Fleet |-> Pending]
  /\ recorded = {}
  /\ stopped = FALSE

Send(f) ==
  /\ size[f] = 0
  /\ \E n \in Sizes : size' = [size EXCEPT ![f] = n]
  /\ UNCHANGED <<outcome, reply, recorded, stopped>>

\* The pipeline serves a vehicle, and fails only where nothing is left to fall
\* back on.
Serve(v) ==
  /\ v \in InFleet(v[1]) /\ outcome[v] = "pending"
  /\ \E by \in {"openai", "mock-fallback", "raised"} :
       /\ by = "raised" => Fails[v] # "never"
       /\ by = "mock-fallback" => Fails[v] = "never"
       /\ by = "openai" => Fails[v] # "always"
       /\ outcome' = [outcome EXCEPT ![v] = by]
  /\ UNCHANGED <<size, reply, recorded, stopped>>

Served(v) == outcome[v] \in {"openai", "mock-fallback"}

Answer(f) ==
  /\ size[f] > 0 /\ reply[f] = Pending
  /\ \A v \in InFleet(f) : Served(v)
  /\ reply' = [reply EXCEPT ![f] = [i \in 1 .. size[f] |-> <<<<f, i>>, outcome[<<f, i>>]>>]]
  /\ UNCHANGED <<size, outcome, recorded, stopped>>

\* A fleet fails for one of its vehicles, or because the server goes down under
\* it; a single vehicle needs no pool and is served even then.
Fail(f) ==
  /\ reply[f] = Pending
  /\ \/ \E v \in InFleet(f) : outcome[v] = "raised"
     \/ stopped /\ size[f] > 1
  /\ reply' = [reply EXCEPT ![f] = Failed]
  /\ UNCHANGED <<size, outcome, recorded, stopped>>

Record(f) ==
  /\ reply[f] \notin {Pending, Failed}
  /\ \E i \in 1 .. size[f] : recorded' = recorded \cup {reply[f][i]}
  /\ UNCHANGED <<size, outcome, reply, stopped>>

Stop == stopped' = TRUE /\ UNCHANGED <<size, outcome, reply, recorded>>

Next ==
  \/ \E v \in Vehicles : Serve(v)
  \/ \E f \in Fleet : Send(f) \/ Answer(f) \/ Fail(f) \/ Record(f)
  \/ Stop

Spec == Init /\ [][Next]_fleetVars
=============================================================================
