------------------------------ MODULE MCPipeline -----------------------------
(***************************************************************************)
(* Instances of Pipeline.  The planner is run on every vehicle with one    *)
(* ECU over the services it knows, and on pairs of ECUs; an LLM is asked   *)
(* for one vehicle and may answer any of a set of small programs.  With    *)
(* MaxDependsOn = 10 a plan for two ECUs always fits the schema, and one   *)
(* for three need not.                                                     *)
(***************************************************************************)
EXTENDS Pipeline, TLC

MCEcu(id, target, supported) ==
  [ecu_id |-> id, installed |-> "v1", target |-> target, supported |-> supported]

Vehicle(ecus) == [vehicle_id |-> "V", ecus |-> ecus]

Call(spec, provider, model) ==
  [spec |-> spec, provider |-> provider, model_file |-> model]

Services == {"0x10", "0x27", "0x34", "0x2E", "0x22", "0x31", "0x14"}
MCVersions == {"v1", "v2"}

SingleEcus == {MCEcu("A", target, S) : target \in MCVersions, S \in SUBSET Services}

\* Everything, or what leaves a step of the plan out.
Equipment == {{"0x10", "0x27", "0x34", "0x36", "0x2E", "0x22", "0x31", "0x14"},
              {"0x27", "0x36", "0x22"}, {"0x10", "0x2E", "0x31"}, {}}
Pairs == {<<MCEcu("A", t[1], S), MCEcu(id, t[2], T)>> :
            t \in MCVersions \X MCVersions, id \in {"A", "B"},
            S \in Equipment, T \in {{"0x27", "0x36"}, {"0x34", "0x22"}, {}}}

\* Ten steps fit the bound on dependencies exactly, fifteen do not.
Full(id) == MCEcu(id, "v2", {"0x10", "0x27", "0x34", "0x2E"})
LargeVehicles == {Vehicle(<<Full("A"), Full("B")>>),
                  Vehicle(<<Full("A"), Full("B"), Full("C")>>)}

\* A plan of five steps, for a model file that changes meanwhile.
Unlocked == Vehicle(<<MCEcu("A", "v2", {"0x27", "0x34"})>>)

PlanCalls ==
  {Call(Vehicle(<<ecu>>), "mock", m) : ecu \in SingleEcus, m \in {"absent", "trained"}}
  \cup {Call(Vehicle(ecus), "mock", "trained") : ecus \in Pairs}
  \cup {Call(Vehicle(<<>>), "mock", m) : m \in ModelFiles}
  \cup {Call(v, "mock", m) : v \in LargeVehicles, m \in {"absent", "trained"}}
  \cup {Call(Unlocked, "mock", "changing")}

\* Durations that make the schedule depend on the planned dependencies: an
\* unlock takes longer than anything else, at first.
MCLearned ==
  [m \in Trainings |-> [t \in StepTypes |-> [v \in MCVersions \cup {NoVersion} |->
     CASE t = "security_access" -> IF m = "first" THEN 90 ELSE 2
       [] t = "flash_software" -> IF v = NoVersion THEN 5 ELSE 20
       [] OTHER -> IF m = "first" THEN 10 ELSE 40]]]

\* A needs unlocking before it is flashed or written, B does not.
A == MCEcu("A", "v2", {"0x10", "0x27", "0x34", "0x2E", "0x14"})
B == MCEcu("B", NoVersion, {"0x10", "0x34", "0x22"})
\* A vehicle without ECUs leaves nothing to fall back on that is valid.
LlmCalls == {Call(Vehicle(<<A, B>>), "openai", m) : m \in {"absent", "trained", "corrupt"}}
              \cup {Call(v, "openai", "absent") : v \in {Vehicle(<<>>)} \cup LargeVehicles}
              \cup {Call(Unlocked, "openai", "changing")}

MCCalls == PlanCalls \cup LlmCalls

Kinds == { <<"security_access", "A", "0x27">>, <<"flash_software", "A", "0x34">>,
           <<"flash_software", "B", "0x34">>, <<"write_parameter", "A", "0x2E">>,
           <<"write_parameter", "B", "0x2E">>, <<"validation", "Z", NoService>> }

MCStep(kind, order, deps) ==
  [order |-> order, step_type |-> kind[1], ecu_id |-> kind[2], uds_service |-> kind[3],
   estimated_seconds |-> 7, depends_on |-> deps]

Answer(steps, notes, claims) ==
  [vehicle_id |-> "V", steps |-> steps, notes |-> notes, claims |-> claims]

DepLists == {<<>>, <<1>>, <<2, 1>>}
OrderLists == {<<1, 2>>, <<2, 1>>, <<1, 1>>, <<1, 3>>}

FirstAnswers ==
  {Answer([i \in 1..2 |-> MCStep(k[i], o[i], d[i])], 0, FALSE) :
     k \in Kinds \X Kinds, o \in OrderLists, d \in DepLists \X DepLists}

\* The same pair of steps in good and bad order, a plan that claims a
\* certificate, notes at and over the bound, another vehicle, nothing at all.
Unlock(o) == MCStep(<<"security_access", "A", "0x27">>, o, <<>>)
Flash(o, deps) == MCStep(<<"flash_software", "A", "0x34">>, o, deps)
LaterAnswers ==
  { Answer(<<Unlock(1), Flash(2, <<1>>)>>, 0, FALSE),
    Answer(<<Flash(1, <<>>), Unlock(2)>>, 40, TRUE),
    Answer(<<Unlock(1), Flash(2, <<3>>), Unlock(3)>>, 40, FALSE),
    Answer(<<Unlock(1), Flash(2, <<1>>), Flash(2, <<>>)>>, MaxNotes, FALSE),
    Answer(<<Unlock(1)>>, MaxNotes, TRUE),
    Answer(<<Unlock(1)>>, MaxNotes + 1, FALSE),
    Answer(<<>>, 0, FALSE),
    [Answer(<<Unlock(1)>>, 0, FALSE) EXCEPT !.vehicle_id = "W"] }

MCAnswers == 0 :> (FirstAnswers \cup LaterAnswers) @@ 1 :> LaterAnswers @@ 2 :> LaterAnswers

\* A short failure, and a validation error that quotes a long answer back.
MCErrors == {[length |-> 40, claims |-> FALSE], [length |-> 9900, claims |-> TRUE]}
=============================================================================
