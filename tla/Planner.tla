------------------------------- MODULE Planner ------------------------------
(***************************************************************************)
(* The deterministic offline planner, MockProvider.generate_program of     *)
(* backend/llm_service.py: the provider used when no LLM is configured and *)
(* the one every failed LLM call falls back on.                            *)
(***************************************************************************)
EXTENDS Programs, SequencesExt

\* TIME_BUDGET, in tenths of a second.
TimeBudget == [diagnostic_session |-> 30, security_access |-> 40,
               flash_software |-> 450, write_parameter |-> 60,
               validation |-> 80, fault_clear |-> 50]

PlanStep(order, step_type, id, uds, depends_on) ==
  [order |-> order, step_type |-> step_type, ecu_id |-> id, uds_service |-> uds,
   estimated_seconds |-> TimeBudget[step_type], depends_on |-> depends_on]

\* A slip: the preferred service is used whether the ECU has it or not.
Preferred(ecu, services) == services[1]

\* The first service of the list that the ECU supports, or none.
FirstSupported(ecu, services) ==
  LET offered == {i \in DOMAIN services : services[i] \in ecu.supported}
  IN  IF offered = {} THEN NoService
      ELSE services[CHOOSE i \in offered : \A j \in offered : i <= j]

\* What the planner wants of an ECU: a session, to unlock, flash and write it, each
\* if the ECU offers the service it needs, and a validation if there is a session
\* or a change to validate.
Wanted(ecu, type) ==
  LET S == ecu.supported
      flashes == NeedsFlash(ecu) /\ {"0x34", "0x36"} \cap S # {}
  IN  CASE type = "diagnostic_session" -> "0x10" \in S
        [] type = "security_access" -> "0x27" \in S /\ (NeedsFlash(ecu) \/ "0x2E" \in S)
        [] type = "flash_software" -> flashes
        [] type = "write_parameter" -> "0x2E" \in S
        [] type = "validation" -> "0x10" \in S \/ flashes \/ "0x2E" \in S

\* The steps planned for an ECU, in this order.
Planned(ecu) ==
  LET Maybe(type) == IF Wanted(ecu, type) THEN <<type>> ELSE <<>>
  IN  Maybe("diagnostic_session") \o Maybe("security_access") \o Maybe("flash_software")
        \o Maybe("write_parameter") \o Maybe("validation")

\* The services a step of each type would use, the preferred one first.
ServicesFor(type) ==
  CASE type = "diagnostic_session" -> <<"0x10">>
    [] type = "security_access" -> <<"0x27">>
    [] type = "flash_software" -> <<"0x34", "0x36">>
    [] type = "write_parameter" -> <<"0x2E">>
    [] type = "validation" -> <<"0x22", "0x31">>

\* A slip: flashing and writing wait for the session only.
PrereqSessionOnly(planned, i) ==
  IF i > 1 /\ planned[1] = "diagnostic_session" THEN <<1>> ELSE <<>>

\* The positions the i-th planned step waits for.  The code's "last write, else
\* unlock, else session" is the step planned before it; validation waits for
\* the last change and for the session, the ones there are.
Prereq(planned, i) ==
  LET changes == {j \in DOMAIN planned : planned[j] \in Gated}
      Maybe(b, j) == IF b THEN <<j>> ELSE <<>>
  IN  IF planned[i] # "validation" THEN Maybe(i > 1, i - 1)
      ELSE Maybe(changes # {}, i - 1)
             \o Maybe(planned[1] = "diagnostic_session", 1)

\* The steps planned for one ECU when n steps are planned already.
EcuSteps(ecu, n) ==
  LET planned == Planned(ecu)
  IN  [i \in DOMAIN planned |->
         PlanStep(n + i, planned[i], ecu.ecu_id,
                  FirstSupported(ecu, ServicesFor(planned[i])),
                  [k \in DOMAIN Prereq(planned, i) |-> n + Prereq(planned, i)[k]])]

\* The first ECU that supports the service, or else the first of all.
FirstWith(ecus, service) ==
  LET having == {i \in DOMAIN ecus : service \in ecus[i].supported}
  IN  IF having = {} THEN ecus[1]
      ELSE ecus[CHOOSE i \in having : \A j \in having : i <= j]

\* A slip: the step counts itself among the steps before it.
ClearPrereqWithItself(n) == [i \in 1..(n + 1) |-> i]

\* What the fault-clear step waits for: everything planned before it.
ClearPrereq(n) == [i \in 1..n |-> i]

\* The closing steps of a plan of n steps: clear fault memory, then validate
\* the vehicle.
ClosingSteps(ecus, n) ==
  LET clear == FirstWith(ecus, "0x14")
      final == IF \E i \in DOMAIN ecus : "0x31" \in ecus[i].supported
                 THEN FirstWith(ecus, "0x31") ELSE FirstWith(ecus, "0x22")
  IN  << PlanStep(n + 1, "fault_clear", clear.ecu_id,
                  FirstSupported(clear, <<"0x14">>), ClearPrereq(n)),
         PlanStep(n + 2, "validation", final.ecu_id,
                  FirstSupported(final, <<"0x31", "0x22">>), <<n + 1>>) >>

\* The number of steps planned for the ECUs before the i-th.
PlannedBefore(ecus, i) ==
  Cardinality(UNION {{j} \X DOMAIN Planned(ecus[j]) : j \in 1 .. (i - 1)})

\* The length of the notes every plan carries.
PlannerNote == 119

\* The schema has room for them.
ASSUME NotesAssumption == PlannerNote <= MaxNotes

\* MockProvider().generate_program(spec)
MockPlan(spec) ==
  LET ecus == spec.ecus
      steps == FlattenSeq([i \in DOMAIN ecus |->
                             EcuSteps(ecus[i], PlannedBefore(ecus, i))])
  IN  [vehicle_id |-> spec.vehicle_id,
       steps |-> steps \o (IF steps = <<>> THEN <<>>
                             ELSE ClosingSteps(ecus, Len(steps))),
       notes |-> PlannerNote, claims |-> FALSE]
=============================================================================
