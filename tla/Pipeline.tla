------------------------------- MODULE Pipeline -----------------------------
(***************************************************************************)
(* POST /api/generate: the generation pipeline (run_pipeline of            *)
(* backend/generator.py) for one request, followed by the export of its    *)
(* answer (POST /api/export/otx and /csv of backend/main.py).              *)
(*                                                                         *)
(* The LLM behind a real provider and the file of the duration model are   *)
(* the environment: a call returns any program of Answers or fails, and    *)
(* the file may change.  Everything else is deterministic.                 *)
(***************************************************************************)
EXTENDS Validator, Planner, Reports, Bench

CONSTANTS
  Calls,              \* requests: [spec, provider, model_file]
  Answers,            \* Answers[n]: what an LLM may return in repair round n
  Errors,             \* failures of an LLM call: [length, claims] of the text
  MaxRepairAttempts,  \* MAX_REPAIR_ATTEMPTS
  Versions,           \* software versions
  Learned             \* Learned[training][step_type][target]: the model's seconds

\* "openrouter" is handled exactly like "openai".
Providers == {"mock", "openai"}

\* The trained duration model's file while the durations are applied: missing,
\* good, not to be parsed, or retrained, rewritten or removed meanwhile.
ModelFiles == {"absent", "trained", "corrupt", "changing"}

\* The model as it was trained, and as it is trained anew.
Trainings == {"first", "second"}

ASSUME PipelineAssumption ==
  /\ MaxRepairAttempts \in Nat
  /\ DOMAIN Answers = 0 .. MaxRepairAttempts
  /\ Errors \subseteq [length : Nat, claims : BOOLEAN]
  /\ \A n \in DOMAIN Answers : Answers[n] \subseteq Program
  /\ \A c \in Calls :
       /\ c.spec \in VehicleSpec /\ c.provider \in Providers /\ c.model_file \in ModelFiles
       /\ \A i \in DOMAIN c.spec.ecus : c.spec.ecus[i].target \in Versions \cup {NoVersion}
  /\ Learned \in [Trainings -> [StepTypes -> [Versions \cup {NoVersion} -> Nat]]]

VARIABLES call,             \* the request being served
          pc,               \* where run_pipeline stands
          program,          \* the current program
          issues,           \* what the validator said about it
          provider_name,    \* who made it
          repair_attempts,  \* rounds of self-repair so far
          failure,          \* the error that made it fall back, if any
          export            \* what became of exporting the answer

vars == <<call, pc, program, issues, provider_name, repair_attempts, failure, export>>

NoProgram == [vehicle_id |-> "none", steps |-> <<>>, notes |-> 0, claims |-> FALSE]
NoFailure == [length |-> 0, claims |-> FALSE]

Init ==
  /\ call \in Calls
  /\ pc = "generate"
  /\ program = NoProgram
  /\ issues = {}
  /\ provider_name = "none"
  /\ repair_attempts = 0
  /\ failure = NoFailure
  /\ export = [result |-> "none", steps |-> <<>>]

-----------------------------------------------------------------------------
(* The providers                                                           *)

\* A slip: the plan of the fallback is sent to the LLM for repair.
RepairFallbackToo(by, found, attempts) ==
  IF ~IsValid(found) /\ by # "mock" /\ attempts < MaxRepairAttempts
    THEN "repair" ELSE "notes"

\* A slip: the program is polished whether it has errors or not.
RepairValidToo(by, found, attempts) ==
  IF by \notin {"mock", "mock-fallback"} /\ attempts < MaxRepairAttempts
    THEN "repair" ELSE "notes"

\* Where a freshly validated program goes: only a real provider's is repaired.
AfterValidation(by, found, attempts) ==
  IF ~IsValid(found) /\ by \notin {"mock", "mock-fallback"}
       /\ attempts < MaxRepairAttempts
    THEN "repair" ELSE "notes"

\* Adopt a program and validate it.
Adopt(new, by, attempts) ==
  /\ program' = new
  /\ issues' = ValidateProgram(call.spec, new)
  /\ provider_name' = by
  /\ repair_attempts' = attempts
  /\ pc' = AfterValidation(by, issues', attempts)

\* The deterministic planner, either chosen or fallen back on.  Its plan goes
\* through the schema too, and nothing is left to fall back on if that refuses.
Plan(by) ==
  \E plan \in {MockPlan(call.spec)} :
    IF SchemaValid(plan)
      THEN Adopt(plan, by, 0)
      ELSE pc' = "failed" /\ UNCHANGED <<program, issues, provider_name, repair_attempts>>

GenerateMock ==
  /\ pc = "generate"
  /\ call.provider = "mock"
  /\ Plan("mock")
  /\ UNCHANGED <<call, failure, export>>

\* The LLM answers with JSON the schema accepts.
GenerateOk ==
  /\ pc = "generate"
  /\ call.provider # "mock"
  /\ \E answer \in Answers[0] : Adopt(answer, call.provider, 0) /\ SchemaValid(answer)
  /\ UNCHANGED <<call, failure, export>>

\* The call times out, is refused, or returns what does not parse.
GenerateFails ==
  /\ pc = "generate"
  /\ call.provider # "mock"
  /\ \E e \in Errors : failure' = e
  /\ Plan("mock-fallback")
  /\ UNCHANGED <<call, export>>

\* A slip: what the LLM returns as corrected is taken to be so.
RepairedUnchecked(new) ==
  /\ program' = new
  /\ issues' = {}
  /\ repair_attempts' = repair_attempts + 1
  /\ pc' = "notes"
  /\ UNCHANGED provider_name

\* A slip: only rounds that resolved everything are counted.
RepairedUncounted(new) == Adopt(new, provider_name, repair_attempts)

\* One round of self-repair: the LLM sees the program and the findings and
\* returns another program, which replaces the first whatever it is like.
Repaired(new) == Adopt(new, provider_name, repair_attempts + 1)

RepairOk ==
  /\ pc = "repair"
  /\ \E answer \in Answers[repair_attempts + 1] : Repaired(answer) /\ SchemaValid(answer)
  /\ UNCHANGED <<call, failure, export>>

\* A failed round ends the loop; the last validated program stays.
RepairFails ==
  /\ pc = "repair"
  /\ repair_attempts' = repair_attempts + 1
  /\ pc' = "notes"
  /\ UNCHANGED <<call, program, issues, provider_name, failure, export>>

-----------------------------------------------------------------------------
(* Notes, durations and schedule                                           *)

\* The lengths of the sentences the pipeline adds to the notes ("openai" being
\* the provider named in them).
FallbackNote(e) == 78 + e.length
RepairNote(valid) == IF valid THEN 86 ELSE 94
DurationsNote == 73

\* " ".join of two notes; nothing is joined to an empty one.
Join(notes, more) ==
  IF notes = 0 THEN more ELSE IF more = 0 THEN notes ELSE notes + 1 + more

\* The findings are not recomputed for the longer notes.
AppendNotes ==
  /\ pc = "notes"
  /\ LET fallback == IF provider_name = "mock-fallback" THEN FallbackNote(failure) ELSE 0
         repair == IF repair_attempts > 0 THEN RepairNote(IsValid(issues)) ELSE 0
     IN  program' = [program EXCEPT !.notes = Join(Join(@, fallback), repair),
                                    !.claims = @ \/ failure.claims]
  /\ pc' = "durations"
  /\ UNCHANGED <<call, issues, provider_name, repair_attempts, failure, export>>

\* What _load_model may find for a step: module DurationModel shows how.
Models ==
  CASE call.model_file = "trained" -> {"first"}
    [] call.model_file = "changing" -> {"none"} \cup Trainings
    [] OTHER -> {}

\* predict_seconds for a step, which is left as it is if there is no model any
\* more; an unknown ECU has no target version.
WithLearnedDuration(step, model) ==
  LET target == IF Known(call.spec, step) THEN EcuOf(call.spec, step.ecu_id).target
                                          ELSE NoVersion
  IN  IF model = "none" THEN step
      ELSE [step EXCEPT !.estimated_seconds = Learned[model][step.step_type][target]]

\* A step to predict, and a model file that does not parse, or goes away after it
\* was seen or before the prediction is made.
ModelRaises == call.model_file \in {"corrupt", "changing"} /\ program.steps # <<>>

\* _apply_learned_durations: it raises, or finds no file, or sets the durations
\* one by one.
ApplyDurations ==
  /\ pc = "durations"
  /\ \/ ModelRaises /\ pc' = "failed" /\ UNCHANGED program
     \/ call.model_file \in {"absent", "changing"} /\ pc' = "schedule" /\ UNCHANGED program
     \/ /\ call.model_file # "absent"
        /\ \E model \in [DOMAIN program.steps -> Models] :
             program' = [program EXCEPT
                           !.steps = [i \in DOMAIN @ |-> WithLearnedDuration(@[i], model[i])],
                           !.notes = Join(@, DurationsNote)]
        /\ pc' = "schedule"
  /\ UNCHANGED <<call, issues, provider_name, repair_attempts, failure, export>>

Unschedulable == Issue("error", "unschedulable", <<>>, NoEcu)

\* The optimization in the answer: the critical-path result, zeroed for a program
\* that cannot be scheduled.
Optimization ==
  IF Schedulable(program.steps) THEN ComputeOptimization(program.steps)
  ELSE [ComputeOptimization(<<>>) EXCEPT !.sequential = SequentialSeconds(program.steps)]

\* compute_optimization, and the answer.  A program that cannot be scheduled
\* gets an error of its own.
Schedule ==
  /\ pc = "schedule"
  /\ issues' = IF Schedulable(program.steps) THEN issues ELSE issues \cup {Unschedulable}
  /\ pc' = "answered"
  /\ UNCHANGED <<call, program, provider_name, repair_attempts, failure, export>>

-----------------------------------------------------------------------------
(* The export of the answered program, sent back with the same spec        *)

\* sorted(program.steps, key = order), which keeps equal orders as listed.
ByOrder(steps) ==
  LET Before(i, j) == \/ steps[i].order < steps[j].order
                      \/ steps[i].order = steps[j].order /\ i < j
      Rank(i) == Cardinality({j \in DOMAIN steps : Before(j, i)}) + 1
  IN  [n \in DOMAIN steps |-> steps[CHOOSE i \in DOMAIN steps : Rank(i) = n]]

\* to_otx_xml lists the steps as they are, to_csv by their order.
Document(format, steps) == IF format = "csv" THEN ByOrder(steps) ELSE steps

\* A slip: every program that has steps is exported.
GateOpen == program.steps # <<>>

\* The export does not take the client's word for it.
Gate == IsValid(ValidateProgram(call.spec, program))

Export ==
  /\ pc = "answered"
  /\ export.result = "none"
  /\ \E format \in {"otx", "csv"} :
       export' =
         CASE ~SchemaValid(program) -> [result |-> "unprocessable", steps |-> <<>>]
           [] SchemaValid(program) /\ ~Gate -> [result |-> "refused", steps |-> <<>>]
           [] OTHER -> [result |-> format, steps |-> Document(format, program.steps)]
  /\ UNCHANGED <<call, pc, program, issues, provider_name, repair_attempts, failure>>

Serve == GenerateMock \/ GenerateOk \/ GenerateFails \/ RepairOk \/ RepairFails
           \/ AppendNotes \/ ApplyDurations \/ Schedule

Next == Serve \/ Export

\* A call to an LLM returns or times out (llm_timeout), so the request is
\* served to its end; whether the client exports the answer is up to it.
Spec == Init /\ [][Next]_vars /\ WF_vars(Serve)

-----------------------------------------------------------------------------
(* What the pipeline promises                                              *)

PlanNames == {"mock", "mock-fallback"}

TypeOK ==
  /\ call.provider \in Providers /\ call.model_file \in ModelFiles
  /\ pc \in {"generate", "repair", "notes", "durations", "schedule", "answered", "failed"}
  /\ program \in Program \cup {NoProgram}
  /\ \A issue \in issues : issue.severity \in {"error", "warning"}
  /\ provider_name \in PlanNames \cup Providers \cup {"none"}
  /\ repair_attempts \in 0 .. MaxRepairAttempts
  /\ pc = "repair" => provider_name \notin PlanNames /\ repair_attempts < MaxRepairAttempts
  /\ failure \in Errors \cup {NoFailure}
  /\ export.result \in {"none", "otx", "csv", "refused", "unprocessable"}

\* The verdict in the answer, taken before the notes and the durations were
\* changed and over several rounds of repair, is the verdict on the program in
\* the answer: validating that again finds an error, or it cannot be scheduled,
\* exactly if the answer says so.
VerdictStillHolds ==
  pc = "answered" =>
    (IsValid(issues) <=> /\ IsValid(ValidateProgram(call.spec, program))
                         /\ Schedulable(program.steps))

\* The program as a list is in the order of its numbers.
Ascending(steps) ==
  \A i, j \in DOMAIN steps : i < j => steps[i].order < steps[j].order

\* What is answered as valid, and what is exported whatever was answered, runs on
\* the bench: no locked ECU is changed, no service is missing, and no step comes
\* before what it depends on.  Work instructions (CSV), which follow the numbers
\* and not the list, do so only where the two agree.  And an answer is too long to
\* be exported only through what the pipeline itself has added to its notes.
DeliveredProgramsRun ==
  /\ pc = "answered" /\ IsValid(issues) => BenchRuns(call.spec, program.steps)
  /\ (\/ export.result = "otx"
      \/ export.result = "csv" /\ Ascending(program.steps)) =>
       BenchRuns(call.spec, export.steps)
  /\ export.result = "unprocessable" =>
       \/ provider_name = "mock-fallback"
       \/ repair_attempts > 0
       \/ call.model_file # "absent"

\* The gate of the export, which validates but does not schedule, lets through
\* what the pipeline called invalid in one case only, repeated orders, and
\* never refuses what the pipeline called valid.
ExportGateAgrees ==
  /\ export.result \in {"otx", "csv"} /\ ~IsValid(issues) =>
       ~DistinctOrders(program.steps)
  /\ export.result = "refused" => ~IsValid(issues)

UniqueEcus(spec) ==
  \A i, j \in DOMAIN spec.ecus : spec.ecus[i].ecu_id = spec.ecus[j].ecu_id => i = j

\* Some ECU offers a service the planner has a step for.
Plannable(spec) ==
  \E ecu \in Range(spec.ecus) :
    \/ {"0x10", "0x2E"} \cap ecu.supported # {}
    \/ NeedsFlash(ecu) /\ {"0x27", "0x34", "0x36"} \cap ecu.supported # {}

\* The planner never produces an invalid program (llm_service.py:596), for any
\* mix of ECUs and services it can plan something for, with learned durations
\* or without: two independent rule sets, planner and validator, agree.
MockNeverInvalid ==
  pc = "answered" /\ provider_name \in PlanNames
    /\ UniqueEcus(call.spec) /\ Plannable(call.spec) => IsValid(issues)

\* In the parallel schedule of a plan, which only the planned dependencies
\* keep in order, an ECU is unlocked before it is flashed or written, flashed
\* before it is written, changed before it is validated, and the fault memory
\* is cleared after all of that and before the final validation.
MockScheduleSafe ==
  pc = "answered" /\ provider_name \in PlanNames /\ UniqueEcus(call.spec) =>
    LET steps == program.steps
        N == Len(steps)
        ends == Optimization.ends
        End(i) == ends[steps[i].order]
        Before(i, j) == End(i) <= End(j) - steps[j].estimated_seconds
        Is(i, type) == steps[i].step_type = type
        Same(i, j) == steps[i].ecu_id = steps[j].ecu_id
    IN  /\ \A j \in 1..N :
             steps[j].step_type \in Gated
               /\ "0x27" \in EcuOf(call.spec, steps[j].ecu_id).supported =>
             \E i \in 1..N : Is(i, "security_access") /\ Same(i, j) /\ Before(i, j)
        /\ \A i, j \in 1..N : Same(i, j) =>
             /\ Is(i, "flash_software") /\ Is(j, "write_parameter") => Before(i, j)
             /\ steps[i].step_type \in Gated /\ Is(j, "validation") => Before(i, j)
        /\ \A i, j \in 1..N : Is(j, "fault_clear") =>
             /\ i < j => Before(i, j)
             /\ i > j => Before(j, i)

\* The offline planner keeps both promises: its plans are valid as lists, and safe
\* when their steps are run in parallel.
MockPlansSound == MockNeverInvalid /\ MockScheduleSafe

\* The analytics agree with what validator and scheduler, which count for
\* themselves, say of the same program: no more ECUs are covered than there are
\* (issue #23); all of them are, if anything is done at all, exactly if the
\* validator misses none; every step is of one type; and what is counted as parallelisable can start at once.
AnalyticsAgree ==
  pc = "answered" =>
    LET analytics == AnalyseProgram(call.spec, program)
        types == analytics.steps_by_type
        ends == Optimization.ends
    IN  /\ analytics.ecus_covered <= analytics.ecus_total
        /\ UniqueEcus(call.spec) /\ program.steps # <<>> =>
             (analytics.ecus_covered = analytics.ecus_total
                <=> \A issue \in issues : issue.about # "uncommissioned")
        /\ MapThenSumSet(LAMBDA t : types[t], DOMAIN types) = analytics.total_steps
        /\ Schedulable(program.steps) =>
             \A i \in Parallelisable(program.steps) :
               ends[program.steps[i].order] = program.steps[i].estimated_seconds

\* What the validator looks at in a program.
Checked(prog) ==
  [vehicle_id |-> prog.vehicle_id,
   steps |-> [i \in DOMAIN prog.steps |-> [prog.steps[i] EXCEPT !.estimated_seconds = 0]]]

\* What a step may do to the program: after the first answer, what was validated
\* changes only in a round of repair of a real provider's invalid program, and is
\* validated again in that round; rounds are counted one by one.
ProgramStep ==
  /\ pc # "generate" /\ Checked(program') # Checked(program) =>
       /\ pc = "repair" /\ ~IsValid(issues) /\ provider_name \notin PlanNames
       /\ repair_attempts' = repair_attempts + 1
       /\ issues' = ValidateProgram(call.spec, program')
  /\ repair_attempts' # repair_attempts => repair_attempts' = repair_attempts + 1

\* Every step keeps to that: nobody edits a validated program behind the
\* validator's back.
RepairDiscipline == [][ProgramStep]_vars

\* The product never hard-fails (llm_service.py:24), whatever the LLM does, up to
\* the size of vehicle the bound on dependencies leaves room for (200 ECUs): the
\* plan to fall back on, whose fault-clear step waits for up to five steps per
\* ECU, passes the schema, and with a model file that is good or missing the
\* request is not lost on the way from there.
SmallVehiclesAnswered ==
  5 * Len(call.spec.ecus) <= MaxDependsOn /\ call.model_file \in {"absent", "trained"}
    => pc # "failed"

\* Every request is answered in the end: repair is bounded.
AlwaysAnswers == <>(pc \in {"answered", "failed"})
=============================================================================
