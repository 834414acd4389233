------------------------------ MODULE Validator -----------------------------
(***************************************************************************)
(* The rule-based validator (backend/validator.py).  The code walks the    *)
(* steps once, carrying the set of orders seen and of ECUs unlocked so     *)
(* far; here both are stated for each position of the list.  An issue says *)
(* what is wrong, at which step or ECU, and whether it makes the program   *)
(* invalid ("error") or not ("warning").                                   *)
(***************************************************************************)
EXTENDS Programs

Issue(severity, about, orders, id) ==
  [severity |-> severity, about |-> about, step_order |-> orders, ecu_id |-> id]

\* A program is valid if it has no issue of severity "error".
IsValid(issues) == \A issue \in issues : issue.severity # "error"

Known(spec, step) == step.ecu_id \in EcuIds(spec)

\* A slip: the step's own order already counts as seen.
SeenWithOwn(steps, i, already) == already \cup {steps[j].order : j \in 1..i}

\* seen_orders when the loop checks the dependencies of steps[i].
SeenBefore(steps, i, already) ==
  already \cup {steps[j].order : j \in 1 .. (i - 1)}

\* unlocked when the loop checks steps[i]: a security-access step on an ECU the
\* vehicle has counts from its own position on, supported there or not.
UnlockedAt(spec, steps, i, already) ==
  already \cup {steps[j].ecu_id : j \in {k \in 1..i :
                  steps[k].step_type = "security_access" /\ Known(spec, steps[k])}}

\* The step changes an ECU that offers security access and is still locked.
Locked(spec, step, unlocked) ==
  /\ step.step_type \in Gated
  /\ step.ecu_id \notin unlocked
  /\ "0x27" \in EcuOf(spec, step.ecu_id).supported

Unsupported(spec, step) ==
  step.uds_service \notin {NoService} \cup EcuOf(spec, step.ecu_id).supported

\* What one turn of the loop reports.  A step on an ECU the vehicle does not
\* have is not checked any further.
StepErrors(spec, step, unlocked, seen) ==
  IF ~Known(spec, step)
    THEN {"unknown_ecu"}
    ELSE {about \in {"unsupported_service", "locked", "bad_dependency"} :
            \/ about = "unsupported_service" /\ Unsupported(spec, step)
            \/ about = "locked" /\ Locked(spec, step, unlocked)
            \/ about = "bad_dependency" /\ ~(Range(step.depends_on) \subseteq seen)}

\* The loop over the steps, shared word for word by validate_program (which
\* starts from nothing) and validate_recovery_steps (which is seeded).
StepIssues(spec, steps, unlocked, seen) ==
  UNION {{Issue("error", about, <<steps[i].order>>, steps[i].ecu_id) :
            about \in StepErrors(spec, steps[i],
                                 UnlockedAt(spec, steps, i, unlocked),
                                 SeenBefore(steps, i, seen))} :
          i \in DOMAIN steps}

\* What is missing from the program as a whole is only ever a warning.
CoverageIssues(spec, steps) ==
  LET ecus == Range(spec.ecus)
      Done(types) == {s.ecu_id : s \in {t \in Range(steps) : t.step_type \in types}}
      untouched == {ecu \in ecus : ecu.ecu_id \notin Done(StepTypes)}
      unflashed == {ecu \in ecus :
                      NeedsFlash(ecu) /\ ecu.ecu_id \notin Done({"flash_software"})}
      absent == {type \in {"fault_clear", "validation"} :
                   \A s \in Range(steps) : s.step_type # type}
  IN  {Issue("warning", "uncommissioned", <<>>, ecu.ecu_id) : ecu \in untouched}
      \cup {Issue("warning", "never_flashed", <<>>, ecu.ecu_id) : ecu \in unflashed}
      \cup {Issue("warning", type, <<>>, NoEcu) : type \in absent}

\* The orders of the steps, sorted, are 1, 2, ..., Len(steps).
Contiguous(steps) == Orders(steps) = 1..Len(steps)

\* check_notes_for_unverified_claims
NotesIssues(claims) ==
  IF claims THEN {Issue("warning", "unverified_claim", <<>>, NoEcu)} ELSE {}

\* validate_program
ValidateProgram(spec, program) ==
  LET steps == program.steps
  IN  (IF program.vehicle_id = spec.vehicle_id THEN {}
         ELSE {Issue("error", "other_vehicle", <<>>, NoEcu)})
      \cup
      IF steps = <<>>
        THEN {Issue("error", "no_steps", <<>>, NoEcu)}
        ELSE (IF Contiguous(steps) THEN {}
                ELSE {Issue("warning", "not_contiguous", <<>>, NoEcu)})
             \cup StepIssues(spec, steps, {}, {})
             \cup CoverageIssues(spec, steps)
             \cup NotesIssues(program.claims)

\* validate_recovery_steps
ValidateRecoverySteps(spec, steps, already_unlocked, already_seen_orders) ==
  StepIssues(spec, steps, already_unlocked, already_seen_orders)
=============================================================================
