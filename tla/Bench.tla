-------------------------------- MODULE Bench -------------------------------
(***************************************************************************)
(* What the rules of the validator are there for: a test bench that runs   *)
(* steps one by one as they are listed.  It has the vehicle's ECUs,        *)
(* remembers which are unlocked and which steps are done, and stops for    *)
(* good at a step it cannot carry out.  The program has no such bench; the *)
(* properties measure the validator's verdicts by it.                      *)
(***************************************************************************)
EXTENDS Programs, SequencesExt

FreshBench == [runs |-> TRUE, done |-> {}, unlocked |-> {}]

\* The ECU is there and answers the service, what the step builds on is done,
\* and what it changes is unlocked where it can be locked.
Possible(spec, bench, step) ==
  LET ecu == EcuOf(spec, step.ecu_id)
  IN  /\ step.ecu_id \in EcuIds(spec)
      /\ step.uds_service \in ecu.supported \cup {NoService}
      /\ Range(step.depends_on) \subseteq bench.done
      /\ \/ step.step_type \notin Gated
         \/ "0x27" \notin ecu.supported
         \/ step.ecu_id \in bench.unlocked

AfterStep(spec, bench, step) ==
  IF ~bench.runs \/ ~Possible(spec, bench, step)
    THEN [bench EXCEPT !.runs = FALSE]
    ELSE [bench EXCEPT !.done = @ \cup {step.order},
                       !.unlocked = @ \cup {id \in {step.ecu_id} :
                                              step.step_type = "security_access"}]

\* The bench after it has run, or tried to run, the steps.
BenchAfter(spec, bench, steps) ==
  LET Run(state, step) == AfterStep(spec, state, step)
  IN  FoldLeft(Run, bench, steps)

\* A new vehicle goes through all of the steps.
BenchRuns(spec, steps) == BenchAfter(spec, FreshBench, steps).runs
=============================================================================
