-------------------------------- MODULE Reports --------------------------------
(***************************************************************************)
(* What is computed from programs to be read by people: the analytics in   *)
(* an answer (analyse_program of backend/analytics.py) and the comparison  *)
(* of two programs (diff_programs of backend/diff.py).                     *)
(***************************************************************************)
EXTENDS Scheduler

\* A slip: ECUs the vehicle does not have count as covered too.
CoveredAnyEcu(spec, steps) == {step.ecu_id : step \in Range(steps)}

\* The ECUs of the vehicle that some step touches.
Covered(spec, steps) == {step.ecu_id : step \in Range(steps)} \cap EcuIds(spec)

\* Steps that wait for no other.
Parallelisable(steps) == {i \in DOMAIN steps : steps[i].depends_on = <<>>}

AnalyseProgram(spec, program) ==
  LET steps == program.steps
      types == {step.step_type : step \in Range(steps)}
  IN  [total_steps |-> Len(steps),
       estimated_cycle_time |-> SequentialSeconds(steps),
       steps_by_type |-> [t \in types |-> Cardinality({i \in DOMAIN steps : steps[i].step_type = t})],
       ecus_covered |-> Cardinality(Covered(spec, steps)),
       ecus_total |-> Len(spec.ecus),
       parallelisable_steps |-> Cardinality(Parallelisable(steps))]

-----------------------------------------------------------------------------
\* by_order_a[order], by_order_b[order]: of equal orders the last one stays.
LastAt(steps, order) == steps[Max({i \in DOMAIN steps : steps[i].order = order})]

\* Steps are matched by their order; descriptions, which are compared too, are
\* left out.
Modified(a, b) ==
  {o \in Orders(a) \cap Orders(b) : LastAt(a, o) # LastAt(b, o)}

\* diff_programs of two lists of steps.
DiffPrograms(a, b) ==
  [added |-> Orders(b) \ Orders(a),
   removed |-> Orders(a) \ Orders(b),
   modified |-> Modified(a, b),
   unchanged |-> (Orders(a) \cap Orders(b)) \ Modified(a, b)]

NothingChanged(diff) == diff.added = {} /\ diff.removed = {} /\ diff.modified = {}
=============================================================================
