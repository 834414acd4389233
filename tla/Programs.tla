------------------------------ MODULE Programs ------------------------------
(***************************************************************************)
(* The data every part of spec2program passes around (backend/models.py):  *)
(* a vehicle specification with its ECUs, and a commissioning program with *)
(* its steps.                                                              *)
(*                                                                         *)
(*   spec    [vehicle_id, ecus : Seq(ecu)]                                 *)
(*   ecu     [ecu_id, installed, target : versions, supported : services]  *)
(*   program [vehicle_id, steps : Seq(step), notes : length in characters, *)
(*            claims : whether the notes read like a certification]        *)
(*   step    [order : Int, step_type, ecu_id, uds_service,                 *)
(*            estimated_seconds : Nat, depends_on : Seq(Int)]              *)
(*                                                                         *)
(* Names, part numbers, suppliers, descriptions and configuration values   *)
(* are never read by the code modelled here and are left out.  Times are   *)
(* counted in tenths of a second, the resolution the code rounds to.       *)
(***************************************************************************)
EXTENDS Integers, Sequences, FiniteSets, Functions

\* StepType: the categories of step a program is made of.
StepTypes == {"diagnostic_session", "security_access", "flash_software",
              "write_parameter", "validation", "fault_clear"}

\* uds_service, target_software_version and the ecu_id of an issue are None.
NoService == "no service"
NoVersion == "no version"
NoEcu == "no ECU"

\* A string is a STRING, which the provers are not able to tell of any.
ASSUME NoServiceAssumption == NoService \in STRING

\* Ecu, VehicleSpec, CommissioningStep and CommissioningProgram.
Ecu == [ecu_id : STRING, installed : STRING, target : STRING, supported : SUBSET STRING]
VehicleSpec == [vehicle_id : STRING, ecus : Seq(Ecu)]
Step == [order : Int, step_type : StepTypes, ecu_id : STRING, uds_service : STRING,
         estimated_seconds : Nat, depends_on : Seq(Int)]
Program == [vehicle_id : STRING, steps : Seq(Step), notes : Nat, claims : BOOLEAN]

EcuIds(spec) == {ecu.ecu_id : ecu \in Range(spec.ecus)}

\* ecu_by_id[id]: the dict is built in list order, so a repeated id keeps the
\* last ECU that carries it.
EcuOf(spec, id) ==
  LET last == CHOOSE i \in DOMAIN spec.ecus :
                /\ spec.ecus[i].ecu_id = id
                /\ \A j \in DOMAIN spec.ecus :
                     spec.ecus[j].ecu_id = id => j <= i
  IN  spec.ecus[last]

\* An ECU that must end up with other software than it carries now.
NeedsFlash(ecu) == ecu.target # NoVersion /\ ecu.target # ecu.installed

Orders(steps) == {step.order : step \in Range(steps)}

\* The step types that change an ECU and so need it unlocked.
Gated == {"flash_software", "write_parameter"}

\* The bounds pydantic puts on a program (CommissioningProgram and
\* CommissioningStep), as far as the pipeline itself can reach them.
CONSTANTS MaxDependsOn, MaxNotes

ASSUME BoundsAssumption == MaxDependsOn \in Nat /\ MaxNotes \in Nat

\* model_validate accepts the program: no dependency list and no notes are
\* over their bound.
SchemaValid(program) ==
  /\ program.notes <= MaxNotes
  /\ \A step \in Range(program.steps) : Len(step.depends_on) <= MaxDependsOn
=============================================================================
