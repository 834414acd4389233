------------------------------- MODULE Recovery -----------------------------
(***************************************************************************)
(* POST /api/recover: a corrective sub-program for a step that failed on   *)
(* the line (backend/recovery.py).  An LLM is asked first and may return   *)
(* any steps with any notes, or fail; then a fixed policy answers.  What   *)
(* comes of it is validated as seen from the moment of the failure.        *)
(*                                                                         *)
(* A step carries the length of its description here, since the policy     *)
(* lengthens it and the schema bounds it.                                  *)
(***************************************************************************)
EXTENDS Validator, Scheduler, Bench

CONSTANTS
  Calls,          \* requests: [spec, steps, failed_step_order, reason, provider]
  LlmAnswers,     \* what an LLM may return: [steps, notes]
  MaxDescription  \* the bound of CommissioningStep on a description

\* What the free text of failure_reason mentions, of what the policy looks for.
Keywords == {"security", "communication"}

\* The notes are the one part of an LLM's answer that is passed on unchecked:
\* none, text, a certification, and other JSON values, empty or not.
Notes == {"none", "text", "claim", "empty value", "other value"}

DescribedStep ==
  [order : Int, step_type : StepTypes, ecu_id : STRING, uds_service : STRING,
   estimated_seconds : Nat, depends_on : Seq(Int), description : 0 .. MaxDescription]

ASSUME RecoveryAssumption ==
  /\ MaxDescription \in Nat /\ MaxDescription >= 60  \* the policy's own texts fit
  /\ \A c \in Calls :
       /\ c.spec \in VehicleSpec
       /\ c.steps \in Seq(DescribedStep)
       /\ c.failed_step_order \in Int
       /\ c.reason \subseteq Keywords
       /\ c.provider \in {"mock", "openai"}
  /\ LlmAnswers \subseteq [steps : Seq(DescribedStep), notes : Notes]

VARIABLES call,            \* the request
          pc,              \* where generate_recovery stands
          recovery_steps,  \* the corrective sub-program
          notes,           \* what is said about it
          provider_name,   \* who made it
          issues           \* what the validator said about it

vars == <<call, pc, recovery_steps, notes, provider_name, issues>>

Init ==
  /\ call \in Calls
  /\ pc = "received"
  /\ recovery_steps = <<>>
  /\ notes = "none"
  /\ provider_name = "none"
  /\ issues = {}

Exists == call.failed_step_order \in Orders(call.steps)

\* The first step with that order.
FailedIndex ==
  Min({i \in DOMAIN call.steps : call.steps[i].order = call.failed_step_order})
FailedStep == call.steps[FailedIndex]

-----------------------------------------------------------------------------
(* The state of the vehicle, read off the program                          *)

\* A slip: unlocks that were still to come count as well.
UnlockedEver ==
  {s.ecu_id : s \in {t \in Range(call.steps) : t.step_type = "security_access"}}

AlreadyUnlocked ==
  {s.ecu_id : s \in {t \in Range(call.steps) :
     t.order < call.failed_step_order /\ t.step_type = "security_access"}}

\* The failed step itself is among them.
AlreadySeenOrders == {o \in Orders(call.steps) : o <= call.failed_step_order}

-----------------------------------------------------------------------------
(* The deterministic policy (_mock_recovery)                               *)

\* The first ECU with the failed step's name; the validator takes the last.
FailedEcu ==
  call.spec.ecus[Min({i \in DOMAIN call.spec.ecus :
                        call.spec.ecus[i].ecu_id = FailedStep.ecu_id})]

\* "Retry: " in front of the failed step's description.
RetryDescription == 7 + FailedStep.description

\* A slip: the retry's description always fits.
RecoverableUnbounded == FailedStep.ecu_id \in EcuIds(call.spec)

\* The policy raises for an ECU the vehicle does not have, and so does the schema
\* for a description that has become too long.
Recoverable ==
  /\ FailedStep.ecu_id \in EcuIds(call.spec)
  /\ RetryDescription <= MaxDescription

Action(type, service, seconds, description) ==
  [step_type |-> type, uds_service |-> service, estimated_seconds |-> seconds,
   description |-> description]

\* A slip: nobody asks whether the ECU offers the service.
PrepareAnyway ==
  CASE "security" \in call.reason -> <<Action("security_access", "0x27", 40, 60)>>
    [] OTHER -> <<>>

\* What the failure reason says is missing, if the ECU offers it; a lost unlock
\* comes before a lost session.
Prepare ==
  LET lost == "security" \in call.reason
      cut == ~lost /\ "communication" \in call.reason
  IN  CASE lost /\ "0x27" \in FailedEcu.supported ->
             <<Action("security_access", "0x27", 40, 60)>>
        [] cut /\ "0x10" \in FailedEcu.supported ->
             <<Action("diagnostic_session", "0x10", 30, 60)>>
        [] OTHER -> <<>>

Retry ==
  <<Action(FailedStep.step_type, FailedStep.uds_service,
           IF FailedStep.estimated_seconds = 0 THEN 50 ELSE FailedStep.estimated_seconds,
           RetryDescription)>>

Confirm ==
  IF "0x22" \in FailedEcu.supported THEN <<Action("validation", "0x22", 80, 40)>> ELSE <<>>

\* A slip: orders go on from the number of steps.
StepCount == Len(call.steps)

\* Orders go on from the highest one, so that gaps in the program do not matter.
LastOrder == Max(Orders(call.steps))

\* Each new step depends on the one before.
MockRecovery ==
  LET actions == Prepare \o Retry \o Confirm
  IN  [i \in DOMAIN actions |->
         [order |-> LastOrder + i, step_type |-> actions[i].step_type,
          ecu_id |-> FailedEcu.ecu_id, uds_service |-> actions[i].uds_service,
          estimated_seconds |-> actions[i].estimated_seconds,
          depends_on |-> IF i = 1 THEN <<>> ELSE <<LastOrder + i - 1>>,
          description |-> actions[i].description]]

-----------------------------------------------------------------------------
(* generate_recovery                                                       *)

\* There is no such step in the program: 400.
Reject ==
  /\ pc = "received"
  /\ ~Exists
  /\ pc' = "rejected"
  /\ UNCHANGED <<call, recovery_steps, notes, provider_name, issues>>

\* The LLM returns steps the schema accepts; none at all is a failure.
LlmReturns ==
  /\ pc = "received"
  /\ Exists
  /\ call.provider = "openai"
  /\ \E answer \in LlmAnswers :
       IF answer.steps = <<>>
         THEN pc' = "fallback" /\ UNCHANGED <<recovery_steps, notes, provider_name>>
         ELSE /\ pc' = "validate"
              /\ recovery_steps' = answer.steps
              /\ notes' = answer.notes
              /\ provider_name' = call.provider
  /\ UNCHANGED <<call, issues>>

\* No provider is configured, the call fails, or its answer does not parse.
LlmFails ==
  /\ pc = "received"
  /\ Exists
  /\ pc' = "fallback"
  /\ UNCHANGED <<call, recovery_steps, notes, provider_name, issues>>

\* The policy answers, or has nothing to offer and says why in the notes.  The
\* text of the failure, quoted in the notes, may read like a claim.
Fallback ==
  /\ pc = "fallback"
  /\ recovery_steps' = IF Recoverable THEN MockRecovery ELSE <<>>
  /\ provider_name' = "mock-fallback"
  /\ notes' \in {"text", "claim"}
  /\ pc' = "validate"
  /\ UNCHANGED <<call, issues>>

\* A slip: no steps, no errors.
FoundInSteps ==
  ValidateRecoverySteps(call.spec, recovery_steps, AlreadyUnlocked, AlreadySeenOrders)

Found ==
  ValidateRecoverySteps(call.spec, recovery_steps, AlreadyUnlocked, AlreadySeenOrders)
    \cup IF recovery_steps = <<>> THEN {Issue("error", "no_recovery", <<>>, NoEcu)} ELSE {}

\* Notes that are no text and not empty have no lower(), which is an error of the
\* server; empty ones are refused by the response's schema, which the handler
\* takes for an error of the client.
Validate ==
  /\ pc = "validate"
  /\ CASE notes = "other value" -> pc' = "error" /\ UNCHANGED issues
       [] notes = "empty value" -> pc' = "rejected" /\ UNCHANGED issues
       [] OTHER -> pc' = "answered" /\ issues' = Found \cup NotesIssues(notes = "claim")
  /\ UNCHANGED <<call, recovery_steps, notes, provider_name>>

Next == Reject \/ LlmReturns \/ LlmFails \/ Fallback \/ Validate

Spec == Init /\ [][Next]_vars

-----------------------------------------------------------------------------
TypeOK ==
  /\ pc \in {"received", "fallback", "validate", "answered", "rejected", "error"}
  /\ recovery_steps \in Seq(DescribedStep)
  /\ notes \in Notes
  /\ provider_name \in {"none", "openai", "mock-fallback"}
  /\ provider_name = "none" <=> recovery_steps = <<>> /\ notes = "none"
  /\ \A issue \in issues : issue.severity \in {"error", "warning"}

\* The program lists its steps by ascending orders, so that doing them in turn
\* and doing them by number are the same.
Ascending(steps) == \A i, j \in DOMAIN steps : i < j => steps[i].order < steps[j].order

\* The vehicle when the step failed: all steps listed before it were done.  The
\* failed step itself counts as done, as it does for generate_recovery.
AtFailure ==
  LET before == SubSeq(call.steps, 1, FailedIndex - 1)
  IN  [BenchAfter(call.spec, FreshBench, before) EXCEPT !.done = @ \cup {call.failed_step_order}]

\* A recovery called valid, whoever made it, runs on the vehicle as the failure
\* has left it: the unlocks and completed steps read off the order numbers are
\* those of the line, and the new steps keep to the rules from there on.
ValidRecoveryRuns ==
  pc = "answered" /\ IsValid(issues) /\ Ascending(call.steps) /\ AtFailure.runs =>
    BenchAfter(call.spec, AtFailure, recovery_steps).runs

\* No recovery is never a good recovery (recovery.py:164-171), and there is none
\* only where the policy has nothing to offer: an empty answer of the LLM does not
\* pass for one.
EmptyOnlyIfHopeless ==
  pc = "answered" /\ recovery_steps = <<>> =>
    /\ ~IsValid(issues)
    /\ \/ FailedStep.ecu_id \notin EcuIds(call.spec)
       \/ FailedStep.description + 7 > MaxDescription

UniqueEcus ==
  \A i, j \in DOMAIN call.spec.ecus :
    call.spec.ecus[i].ecu_id = call.spec.ecus[j].ecu_id => i = j

\* Policy and validator agree: for a step of a program that was valid and is
\* listed in ascending order, the policy's recovery is valid and contains the
\* step that failed.
PolicyRecovers ==
  pc = "answered" /\ provider_name = "mock-fallback" /\ recovery_steps # <<>>
    /\ Ascending(call.steps) /\ UniqueEcus
    /\ StepIssues(call.spec, call.steps, {}, {}) = {} =>
      /\ IsValid(issues)
      /\ \E s \in Range(recovery_steps) :
           /\ s.step_type = FailedStep.step_type
           /\ s.ecu_id = FailedStep.ecu_id
           /\ s.uds_service = FailedStep.uds_service

\* The policy's steps take orders of their own, whatever gaps or repetitions the
\* program has, so that program and recovery can be told apart; and in a parallel
\* schedule of the recovery each step waits for the one before.
PolicyOrdersFit ==
  pc = "answered" /\ provider_name = "mock-fallback" =>
    LET steps == recovery_steps
        ends == ComputeOptimization(steps).ends
    IN  /\ Orders(steps) \cap Orders(call.steps) = {}
        /\ Schedulable(steps)
        /\ \A i \in 1 .. Len(steps) - 1 :
             ends[steps[i].order]
               <= ends[steps[i + 1].order] - steps[i + 1].estimated_seconds

\* The deterministic policy is sound: its steps recover, and fit the program they
\* are for.
PolicySound == PolicyRecovers /\ PolicyOrdersFit

\* The endpoint never hard-fails (recovery.py:12-14): a failure of an existing
\* step is answered whatever the LLM returns.
NeverHardFails == pc \in {"rejected", "error"} => ~Exists
=============================================================================
