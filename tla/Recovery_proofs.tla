---------------------------- MODULE Recovery_proofs ---------------------------
(***************************************************************************)
(* Proofs about Recovery: every answer is well-formed, none is empty but   *)
(* where the policy has nothing to offer, a recovery called valid runs on  *)
(* the vehicle as the failure has left it, and the policy's own recoveries *)
(* pass its validator.                                                     *)
(***************************************************************************)
EXTENDS Recovery, Operators_proofs

-----------------------------------------------------------------------------
(* The step that failed                                                    *)

\* A list of steps that is not empty has a highest order, the one Max chooses.
LEMMA HighestOrder ==
  ASSUME NEW S, NEW s \in Seq(S), \A i \in DOMAIN s : s[i].order \in Int, s # <<>>
  PROVE  /\ Max(Orders(s)) \in Orders(s) /\ Max(Orders(s)) \in Int
         /\ \A i \in DOMAIN s : s[i].order <= Max(Orders(s))
<1> DEFINE D == DOMAIN s
           f == [i \in D |-> s[i].order]
<1>1. D = 1 .. Len(s) /\ Len(s) \in Nat /\ D # {}
  OBVIOUS
<1>2. /\ \A i \in D : s[i].order \in Orders(s)
      /\ \A o \in Orders(s) : \E i \in D : s[i].order = o
  BY ONLY s \in Seq(S), ListedSteps
<1>3. Orders(s) \in SUBSET Int /\ Orders(s) # {} /\ Orders(s) = {f[i] : i \in D}
  BY <1>1, <1>2
<1>4. IsFiniteSet(D)
  BY <1>1, FS_Interval
<1>5. IsFiniteSet(Orders(s))
  <2>1. IsFiniteSet({f[i] : i \in D})
    BY <1>4, ValuesFinite
  <2> QED BY <1>3, <2>1
<1>6. Max(Orders(s)) \in Orders(s) /\ \A o \in Orders(s) : o <= Max(Orders(s))
  BY ONLY <1>3, <1>5, FiniteExtremes
<1> QED BY <1>2, <1>3, <1>6

\* What is known of the request.
LEMMA CallTyped ==
  ASSUME call \in Calls
  PROVE  /\ call.spec \in VehicleSpec /\ call.steps \in Seq(DescribedStep)
         /\ call.failed_step_order \in Int /\ call.reason \subseteq Keywords
         /\ call.provider \in {"mock", "openai"} /\ MaxDescription \in Nat /\ MaxDescription >= 60
  BY RecoveryAssumption

\* The order that failed is found at its first position.
LEMMA FailedStepTyped ==
  ASSUME call \in Calls, Exists
  PROVE  /\ FailedIndex \in DOMAIN call.steps /\ FailedStep = call.steps[FailedIndex]
         /\ FailedStep.order = call.failed_step_order
         /\ FailedStep \in DescribedStep
<1>1. call.steps \in Seq(DescribedStep)
  BY CallTyped
<1>2. \E i \in DOMAIN call.steps : call.steps[i].order = call.failed_step_order
  BY <1>1, ListedSteps DEF Exists
<1>3. /\ FailedIndex \in DOMAIN call.steps
      /\ call.steps[FailedIndex].order = call.failed_step_order
  <2> DEFINE At == {i \in DOMAIN call.steps : call.steps[i].order = call.failed_step_order}
  <2>1. At \in SUBSET Nat /\ At # {}
    BY <1>1, <1>2
  <2>2. \E m \in At : \A k \in At : m <= k
    BY ONLY <2>1, Least
  <2>3. Min(At) \in At
    BY <2>2 DEF Min
  <2> QED BY <2>3 DEF FailedIndex
<1> QED BY <1>1, <1>3 DEF FailedStep

\* New orders go on from the highest.
LEMMA LastOrderHighest ==
  ASSUME call \in Calls, Exists
  PROVE  LastOrder \in Int /\ \A i \in DOMAIN call.steps : call.steps[i].order <= LastOrder
<1>1. call.steps \in Seq(DescribedStep) /\ call.steps # <<>>
  BY CallTyped, FailedStepTyped
<1>2. \A i \in DOMAIN call.steps : call.steps[i].order \in Int
  <2>1. \A step \in DescribedStep : step.order \in Int
    BY DEF DescribedStep
  <2>2. \A i \in DOMAIN call.steps : call.steps[i] \in DescribedStep
    BY <1>1
  <2> QED BY <2>1, <2>2
<1> QED BY <1>1, <1>2, HighestOrder DEF LastOrder

\* The ECU the policy works on is the first that carries the failed step's id.
LEMMA FailedEcuFound ==
  ASSUME call \in Calls, FailedStep.ecu_id \in EcuIds(call.spec)
  PROVE  /\ FailedEcu \in Ecu /\ FailedEcu.ecu_id = FailedStep.ecu_id
         /\ \E i \in DOMAIN call.spec.ecus : call.spec.ecus[i] = FailedEcu
<1> DEFINE At == {i \in DOMAIN call.spec.ecus : call.spec.ecus[i].ecu_id = FailedStep.ecu_id}
<1>1. call.spec.ecus \in Seq(Ecu)
  BY CallTyped DEF VehicleSpec
<1>2. At # {}
  BY DEF EcuIds, Range
<1>3. At \in SUBSET Nat
  BY <1>1
<1>4. \E m \in At : \A k \in At : m <= k
  BY <1>2, <1>3, Least
<1>5. Min(At) \in At
  BY <1>4 DEF Min
<1>6. FailedEcu = call.spec.ecus[Min(At)]
  BY DEF FailedEcu
<1>7. \A i \in DOMAIN call.spec.ecus : call.spec.ecus[i] \in Ecu
  BY <1>1
<1>8. \A i \in At : i \in DOMAIN call.spec.ecus /\ call.spec.ecus[i].ecu_id = FailedStep.ecu_id
  OBVIOUS
<1> HIDE DEF At
<1> QED BY <1>5, <1>6, <1>7, <1>8

-----------------------------------------------------------------------------
(* The policy's steps                                                      *)

Actions == Prepare \o Retry \o Confirm

\* One to three actions; each is the retry or asks the ECU for a service it offers,
\* without changing it.
Harmless(action) ==
  /\ action.step_type \in StepTypes \ Gated
  /\ action.uds_service \in FailedEcu.supported
  /\ action.estimated_seconds \in Nat
  /\ action.description \in 0 .. 60

LEMMA PolicyActions ==
  /\ DOMAIN Actions = 1 .. Len(Actions) /\ Len(Actions) \in 1 .. 3
  /\ \A i \in DOMAIN Actions : Actions[i] = Retry[1] \/ Harmless(Actions[i])
  /\ \E i \in DOMAIN Actions : Actions[i] = Retry[1]
<1> DEFINE unlock == Action("security_access", "0x27", 40, 60)
           session == Action("diagnostic_session", "0x10", 30, 60)
           check == Action("validation", "0x22", 80, 40)
<1>1. /\ "0x27" \in FailedEcu.supported => Harmless(unlock)
      /\ "0x10" \in FailedEcu.supported => Harmless(session)
      /\ "0x22" \in FailedEcu.supported => Harmless(check)
  <2>2. {"security_access", "diagnostic_session", "validation"} \subseteq StepTypes \ Gated
    BY DEF StepTypes, Gated
  <2>3. "0x27" \in FailedEcu.supported => Harmless(unlock)
    BY <2>2 DEF Harmless, Action
  <2>4. "0x10" \in FailedEcu.supported => Harmless(session)
    BY <2>2 DEF Harmless, Action
  <2>5. "0x22" \in FailedEcu.supported => Harmless(check)
    BY <2>2 DEF Harmless, Action
  <2> QED BY <2>3, <2>4, <2>5
<1>2. \/ Prepare = <<>>
      \/ Prepare = <<unlock>> /\ Harmless(unlock)
      \/ Prepare = <<session>> /\ Harmless(session)
  BY <1>1 DEF Prepare
<1>3. Confirm = <<>> \/ (Confirm = <<check>> /\ Harmless(check))
  BY <1>1 DEF Confirm
<1>4. PICK r : Retry = <<r>> /\ r = Retry[1]
  BY DEF Retry
<1> HIDE DEF unlock, session, check
<1>5. PICK P, C : /\ Prepare = P /\ Confirm = C
                  /\ P = <<>> \/ \E p : P = <<p>> /\ Harmless(p)
                  /\ C = <<>> \/ \E c : C = <<c>> /\ Harmless(c)
  BY <1>2, <1>3
<1>6. Actions = P \o <<r>> \o C
  BY <1>4, <1>5 DEF Actions
<1>7. CASE P = <<>> /\ C = <<>>
  <2>1. Actions = <<r>>
    BY <1>6, <1>7, JoinedThree
  <2> QED BY <1>4, <2>1
<1>8. CASE P = <<>> /\ \E c : C = <<c>> /\ Harmless(c)
  <2>1. PICK c : C = <<c>> /\ Harmless(c)
    BY <1>8
  <2>2. Actions = <<r, c>>
    BY <1>6, <1>8, <2>1, JoinedThree
  <2> QED BY <1>4, <2>1, <2>2
<1>9. CASE (\E p : P = <<p>> /\ Harmless(p)) /\ C = <<>>
  <2>1. PICK p : P = <<p>> /\ Harmless(p)
    BY <1>9
  <2>2. Actions = <<p, r>>
    BY <1>6, <1>9, <2>1, JoinedThree
  <2> QED BY <1>4, <2>1, <2>2
<1>10. CASE (\E p : P = <<p>> /\ Harmless(p)) /\ \E c : C = <<c>> /\ Harmless(c)
  <2>1. PICK p, c : P = <<p>> /\ Harmless(p) /\ C = <<c>> /\ Harmless(c)
    BY <1>10
  <2>2. Actions = <<p>> \o <<r>> \o <<c>>
    BY <1>6, <2>1
  <2>3. <<p>> \o <<r>> \o <<c>> = <<p, r, c>>
    BY JoinedThree
  <2>4. <<p, r, c>> = Actions
    BY <2>2, <2>3
  <2>5. DOMAIN Actions = 1 .. 3 /\ Len(Actions) = 3
    BY <2>4
  <2>6. Actions[1] = p /\ Actions[2] = r /\ Actions[3] = c
    BY <2>4
  <2>7. \A i \in 1 .. 3 : i \in {1, 2, 3}
    OBVIOUS
  <2> QED BY <1>4, <2>1, <2>5, <2>6, <2>7
<1> QED BY <1>5, <1>7, <1>8, <1>9, <1>10

\* The steps are those actions, on the failed step's ECU, with orders that go on
\* from the highest, each waiting for the one before.
LEMMA PolicySteps ==
  /\ DOMAIN MockRecovery = 1 .. Len(Actions) /\ Len(MockRecovery) = Len(Actions)
  /\ Len(Actions) \in 1 .. 3
  /\ \A i \in DOMAIN MockRecovery :
       /\ MockRecovery[i].order = LastOrder + i
       /\ MockRecovery[i].step_type = Actions[i].step_type
       /\ MockRecovery[i].ecu_id = FailedEcu.ecu_id
       /\ MockRecovery[i].uds_service = Actions[i].uds_service
       /\ MockRecovery[i].estimated_seconds = Actions[i].estimated_seconds
       /\ MockRecovery[i].depends_on = IF i = 1 THEN <<>> ELSE <<LastOrder + i - 1>>
       /\ MockRecovery[i].description = Actions[i].description
<1>1. MockRecovery =
        [i \in DOMAIN Actions |->
         [order |-> LastOrder + i, step_type |-> Actions[i].step_type,
          ecu_id |-> FailedEcu.ecu_id, uds_service |-> Actions[i].uds_service,
          estimated_seconds |-> Actions[i].estimated_seconds,
          depends_on |-> IF i = 1 THEN <<>> ELSE <<LastOrder + i - 1>>,
          description |-> Actions[i].description]]
  BY DEF MockRecovery, Actions
<1>2. DOMAIN Actions = 1 .. Len(Actions) /\ Len(Actions) \in 1 .. 3
  BY PolicyActions
<1> HIDE DEF Actions
<1>3. Len(MockRecovery) = Len(Actions)
  <2>1. DOMAIN MockRecovery = 1 .. Len(Actions)
    BY <1>1, <1>2
  <2> QED BY <1>1, <1>2
<1> QED BY <1>1, <1>2, <1>3

\* They are steps the schema accepts.
LEMMA PolicyStepsTyped ==
  ASSUME call \in Calls, Exists, Recoverable
  PROVE  MockRecovery \in Seq(DescribedStep) /\ MockRecovery # <<>>
<1>1. FailedStep \in DescribedStep /\ FailedEcu \in Ecu /\ LastOrder \in Int
  BY FailedStepTyped, FailedEcuFound, LastOrderHighest DEF Recoverable
<1>2. /\ FailedEcu.ecu_id \in STRING /\ FailedEcu.supported \subseteq STRING
      /\ FailedStep.step_type \in StepTypes /\ FailedStep.uds_service \in STRING
      /\ FailedStep.estimated_seconds \in Nat /\ FailedStep.description \in Nat
  BY <1>1 DEF Ecu, DescribedStep
<1>3. MaxDescription \in Nat /\ MaxDescription >= 60
  BY CallTyped
<1>4. /\ Retry[1].step_type \in StepTypes /\ Retry[1].uds_service \in STRING
      /\ Retry[1].estimated_seconds \in Nat
  BY <1>2 DEF Retry, Action
<1>5. Retry[1].description \in 0 .. MaxDescription
  BY <1>2, <1>3 DEF Retry, Action, Recoverable, RetryDescription
<1>6. ASSUME NEW i \in DOMAIN MockRecovery
      PROVE  MockRecovery[i] \in DescribedStep
  <2>1. i \in DOMAIN Actions /\ i \in Int
    BY PolicySteps, PolicyActions
  <2>2. /\ Actions[i].step_type \in StepTypes /\ Actions[i].uds_service \in STRING
        /\ Actions[i].estimated_seconds \in Nat /\ Actions[i].description \in 0 .. MaxDescription
    <3>1. CASE Actions[i] = Retry[1]
      BY <1>4, <1>5, <3>1
    <3>2. CASE Harmless(Actions[i])
      BY <1>2, <1>3, <3>2 DEF Harmless
    <3> QED BY <2>1, <3>1, <3>2, PolicyActions
  <2> DEFINE a == Actions[i]
             o == LastOrder + i
             deps == IF i = 1 THEN <<>> ELSE <<LastOrder + i - 1>>
  <2>3. o \in Int /\ deps \in Seq(Int)
    BY <1>1, <2>1
  <2>4. MockRecovery[i] =
          [order |-> o, step_type |-> a.step_type, ecu_id |-> FailedEcu.ecu_id,
           uds_service |-> a.uds_service, estimated_seconds |-> a.estimated_seconds,
           depends_on |-> deps, description |-> a.description]
    BY <2>1 DEF MockRecovery, Actions
  <2> HIDE DEF a, o, deps
  <2> QED BY <1>2, <2>2, <2>3, <2>4 DEF DescribedStep, a
<1>7. MockRecovery \in Seq(DescribedStep)
  <2>1. MockRecovery = [i \in 1 .. Len(Actions) |-> MockRecovery[i]]
    BY PolicyActions DEF MockRecovery, Actions
  <2>2. Len(Actions) \in Nat /\ DOMAIN MockRecovery = 1 .. Len(Actions)
    BY PolicySteps
  <2> HIDE DEF MockRecovery
  <2> QED BY <1>6, <2>1, <2>2
<1>8. MockRecovery # <<>>
  BY PolicySteps
<1> QED BY <1>7, <1>8

-----------------------------------------------------------------------------
(* The run of a request                                                    *)

\* What is answered is what the LLM returned, if anything, or the policy's steps,
\* if it has any, together with what the validator says about it.
RunInv ==
  /\ call \in Calls
  /\ pc \in {"received", "fallback"} =>
       provider_name = "none" /\ recovery_steps = <<>> /\ notes = "none"
  /\ pc \in {"fallback", "validate", "answered"} => Exists
  /\ pc \in {"validate", "answered"} =>
       \/ provider_name = "openai" /\ recovery_steps # <<>>
       \/ /\ provider_name = "mock-fallback"
          /\ recovery_steps = IF Recoverable THEN MockRecovery ELSE <<>>
  /\ pc = "answered" => issues = Found \cup NotesIssues(notes = "claim")

LEMMA RunInvInit == Init => RunInv
  BY DEF Init, RunInv

LEMMA RunInvStep == RunInv /\ [Next]_vars => RunInv'
<1> SUFFICES ASSUME RunInv, [Next]_vars PROVE RunInv'
  OBVIOUS
<1>2. ASSUME call' = call
      PROVE  Exists' = Exists /\ (Recoverable' <=> Recoverable) /\ MockRecovery' = MockRecovery
  BY <1>2 DEF Exists, Recoverable, MockRecovery, FailedStep, FailedIndex, RetryDescription,
       LastOrder, FailedEcu, Prepare, Retry, Confirm
<1>1. CASE UNCHANGED vars
  <2>1. call' = call /\ Found' = Found /\ NotesIssues(notes = "claim")' = NotesIssues(notes = "claim")
    BY <1>1 DEF vars, Found, AlreadyUnlocked, AlreadySeenOrders
  <2> QED BY <1>1, <1>2, <2>1 DEF vars, RunInv
<1>3. CASE Reject
  BY <1>3 DEF Reject, RunInv
<1>4. CASE LlmReturns
  <2>1. PICK answer \in LlmAnswers :
          IF answer.steps = <<>>
            THEN pc' = "fallback" /\ UNCHANGED <<recovery_steps, notes, provider_name>>
            ELSE /\ pc' = "validate" /\ recovery_steps' = answer.steps
                 /\ notes' = answer.notes /\ provider_name' = call.provider
    BY <1>4 DEF LlmReturns
  <2>2. pc = "received" /\ Exists /\ call.provider = "openai" /\ call' = call
    BY <1>4 DEF LlmReturns
  <2> QED BY <1>2, <2>1, <2>2 DEF RunInv
<1>5. CASE LlmFails
  BY <1>2, <1>5 DEF LlmFails, RunInv
<1>6. CASE Fallback
  BY <1>2, <1>6 DEF Fallback, RunInv
<1>7. CASE Validate
  <2>1. /\ pc = "validate" /\ UNCHANGED <<call, recovery_steps, notes, provider_name>>
        /\ \/ pc' \in {"error", "rejected"}
           \/ pc' = "answered" /\ issues' = Found \cup NotesIssues(notes = "claim")
    BY <1>7 DEF Validate
  <2>2. Found' = Found /\ NotesIssues(notes = "claim")' = NotesIssues(notes = "claim")
    BY <2>1 DEF Found, AlreadyUnlocked, AlreadySeenOrders
  <2> QED BY <1>2, <2>1, <2>2 DEF RunInv
<1> QED BY <1>1, <1>3, <1>4, <1>5, <1>6, <1>7 DEF Next

\* Only the notes and the missing recovery add to what the loop reports.
LEMMA FoundErrors ==
  /\ \A issue \in Found : issue.severity = "error"
  /\ \A claims : \A issue \in NotesIssues(claims) : issue.severity = "warning"
  /\ Found = {} <=>
       /\ recovery_steps # <<>>
       /\ StepIssues(call.spec, recovery_steps, AlreadyUnlocked, AlreadySeenOrders) = {}
<1> DEFINE loop == StepIssues(call.spec, recovery_steps, AlreadyUnlocked, AlreadySeenOrders)
           none == Issue("error", "no_recovery", <<>>, NoEcu)
<1>1. Found = loop \cup IF recovery_steps = <<>> THEN {none} ELSE {}
  BY DEF Found, ValidateRecoverySteps
<1>2. none.severity = "error"
  BY DEF Issue
<1>3. \A issue \in loop : issue.severity = "error"
  BY IssuesOfLoop
<1>4. \A claims : \A issue \in NotesIssues(claims) : issue.severity = "warning"
  BY DEF NotesIssues, Issue
<1> HIDE DEF loop, none
<1>5. \A issue \in Found : issue.severity = "error"
  BY <1>1, <1>2, <1>3
<1>6. Found = {} <=> recovery_steps # <<>> /\ loop = {}
  BY <1>1
<1> QED BY <1>4, <1>5, <1>6 DEF loop

\* A verdict is good exactly if there are steps and none has an issue.
LEMMA ValidMeansClean ==
  ASSUME RunInv, pc = "answered"
  PROVE  IsValid(issues) <=>
           /\ recovery_steps # <<>>
           /\ StepIssues(call.spec, recovery_steps, AlreadyUnlocked, AlreadySeenOrders) = {}
<1>1. issues = Found \cup NotesIssues(notes = "claim")
  BY DEF RunInv
<1>2. IsValid(issues) <=> Found = {}
  BY <1>1, FoundErrors DEF IsValid
<1> QED BY <1>2, FoundErrors

LEMMA RunInvAlways == Spec => []RunInv
BY RunInvInit, RunInvStep, PTL DEF Spec

-----------------------------------------------------------------------------
\* Every recovery that is answered is one the response's schema accepts, and every
\* issue has a severity.
LEMMA TypeStep == RunInv /\ TypeOK /\ [Next]_vars => TypeOK'
<1> SUFFICES ASSUME RunInv, TypeOK, [Next]_vars PROVE TypeOK'
  OBVIOUS
<1>1. CASE UNCHANGED vars
  BY <1>1 DEF vars, TypeOK
<1>2. CASE Reject
  BY <1>2 DEF Reject, TypeOK
<1>3. CASE LlmReturns
  <2>1. PICK answer \in LlmAnswers :
          IF answer.steps = <<>>
            THEN pc' = "fallback" /\ UNCHANGED <<recovery_steps, notes, provider_name>>
            ELSE /\ pc' = "validate" /\ recovery_steps' = answer.steps
                 /\ notes' = answer.notes /\ provider_name' = call.provider
    BY <1>3 DEF LlmReturns
  <2>2. answer.steps \in Seq(DescribedStep) /\ answer.notes \in Notes
    BY RecoveryAssumption
  <2>3. call.provider = "openai" /\ UNCHANGED issues
    BY <1>3 DEF LlmReturns
  <2>4. CASE answer.steps = <<>>
    BY <2>1, <2>3, <2>4 DEF TypeOK
  <2>5. CASE answer.steps # <<>>
    BY <2>1, <2>2, <2>3, <2>5 DEF TypeOK
  <2> QED BY <2>4, <2>5
<1>4. CASE LlmFails
  BY <1>4 DEF LlmFails, TypeOK
<1>5. CASE Fallback
  <2>1. call \in Calls /\ Exists
    BY <1>5 DEF Fallback, RunInv
  <2>2. recovery_steps' \in Seq(DescribedStep)
    <3>1. CASE Recoverable
      BY <1>5, <2>1, <3>1, PolicyStepsTyped DEF Fallback
    <3>2. CASE ~Recoverable
      <4>1. recovery_steps' = <<>>
        BY <1>5, <3>2 DEF Fallback
      <4> QED BY <4>1
    <3> QED BY <3>1, <3>2
  <2>3. /\ pc' = "validate" /\ provider_name' = "mock-fallback"
        /\ notes' \in {"text", "claim"} /\ issues' = issues
    BY <1>5 DEF Fallback
  <2> HIDE DEF MockRecovery
  <2> QED BY <2>2, <2>3 DEF TypeOK, Notes
<1>6. CASE Validate
  <2>1. /\ UNCHANGED <<call, recovery_steps, notes, provider_name>>
        /\ \/ pc' \in {"error", "rejected"} /\ issues' = issues
           \/ pc' = "answered" /\ issues' = Found \cup NotesIssues(notes = "claim")
    BY <1>6 DEF Validate
  <2>2. \A issue \in issues' : issue.severity \in {"error", "warning"}
    BY <2>1, FoundErrors DEF TypeOK
  <2> QED BY <2>1, <2>2 DEF TypeOK
<1> QED BY <1>1, <1>2, <1>3, <1>4, <1>5, <1>6 DEF Next

THEOREM TypeCorrect == Spec => []TypeOK
<1>1. Init => TypeOK
  BY DEF Init, TypeOK, Notes
<1> QED BY <1>1, TypeStep, RunInvAlways, PTL DEF Spec

-----------------------------------------------------------------------------
\* No recovery is never a good recovery, and there is none only where the policy has
\* nothing to offer.
THEOREM NoneIsNoRecovery == Spec => []EmptyOnlyIfHopeless
<1>1. RunInv => EmptyOnlyIfHopeless
  <2> SUFFICES ASSUME RunInv, pc = "answered", recovery_steps = <<>>
               PROVE  /\ ~IsValid(issues)
                      /\ \/ FailedStep.ecu_id \notin EcuIds(call.spec)
                         \/ FailedStep.description + 7 > MaxDescription
    BY DEF EmptyOnlyIfHopeless
  <2>1. ~IsValid(issues)
    BY ValidMeansClean
  <2>2. call \in Calls /\ Exists
    BY DEF RunInv
  <2>3. ~Recoverable
    BY <2>2, PolicyStepsTyped DEF RunInv
  <2>4. FailedStep.description \in Nat /\ MaxDescription \in Nat
    BY <2>2, FailedStepTyped, CallTyped DEF DescribedStep
  <2> QED BY <2>1, <2>3, <2>4 DEF Recoverable, RetryDescription
<1> QED BY <1>1, RunInvAlways, PTL

-----------------------------------------------------------------------------
(* A valid recovery runs                                                   *)

\* If the program lists its steps by ascending orders, what was done before the
\* failure is what its orders say.
LEMMA AtFailureKnown ==
  ASSUME call \in Calls, Exists, Ascending(call.steps), AtFailure.runs
  PROVE  /\ AtFailure = [runs |-> TRUE, done |-> AtFailure.done, unlocked |-> AtFailure.unlocked]
         /\ AlreadyUnlocked \subseteq AtFailure.unlocked
         /\ AlreadySeenOrders \subseteq AtFailure.done
<1> DEFINE steps == call.steps
           f == FailedIndex
           before == SubSeq(steps, 1, f - 1)
           b == BenchAfter(call.spec, FreshBench, before)
<1>1. /\ steps \in Seq(DescribedStep) /\ f \in DOMAIN steps
      /\ steps[f].order = call.failed_step_order
      /\ f \in Nat /\ f >= 1 /\ f <= Len(steps) /\ DOMAIN steps = 1 .. Len(steps)
  <2>1. steps \in Seq(DescribedStep) /\ f \in DOMAIN steps
    BY CallTyped, FailedStepTyped
  <2>2. steps[f].order = call.failed_step_order
    BY FailedStepTyped
  <2> HIDE DEF f, steps
  <2> QED BY <2>1, <2>2
<1>2. \A i \in DOMAIN steps : steps[i].order \in Int
  <2>1. \A step \in DescribedStep : step.order \in Int
    BY DEF DescribedStep
  <2> QED BY <1>1, <2>1
<1>3. /\ before \in Seq(DescribedStep) /\ Len(before) = f - 1
      /\ \A j \in 1 .. (f - 1) : before[j] = steps[j]
  <2> HIDE DEF f, steps
  <2>1. f - 1 \in Int /\ 1 \in Int /\ \A i \in 1 .. (f - 1) : steps[i] \in DescribedStep
    BY <1>1
  <2>2. /\ before \in Seq(DescribedStep)
        /\ Len(before) = IF 1 <= f - 1 THEN (f - 1) - 1 + 1 ELSE 0
        /\ \A i \in 1 .. ((f - 1) - 1 + 1) : before[i] = steps[1 + i - 1]
    BY ONLY <2>1, SubSeqProperties
  <2>3. (f - 1) - 1 + 1 = f - 1 /\ (1 <= f - 1 \/ f - 1 = 0)
    BY <1>1
  <2>4. \A i \in 1 .. (f - 1) : 1 + i - 1 = i
    BY <1>1
  <2> HIDE DEF before
  <2> QED BY <2>2, <2>3, <2>4
<1>4. AtFailure = [b EXCEPT !.done = @ \cup {call.failed_step_order}]
  BY DEF AtFailure
<1>5. FreshBench = StateAfter(FreshBench, before, 0)
  BY BenchAtStart DEF FreshBench
<1>6. b = StateAfter(FreshBench, before, f - 1)
  <2>1. b.runs
    BY <1>4
  <2> HIDE DEF before, f
  <2>2. b = StateAfter(FreshBench, before, Len(before))
    BY <1>3, <1>5, <2>1, BenchDidAll
  <2> QED BY <1>3, <2>2
<1> DEFINE done == Ordered(FreshBench, before, f - 1)
           unlocked == Unlocked(FreshBench, before, f - 1)
<1>7. b = [runs |-> TRUE, done |-> done, unlocked |-> unlocked]
  BY <1>6 DEF StateAfter
<1>8. AtFailure = [runs |-> TRUE, done |-> done \cup {call.failed_step_order},
                   unlocked |-> unlocked]
  <2> HIDE DEF b, done, unlocked
  <2> QED BY <1>4, <1>7
<1>9. \A j \in DOMAIN steps : steps[j].order < call.failed_step_order => j \in 1 .. (f - 1)
  <2> HIDE DEF f, steps
  <2> SUFFICES ASSUME NEW j \in DOMAIN steps, steps[j].order < call.failed_step_order
               PROVE  j \in 1 .. (f - 1)
    OBVIOUS
  <2>1. j \in Nat /\ j >= 1 /\ steps[j].order \in Int /\ steps[f].order \in Int
    BY <1>1, <1>2
  <2>2. f < j => steps[f].order < steps[j].order
    BY <1>1, <2>1 DEF Ascending, steps
  <2>3. f # j
    BY <1>1, <2>1
  <2>4. ~(f < j)
    BY <1>1, <2>1, <2>2
  <2> QED BY <1>1, <2>1, <2>3, <2>4
<1>10. AlreadyUnlocked \subseteq unlocked
  <2> SUFFICES ASSUME NEW id \in AlreadyUnlocked PROVE id \in unlocked
    OBVIOUS
  <2>1. PICK j \in DOMAIN steps : /\ steps[j].order < call.failed_step_order
                                  /\ steps[j].step_type = "security_access"
                                  /\ id = steps[j].ecu_id
    BY DEF AlreadyUnlocked, Range
  <2>2. j \in 1 .. (f - 1) /\ before[j] = steps[j]
    BY <1>3, <1>9, <2>1
  <2> HIDE DEF before, f, steps
  <2> QED BY <2>1, <2>2 DEF Unlocked
<1>11. AlreadySeenOrders \subseteq done \cup {call.failed_step_order}
  <2> SUFFICES ASSUME NEW o \in AlreadySeenOrders, o # call.failed_step_order
               PROVE  o \in done
    OBVIOUS
  <2>1. PICK j \in DOMAIN steps : steps[j].order = o
    BY <1>1, ListedSteps DEF AlreadySeenOrders
  <2>2. steps[j].order < call.failed_step_order
    BY <1>2, <2>1, CallTyped DEF AlreadySeenOrders
  <2>3. j \in 1 .. (f - 1) /\ before[j] = steps[j]
    BY <1>3, <1>9, <2>2
  <2> HIDE DEF before, f, steps
  <2> QED BY <2>1, <2>3 DEF Ordered
<1>12. AtFailure.done = done \cup {call.failed_step_order} /\ AtFailure.unlocked = unlocked
  BY <1>8
<1> HIDE DEF done, unlocked
<1> QED BY <1>8, <1>10, <1>11, <1>12

\* A recovery called valid, whoever made it, runs on the vehicle as the failure has
\* left it.
THEOREM RecoveryRuns == Spec => []ValidRecoveryRuns
<1>1. RunInv /\ TypeOK => ValidRecoveryRuns
  <2> SUFFICES ASSUME RunInv, TypeOK, pc = "answered", IsValid(issues),
                      Ascending(call.steps), AtFailure.runs
               PROVE  BenchAfter(call.spec, AtFailure, recovery_steps).runs
    BY DEF ValidRecoveryRuns
  <2>1. call \in Calls /\ Exists /\ recovery_steps \in Seq(DescribedStep)
    BY DEF RunInv, TypeOK
  <2>2. /\ AtFailure = [runs |-> TRUE, done |-> AtFailure.done, unlocked |-> AtFailure.unlocked]
        /\ AlreadyUnlocked \subseteq AtFailure.unlocked
        /\ AlreadySeenOrders \subseteq AtFailure.done
    BY <2>1, AtFailureKnown
  <2>3. AtFailure = StateAfter(AtFailure, recovery_steps, 0)
    BY ONLY <2>2, BenchAtStart
  <2>4. StepIssues(call.spec, recovery_steps, AlreadyUnlocked, AlreadySeenOrders) = {}
    BY ValidMeansClean
  <2>5. BenchAfter(call.spec, AtFailure, recovery_steps)
          = StateAfter(AtFailure, recovery_steps, Len(recovery_steps))
    BY ONLY <2>1, <2>2, <2>3, <2>4, ValidatedStepsRun
  <2> QED BY <2>5 DEF StateAfter
<1> QED BY <1>1, RunInvAlways, TypeCorrect, PTL

-----------------------------------------------------------------------------
(* Policy and validator agree                                              *)

\* On a vehicle without repeated ids the validator means the same ECU.
LEMMA SameEcu ==
  ASSUME call \in Calls, FailedStep.ecu_id \in EcuIds(call.spec), UniqueEcus
  PROVE  EcuOf(call.spec, FailedStep.ecu_id) = FailedEcu
<1> DEFINE ecus == call.spec.ecus
           id == FailedStep.ecu_id
<1>1. ecus \in Seq(Ecu)
  BY CallTyped DEF VehicleSpec
<1>2. PICK k \in DOMAIN ecus : ecus[k] = FailedEcu /\ ecus[k].ecu_id = id
  BY FailedEcuFound
<1>3. \A j \in DOMAIN ecus : ecus[j].ecu_id = id => j = k
  BY <1>2 DEF UniqueEcus
<1>4. \A j \in DOMAIN ecus : ecus[j].ecu_id = id => j <= k
  <2>1. k \in Nat
    BY <1>1
  <2> QED BY <1>3, <2>1
<1> DEFINE last == CHOOSE i \in DOMAIN ecus :
                     /\ ecus[i].ecu_id = id
                     /\ \A j \in DOMAIN ecus : ecus[j].ecu_id = id => j <= i
<1>5. last \in DOMAIN ecus /\ ecus[last].ecu_id = id
  <2> HIDE DEF ecus, id
  <2> QED BY <1>2, <1>4
<1>6. last = k
  <2> HIDE DEF last, ecus, id
  <2> QED BY <1>3, <1>5
<1>7. EcuOf(call.spec, id) = ecus[last]
  BY DEF EcuOf
<1> QED BY <1>2, <1>6, <1>7

\* What the loop over the failed program says of the step that failed: its service
\* is offered, and if it needs the ECU unlocked, that was done before it.
LEMMA FailedStepAllowed ==
  ASSUME call \in Calls, Exists, Ascending(call.steps),
         FailedStep.ecu_id \in EcuIds(call.spec), UniqueEcus,
         StepIssues(call.spec, call.steps, {}, {}) = {}
  PROVE  /\ FailedStep.uds_service \in {NoService} \cup FailedEcu.supported
         /\ FailedStep.step_type \in Gated /\ "0x27" \in FailedEcu.supported =>
              FailedStep.ecu_id \in AlreadyUnlocked
<1> DEFINE steps == call.steps
           f == FailedIndex
<1>1. /\ steps \in Seq(DescribedStep) /\ f \in DOMAIN steps /\ FailedStep = steps[f]
      /\ steps[f].order = call.failed_step_order
  BY CallTyped, FailedStepTyped
<1>2. StepErrors(call.spec, steps[f], UnlockedAt(call.spec, steps, f, {}),
                 SeenBefore(steps, f, {})) = {}
  BY <1>1, IssuesOfLoop
<1>3. EcuOf(call.spec, steps[f].ecu_id) = FailedEcu /\ Known(call.spec, steps[f])
  BY <1>1, SameEcu DEF Known
<1> HIDE DEF steps, f
<1>4. ~Unsupported(call.spec, steps[f])
      /\ ~Locked(call.spec, steps[f], UnlockedAt(call.spec, steps, f, {}))
  BY <1>2, <1>3 DEF StepErrors
<1>5. FailedStep.uds_service \in {NoService} \cup FailedEcu.supported
  BY <1>1, <1>3, <1>4 DEF Unsupported
<1>6. ASSUME FailedStep.step_type \in Gated, "0x27" \in FailedEcu.supported
      PROVE  FailedStep.ecu_id \in AlreadyUnlocked
  <2>1. FailedStep.ecu_id \in UnlockedAt(call.spec, steps, f, {})
    BY <1>1, <1>3, <1>4, <1>6 DEF Locked
  <2>2. PICK j \in 1 .. f : steps[j].step_type = "security_access" /\ steps[j].ecu_id = FailedStep.ecu_id
    BY <2>1 DEF UnlockedAt
  <2>3. j # f
    BY <1>1, <1>6, <2>2 DEF Gated
  <2>4. j \in DOMAIN steps /\ j < f
    BY <1>1, <2>3
  <2>5. steps[j].order < call.failed_step_order
    BY <1>1, <2>4 DEF Ascending, steps
  <2>6. steps[j] \in Range(call.steps)
    BY <2>4 DEF Range, steps
  <2> QED BY <2>2, <2>5, <2>6 DEF AlreadyUnlocked
<1> QED BY <1>5, <1>6

\* The validator has nothing against the policy's steps.
LEMMA PolicyStepsClean ==
  ASSUME call \in Calls, Exists, Recoverable, Ascending(call.steps), UniqueEcus,
         StepIssues(call.spec, call.steps, {}, {}) = {}, recovery_steps = MockRecovery
  PROVE  StepIssues(call.spec, recovery_steps, AlreadyUnlocked, AlreadySeenOrders) = {}
<1> DEFINE steps == recovery_steps
           unlocked == AlreadyUnlocked
           seen == AlreadySeenOrders
<1> SUFFICES ASSUME NEW i \in DOMAIN steps
             PROVE  StepErrors(call.spec, steps[i], UnlockedAt(call.spec, steps, i, unlocked),
                               SeenBefore(steps, i, seen)) = {}
  BY IssuesOfLoop
<1>1. /\ FailedStep.ecu_id \in EcuIds(call.spec) /\ FailedEcu.ecu_id = FailedStep.ecu_id
      /\ EcuOf(call.spec, FailedStep.ecu_id) = FailedEcu
  BY FailedEcuFound, SameEcu DEF Recoverable
<1>2. /\ i \in DOMAIN Actions /\ i \in 1 .. 3
      /\ DOMAIN steps = 1 .. Len(steps) /\ Len(steps) \in 1 .. 3
      /\ \A j \in DOMAIN steps : steps[j].order = LastOrder + j
      /\ steps[i].ecu_id = FailedStep.ecu_id
      /\ steps[i].step_type = Actions[i].step_type
      /\ steps[i].uds_service = Actions[i].uds_service
      /\ steps[i].depends_on = IF i = 1 THEN <<>> ELSE <<LastOrder + i - 1>>
  <2> DEFINE n == Len(Actions)
  <2>1. DOMAIN steps = 1 .. n /\ Len(steps) = n /\ DOMAIN Actions = 1 .. n /\ n \in 1 .. 3
    BY PolicySteps, PolicyActions
  <2> HIDE DEF n
  <2>2. i \in 1 .. n /\ i \in 1 .. 3
    BY <2>1
  <2> QED BY <1>1, <2>1, <2>2, PolicySteps
<1>3. Retry[1].step_type = FailedStep.step_type /\ Retry[1].uds_service = FailedStep.uds_service
  BY DEF Retry, Action
<1>4. /\ FailedStep.uds_service \in {NoService} \cup FailedEcu.supported
      /\ FailedStep.step_type \in Gated /\ "0x27" \in FailedEcu.supported =>
           FailedStep.ecu_id \in AlreadyUnlocked
  BY <1>1, FailedStepAllowed
<1>5. /\ steps[i].uds_service \in {NoService} \cup FailedEcu.supported
      /\ steps[i].step_type \in Gated /\ "0x27" \in FailedEcu.supported =>
           FailedStep.ecu_id \in AlreadyUnlocked
  <2>1. CASE Actions[i] = Retry[1]
    BY <1>2, <1>3, <1>4, <2>1
  <2>2. CASE Harmless(Actions[i])
    BY <1>2, <2>2 DEF Harmless
  <2> QED BY <1>2, <2>1, <2>2, PolicyActions
<1> HIDE DEF steps, unlocked, seen
<1>6. Known(call.spec, steps[i]) /\ ~Unsupported(call.spec, steps[i])
  BY <1>1, <1>2, <1>5 DEF Known, Unsupported
<1>7. ~Locked(call.spec, steps[i], UnlockedAt(call.spec, steps, i, unlocked))
  BY <1>1, <1>2, <1>5 DEF Locked, UnlockedAt, unlocked
<1>8. Range(steps[i].depends_on) \subseteq SeenBefore(steps, i, seen)
  <2>1. CASE i = 1
    BY <1>2, <2>1 DEF Range
  <2>2. CASE i # 1
    <3>1. i - 1 \in 1 .. (i - 1) /\ i - 1 \in DOMAIN steps /\ LastOrder + (i - 1) = LastOrder + i - 1
      BY <1>2, <2>2, LastOrderHighest
    <3>2. steps[i - 1].order = LastOrder + i - 1
      BY <1>2, <3>1
    <3>3. Range(steps[i].depends_on) = {LastOrder + i - 1}
      BY <1>2, <2>2 DEF Range
    <3> QED BY <3>1, <3>2, <3>3 DEF SeenBefore
  <2> QED BY <2>1, <2>2
<1> QED BY <1>6, <1>7, <1>8 DEF StepErrors

\* and one of them repeats the step that failed: policy and validator agree.
LEMMA PolicyRecoversAlways ==
  ASSUME RunInv
  PROVE  PolicyRecovers
<1> SUFFICES ASSUME pc = "answered", provider_name = "mock-fallback", recovery_steps # <<>>,
                    Ascending(call.steps), UniqueEcus,
                    StepIssues(call.spec, call.steps, {}, {}) = {}
             PROVE  /\ IsValid(issues)
                    /\ \E s \in Range(recovery_steps) :
                         /\ s.step_type = FailedStep.step_type
                         /\ s.ecu_id = FailedStep.ecu_id
                         /\ s.uds_service = FailedStep.uds_service
  BY DEF PolicyRecovers
<1>1. call \in Calls /\ Exists /\ Recoverable /\ recovery_steps = MockRecovery
  BY DEF RunInv
<1>2. IsValid(issues)
  BY <1>1, PolicyStepsClean, ValidMeansClean
<1>3. PICK i \in DOMAIN Actions : Actions[i] = Retry[1]
  BY PolicyActions
<1>4. /\ i \in DOMAIN MockRecovery /\ MockRecovery[i].step_type = Retry[1].step_type
      /\ MockRecovery[i].ecu_id = FailedStep.ecu_id
      /\ MockRecovery[i].uds_service = Retry[1].uds_service
  <2>1. FailedEcu.ecu_id = FailedStep.ecu_id
    BY <1>1, FailedEcuFound DEF Recoverable
  <2>2. DOMAIN MockRecovery = DOMAIN Actions
    BY PolicySteps, PolicyActions
  <2>3. /\ MockRecovery[i].step_type = Actions[i].step_type
        /\ MockRecovery[i].ecu_id = FailedEcu.ecu_id
        /\ MockRecovery[i].uds_service = Actions[i].uds_service
    BY <2>2, PolicySteps
  <2> QED BY <1>3, <2>1, <2>2, <2>3
<1>5. Retry[1].step_type = FailedStep.step_type /\ Retry[1].uds_service = FailedStep.uds_service
  BY DEF Retry, Action
<1>6. recovery_steps[i] \in Range(recovery_steps)
  BY <1>1, <1>4 DEF Range
<1> QED BY <1>1, <1>2, <1>4, <1>5, <1>6

-----------------------------------------------------------------------------
(* The policy's orders                                                     *)

\* The policy's steps are a chain: each waits for the one before and for no other,
\* so they can be scheduled.
LEMMA PolicyChain ==
  ASSUME call \in Calls, Exists, Recoverable
  PROVE  /\ Timed(MockRecovery) /\ DistinctOrders(MockRecovery)
         /\ Closed(MockRecovery) /\ Acyclic(MockRecovery)
<1> DEFINE steps == MockRecovery
           n == Len(Actions)
<1>1. /\ n \in 1 .. 3 /\ DOMAIN steps = 1 .. n /\ steps \in Seq(DescribedStep) /\ LastOrder \in Int
      /\ \A i \in 1 .. n : /\ steps[i].order = LastOrder + i
                           /\ steps[i].depends_on = IF i = 1 THEN <<>> ELSE <<LastOrder + i - 1>>
  BY PolicySteps, PolicyStepsTyped, LastOrderHighest
<1> HIDE DEF steps, n
<1>2. \A i \in 1 .. n : Range(steps[i].depends_on) =
        IF i = 1 THEN {} ELSE {LastOrder + i - 1}
  <2> SUFFICES ASSUME NEW i \in 1 .. n
               PROVE  Range(steps[i].depends_on) = IF i = 1 THEN {} ELSE {LastOrder + i - 1}
    OBVIOUS
  <2>1. CASE i = 1
    <3>1. steps[i].depends_on = <<>>
      BY <1>1, <2>1
    <3> QED BY <2>1, <3>1, RangeOfShort
  <2>2. CASE i # 1
    <3>1. steps[i].depends_on = <<LastOrder + i - 1>>
      BY <1>1, <2>2
    <3> QED BY <2>2, <3>1, RangeOfShort
  <2> QED BY <2>1, <2>2
<1>3. Timed(steps)
  <2>1. \A i \in DOMAIN steps : steps[i] \in DescribedStep
    BY <1>1
  <2> QED BY <2>1 DEF Timed, DescribedStep
<1>4. DistinctOrders(steps)
  <2>1. \A i, j \in 1 .. n : i \in Int /\ j \in Int /\ (LastOrder + i = LastOrder + j => i = j)
    BY <1>1
  <2>2. ASSUME NEW i \in 1 .. n, NEW j \in 1 .. n, steps[i].order = steps[j].order
        PROVE  i = j
    <3>1. steps[i].order = LastOrder + i /\ steps[j].order = LastOrder + j
      BY <1>1
    <3> QED BY <2>1, <2>2, <3>1
  <2>3. DOMAIN steps = 1 .. n
    BY <1>1
  <2> QED BY <2>2, <2>3, Zenon DEF DistinctOrders
<1>5. Closed(steps)
  <2>1. ASSUME NEW i \in 1 .. n, i # 1
        PROVE  LastOrder + i - 1 \in Orders(steps)
    <3>1. i - 1 \in 1 .. n /\ LastOrder + (i - 1) = LastOrder + i - 1
      BY <1>1, <2>1
    <3>2. steps[i - 1].order = LastOrder + (i - 1)
      BY <1>1, <3>1
    <3>3. steps[i - 1].order \in Orders(steps)
      BY <1>1, <3>1, ListedSteps
    <3> QED BY <3>1, <3>2, <3>3
  <2>2. ASSUME NEW i \in 1 .. n
        PROVE  Range(steps[i].depends_on) \subseteq Orders(steps)
    <3>1. CASE i = 1
      BY <1>2, <3>1
    <3>2. CASE i # 1
      BY <1>2, <2>1, <3>2
    <3> QED BY <3>1, <3>2
  <2> QED BY <1>1, <2>2 DEF Closed
<1>6. Acyclic(steps)
  <2> SUFFICES ASSUME NEW T \in (SUBSET DOMAIN steps) \ {{}}
               PROVE  \E i \in T : \A j \in T : steps[j].order \notin Range(steps[i].depends_on)
    BY DEF Acyclic
  <2>1. T \in SUBSET Nat /\ T # {}
    BY <1>1
  <2>2. PICK i \in T : \A j \in T : i <= j
    BY <2>1, Least
  <2>3. i \in 1 .. n
    BY <1>1
  <2>4. ASSUME NEW j \in T
        PROVE  steps[j].order \notin Range(steps[i].depends_on)
    <3>1. j \in 1 .. n /\ i <= j /\ steps[j].order = LastOrder + j
      BY <1>1, <2>2
    <3>2. LastOrder + j # LastOrder + i - 1
      BY <1>1, <2>3, <3>1
    <3> QED BY <1>2, <2>3, <3>1, <3>2
  <2> QED BY <2>4
<1> QED BY <1>3, <1>4, <1>5, <1>6 DEF steps

\* None of their orders occurs in the program.
LEMMA PolicyOrdersNew ==
  ASSUME call \in Calls, Exists, Recoverable
  PROVE  Orders(MockRecovery) \cap Orders(call.steps) = {}
<1>1. LastOrder \in Int /\ \A i \in DOMAIN call.steps : call.steps[i].order <= LastOrder
  BY LastOrderHighest
<1>2. call.steps \in Seq(DescribedStep) /\ MockRecovery \in Seq(DescribedStep)
  BY CallTyped, PolicyStepsTyped
<1>3. \A i \in DOMAIN MockRecovery : i \in Nat /\ i >= 1 /\ MockRecovery[i].order = LastOrder + i
  <2>1. DOMAIN MockRecovery = 1 .. Len(MockRecovery)
    BY <1>2
  <2> HIDE DEF MockRecovery
  <2>2. \A i \in DOMAIN MockRecovery : i \in Nat /\ i >= 1
    BY <2>1
  <2> QED BY <2>2, PolicySteps
<1> SUFFICES ASSUME NEW o, o \in Orders(MockRecovery), o \in Orders(call.steps) PROVE FALSE
  OBVIOUS
<1>4. PICK i \in DOMAIN MockRecovery : MockRecovery[i].order = o
  BY <1>2, ListedSteps
<1>5. PICK j \in DOMAIN call.steps : call.steps[j].order = o
  BY <1>2, ListedSteps
<1>6. i \in Nat /\ i >= 1 /\ o = LastOrder + i
  BY <1>3, <1>4
<1> HIDE DEF LastOrder
<1> QED BY <1>1, <1>5, <1>6

\* The policy's steps take orders of their own, and in a parallel schedule each
\* starts when the one before has ended.
LEMMA PolicyOrdersAlways ==
  ASSUME RunInv
  PROVE  PolicyOrdersFit
<1> DEFINE steps == recovery_steps
           ends == ComputeOptimization(steps).ends
<1> SUFFICES ASSUME pc = "answered", provider_name = "mock-fallback"
             PROVE  /\ Orders(steps) \cap Orders(call.steps) = {}
                    /\ Schedulable(steps)
                    /\ \A i \in 1 .. Len(steps) - 1 :
                         ends[steps[i].order]
                           <= ends[steps[i + 1].order] - steps[i + 1].estimated_seconds
  BY DEF PolicyOrdersFit
<1>1. call \in Calls /\ Exists /\ steps = IF Recoverable THEN MockRecovery ELSE <<>>
  BY DEF RunInv
<1>2. CASE ~Recoverable
  <2>1. steps = <<>> /\ Len(steps) = 0
    BY <1>1, <1>2
  <2>2. Orders(steps) = {}
    BY <2>1 DEF Orders, Range
  <2> HIDE DEF steps, ends
  <2> QED BY <2>1, <2>2 DEF Schedulable
<1>3. CASE Recoverable
  <2>1. /\ steps = MockRecovery /\ steps # <<>> /\ steps \in Seq(DescribedStep)
        /\ Timed(steps) /\ DistinctOrders(steps) /\ Closed(steps) /\ Acyclic(steps)
        /\ Orders(steps) \cap Orders(call.steps) = {}
    BY <1>1, <1>3, PolicyStepsTyped, PolicyChain, PolicyOrdersNew
  <2>2. ends = EarliestEnd(steps)
    BY <2>1 DEF ComputeOptimization
  <2> HIDE DEF steps, ends
  <2>3. Topological(steps, TopologicalOrder(steps))
    BY ONLY <2>1, SortIsTopological
  <2>4. \A o \in Orders(steps) :
          /\ ends[o] \in Nat
          /\ BestStart(StepAt(steps, o), ends) \in Nat
          /\ ends[o] = BestStart(StepAt(steps, o), ends) + StepAt(steps, o).estimated_seconds
    BY ONLY <2>1, <2>2, <2>3, EndsCertified
  <2>5. ASSUME NEW i \in 1 .. Len(steps) - 1
        PROVE  ends[steps[i].order] <= ends[steps[i + 1].order] - steps[i + 1].estimated_seconds
    <3> DEFINE before == steps[i].order
               next == steps[i + 1]
    <3>1. i \in DOMAIN steps /\ i + 1 \in DOMAIN steps /\ i \in Nat
      BY <2>1
    <3>2. /\ next.order \in Orders(steps) /\ StepAt(steps, next.order) = next
          /\ \A o \in Orders(steps) : \E k \in DOMAIN steps : steps[k].order = o
      BY <2>1, <3>1, OneStepPerOrder
    <3>3. next.depends_on = <<LastOrder + i>> /\ before = LastOrder + i
      <4>1. i + 1 # 1 /\ LastOrder + (i + 1) - 1 = LastOrder + i
        BY <1>1, <3>1, LastOrderHighest
      <4> QED BY <2>1, <3>1, <4>1, PolicySteps
    <3> HIDE DEF before, next
    <3>4. next.depends_on \in Seq(Int) /\ next.estimated_seconds \in Nat
      BY <2>1, <3>1 DEF Timed, next
    <3>5. Range(next.depends_on) = {before}
      BY <3>3 DEF Range
    <3>6. before \in Orders(steps)
      BY <2>1, <3>1, ListedSteps DEF before
    <3>7. ends[before] <= BestStart(next, ends)
      BY <2>4, <3>4, <3>5, <3>6, BestStartLatest
    <3>8. /\ ends[before] \in Nat /\ ends[next.order] \in Nat /\ BestStart(next, ends) \in Nat
          /\ ends[next.order] = BestStart(next, ends) + next.estimated_seconds
      BY <2>4, <3>2, <3>6
    <3>9. ends[before] <= ends[next.order] - next.estimated_seconds
      BY ONLY <3>4, <3>7, <3>8
    <3> QED BY <3>9 DEF before, next
  <2> QED BY <2>1, <2>5 DEF Schedulable
<1> QED BY <1>2, <1>3

\* The deterministic policy is sound: its steps recover, and fit the program they
\* are for.
THEOREM PolicyIsSound == Spec => []PolicySound
<1>1. RunInv => PolicySound
  BY PolicyRecoversAlways, PolicyOrdersAlways DEF PolicySound
<1> QED BY <1>1, RunInvAlways, PTL

===============================================================================
