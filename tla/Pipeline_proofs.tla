--------------------------- MODULE Pipeline_proofs ---------------------------
(***************************************************************************)
(* Proofs about Pipeline, for every set of requests, every LLM and every   *)
(* bound: its types; that the verdict in an answer is the verdict on the   *)
(* program in the answer, and the gate of the export agrees with it; that  *)
(* what is delivered runs on the bench; that the offline planner only      *)
(* makes plans that are programs, valid, and safe to run in parallel; and  *)
(* that the analytics agree with validator and scheduler.                  *)
(***************************************************************************)
EXTENDS Pipeline, Operators_proofs, TLAPS

\* No turn of the validator's loop over the steps reports anything.
ErrorFree(spec, steps) ==
  \A i \in DOMAIN steps :
    StepErrors(spec, steps[i], UnlockedAt(spec, steps, i, {}),
               SeenBefore(steps, i, {})) = {}

\* While the request is served the findings are as old as the last round of
\* repair, but their verdict is the one a fresh validation would give.
VerdictInv ==
  /\ pc \in {"repair", "notes", "durations", "schedule"} => (IsValid(issues) <=> Gate)
  /\ pc = "repair" => ~IsValid(issues)
  /\ VerdictStillHolds

\* What is exported has passed the gate, what is refused has not.
ExportInv ==
  /\ export.result # "none" => pc = "answered"
  /\ export.result \in {"otx", "csv"} => Gate
  /\ export.result = "refused" => ~Gate

IInv ==
  /\ call \in Calls
  /\ TypeOK
  /\ pc = "generate" => repair_attempts = 0
  /\ pc = "repair" => provider_name \in Providers
  /\ pc \notin {"generate", "failed"} => program \in Program
  /\ VerdictInv
  /\ ExportInv
  /\ SmallVehiclesAnswered

-----------------------------------------------------------------------------
(* The validator                                                           *)

\* Coverage and the wording of the notes never make a program invalid.
LEMMA OnlyWarnings ==
  ASSUME NEW spec, NEW steps, NEW claims
  PROVE  \A issue \in CoverageIssues(spec, steps) \cup NotesIssues(claims) :
           issue.severity = "warning"
<1>1. \A about, orders, id : Issue("warning", about, orders, id).severity = "warning"
  BY DEF Issue
<1>2. \A issue \in NotesIssues(claims) : issue.severity = "warning"
  BY <1>1 DEF NotesIssues
<1>3. \A issue \in CoverageIssues(spec, steps) : issue.severity = "warning"
  BY <1>1 DEF CoverageIssues
<1> QED BY <1>2, <1>3

\* Each turn of the loop reports errors only, and the loop reports none exactly
\* if no turn does.
LEMMA LoopErrors ==
  ASSUME NEW spec, NEW steps
  PROVE  /\ \A issue \in StepIssues(spec, steps, {}, {}) : issue.severity = "error"
         /\ IsValid(StepIssues(spec, steps, {}, {})) <=> ErrorFree(spec, steps)
<1> DEFINE Found(i) == StepErrors(spec, steps[i], UnlockedAt(spec, steps, i, {}),
                                  SeenBefore(steps, i, {}))
<1>1. StepIssues(spec, steps, {}, {}) =
        UNION {{Issue("error", about, <<steps[i].order>>, steps[i].ecu_id) :
                  about \in Found(i)} : i \in DOMAIN steps}
  BY DEF StepIssues
<1>2. ErrorFree(spec, steps) <=> \A i \in DOMAIN steps : Found(i) = {}
  BY DEF ErrorFree
<1> HIDE DEF Found
<1>3. \A issue : issue \in StepIssues(spec, steps, {}, {}) <=>
        \E i \in DOMAIN steps : \E about \in Found(i) :
          issue = Issue("error", about, <<steps[i].order>>, steps[i].ecu_id)
  BY <1>1
<1>4. \A about, orders, id : Issue("error", about, orders, id).severity = "error"
  BY DEF Issue
<1>5. ASSUME NEW issue \in StepIssues(spec, steps, {}, {})
      PROVE  issue.severity = "error"
  <2>1. PICK i \in DOMAIN steps : \E about \in Found(i) :
          issue = Issue("error", about, <<steps[i].order>>, steps[i].ecu_id)
    BY <1>3
  <2> QED BY <1>4, <2>1
<1>6. (\A issue : issue \notin StepIssues(spec, steps, {}, {})) <=>
        \A i \in DOMAIN steps : Found(i) = {}
  BY <1>3
<1> QED BY <1>2, <1>5, <1>6 DEF IsValid

\* The parts a validation is made of: findings about the vehicle, about the order
\* of the steps, from the loop over them and about the program as a whole.
LEMMA Parts ==
  ASSUME NEW spec, NEW prog
  PROVE  \E vehicle, gaps :
           /\ prog.vehicle_id = spec.vehicle_id => vehicle = {}
           /\ prog.vehicle_id # spec.vehicle_id => vehicle # {}
           /\ \A issue \in vehicle : issue.severity = "error"
           /\ \A issue \in gaps : issue.severity = "warning"
           /\ prog.steps = <<>> =>
                \E none : /\ none.severity = "error"
                          /\ ValidateProgram(spec, prog) = vehicle \cup {none}
           /\ prog.steps # <<>> =>
                ValidateProgram(spec, prog) =
                  vehicle \cup (gaps \cup StepIssues(spec, prog.steps, {}, {})
                    \cup CoverageIssues(spec, prog.steps) \cup NotesIssues(prog.claims))
<1> DEFINE other == Issue("error", "other_vehicle", <<>>, NoEcu)
           gap == Issue("warning", "not_contiguous", <<>>, NoEcu)
           none == Issue("error", "no_steps", <<>>, NoEcu)
           vehicle == IF prog.vehicle_id = spec.vehicle_id THEN {} ELSE {other}
           gaps == IF Contiguous(prog.steps) THEN {} ELSE {gap}
<1>1. other.severity = "error" /\ gap.severity = "warning" /\ none.severity = "error"
  BY DEF Issue
<1>2. prog.steps = <<>> => ValidateProgram(spec, prog) = vehicle \cup {none}
  BY DEF ValidateProgram
<1>3. prog.steps # <<>> =>
        ValidateProgram(spec, prog) =
          vehicle \cup (gaps \cup StepIssues(spec, prog.steps, {}, {})
            \cup CoverageIssues(spec, prog.steps) \cup NotesIssues(prog.claims))
  BY DEF ValidateProgram
<1> HIDE DEF other, gap, none
<1>4. /\ prog.vehicle_id = spec.vehicle_id => vehicle = {}
      /\ prog.vehicle_id # spec.vehicle_id => vehicle # {}
      /\ \A issue \in vehicle : issue.severity = "error"
  BY <1>1
<1>5. \A issue \in gaps : issue.severity = "warning"
  BY <1>1
<1> HIDE DEF vehicle, gaps
<1> QED BY <1>1, <1>2, <1>3, <1>4, <1>5

\* What makes a program valid: it is for this vehicle, has steps, and every turn
\* of the loop is content.  Whatever it is like, a finding is an error or a warning.
LEMMA ValidMeans ==
  ASSUME NEW spec, NEW prog
  PROVE  /\ IsValid(ValidateProgram(spec, prog)) <=>
              /\ prog.vehicle_id = spec.vehicle_id
              /\ prog.steps # <<>>
              /\ ErrorFree(spec, prog.steps)
         /\ \A issue \in ValidateProgram(spec, prog) :
              issue.severity \in {"error", "warning"}
<1>1. PICK vehicle, gaps :
        /\ prog.vehicle_id = spec.vehicle_id => vehicle = {}
        /\ prog.vehicle_id # spec.vehicle_id => vehicle # {}
        /\ \A issue \in vehicle : issue.severity = "error"
        /\ \A issue \in gaps : issue.severity = "warning"
        /\ prog.steps = <<>> =>
             \E none : /\ none.severity = "error"
                       /\ ValidateProgram(spec, prog) = vehicle \cup {none}
        /\ prog.steps # <<>> =>
             ValidateProgram(spec, prog) =
               vehicle \cup (gaps \cup StepIssues(spec, prog.steps, {}, {})
                 \cup CoverageIssues(spec, prog.steps) \cup NotesIssues(prog.claims))
  BY Parts
<1>2. CASE prog.steps = <<>>
  BY <1>1, <1>2 DEF IsValid
<1>3. CASE prog.steps # <<>>
  <2>1. \A issue \in CoverageIssues(spec, prog.steps) \cup NotesIssues(prog.claims) :
          issue.severity = "warning"
    BY OnlyWarnings
  <2>2. /\ \A issue \in StepIssues(spec, prog.steps, {}, {}) : issue.severity = "error"
        /\ IsValid(StepIssues(spec, prog.steps, {}, {})) <=> ErrorFree(spec, prog.steps)
    BY LoopErrors
  <2> QED BY <1>1, <1>3, <2>1, <2>2 DEF IsValid
<1> QED BY <1>2, <1>3

\* Two lists of steps the validator cannot tell apart.
Alike(s, t) ==
  /\ Len(s) = Len(t)
  /\ \A i \in 1..Len(s) :
       /\ s[i].order = t[i].order
       /\ s[i].step_type = t[i].step_type
       /\ s[i].ecu_id = t[i].ecu_id
       /\ s[i].uds_service = t[i].uds_service
       /\ s[i].depends_on = t[i].depends_on

\* Such lists get the same verdict.
LEMMA AlikeErrorFree ==
  ASSUME NEW spec, NEW s \in Seq(Step), NEW t \in Seq(Step), Alike(s, t)
  PROVE  ErrorFree(spec, s) <=> ErrorFree(spec, t)
<1>1. DOMAIN s = 1..Len(s) /\ DOMAIN t = 1..Len(s) /\ Len(s) \in Nat
  BY DEF Alike
<1>2. ASSUME NEW i \in 1..Len(s)
      PROVE  StepErrors(spec, s[i], UnlockedAt(spec, s, i, {}), SeenBefore(s, i, {}))
               = StepErrors(spec, t[i], UnlockedAt(spec, t, i, {}), SeenBefore(t, i, {}))
  <2>1. \A j \in 1..i : j \in 1..Len(s)
    BY <1>1
  <2>2. SeenBefore(s, i, {}) = SeenBefore(t, i, {})
    <3>1. \A j \in 1 .. (i - 1) : j \in 1..Len(s)
      BY <1>1
    <3>2. \A j \in 1 .. (i - 1) : s[j].order = t[j].order
      BY <3>1, Zenon DEF Alike
    <3>3. {s[j].order : j \in 1 .. (i - 1)} = {t[j].order : j \in 1 .. (i - 1)}
      BY <3>2, Zenon
    <3> QED BY <3>3, Zenon DEF SeenBefore
  <2>3. UnlockedAt(spec, s, i, {}) = UnlockedAt(spec, t, i, {})
    BY <2>1 DEF UnlockedAt, Alike, Known
  <2>4. /\ s[i].step_type = t[i].step_type /\ s[i].ecu_id = t[i].ecu_id
        /\ s[i].uds_service = t[i].uds_service /\ s[i].depends_on = t[i].depends_on
    BY DEF Alike
  <2>5. /\ Known(spec, s[i]) = Known(spec, t[i])
        /\ Unsupported(spec, s[i]) = Unsupported(spec, t[i])
        /\ \A unlocked : Locked(spec, s[i], unlocked) = Locked(spec, t[i], unlocked)
    BY <2>4 DEF Known, Unsupported, Locked
  <2> QED BY <2>2, <2>3, <2>4, <2>5 DEF StepErrors
<1> QED BY <1>1, <1>2 DEF ErrorFree

\* So validating a program again after its notes and its durations were changed
\* comes to the same verdict.
LEMMA SameVerdict ==
  ASSUME NEW spec, NEW p \in Program, NEW q \in Program,
         p.vehicle_id = q.vehicle_id, Alike(p.steps, q.steps)
  PROVE  IsValid(ValidateProgram(spec, p)) <=> IsValid(ValidateProgram(spec, q))
<1>1. p.steps \in Seq(Step) /\ q.steps \in Seq(Step)
  BY DEF Program
<1>2. p.steps = <<>> <=> q.steps = <<>>
  BY <1>1 DEF Alike
<1> QED BY <1>1, <1>2, AlikeErrorFree, ValidMeans

\* The validator never looks for cycles, but a program it calls valid has none:
\* every dependency is listed earlier, so it can be scheduled unless orders are
\* repeated.
LEMMA ValidSchedulable ==
  ASSUME NEW spec, NEW prog \in Program, IsValid(ValidateProgram(spec, prog)),
         DistinctOrders(prog.steps)
  PROVE  Schedulable(prog.steps)
<1> DEFINE s == prog.steps
<1>1. s \in Seq(Step) /\ DOMAIN s = 1..Len(s) /\ Len(s) \in Nat
  BY DEF Program
<1>2. ErrorFree(spec, s)
  BY ValidMeans
<1>3. ASSUME NEW i \in DOMAIN s, NEW d \in Range(s[i].depends_on)
      PROVE  \E j \in 1 .. (i - 1) : d = s[j].order
  <2>1. StepErrors(spec, s[i], UnlockedAt(spec, s, i, {}), SeenBefore(s, i, {})) = {}
    BY <1>2 DEF ErrorFree
  <2>2. Range(s[i].depends_on) \subseteq SeenBefore(s, i, {})
    BY <2>1 DEF StepErrors
  <2> QED BY <2>2 DEF SeenBefore
<1> HIDE DEF s
<1>4. Closed(s)
  <2> SUFFICES ASSUME NEW i \in DOMAIN s, NEW d \in Range(s[i].depends_on)
               PROVE  d \in Orders(s)
    BY DEF Closed
  <2>1. PICK j \in 1 .. (i - 1) : d = s[j].order
    BY <1>3
  <2>2. j \in DOMAIN s
    BY <1>1
  <2> QED BY <2>1, <2>2 DEF Orders, Range
<1>5. Acyclic(s)
  <2> SUFFICES ASSUME NEW S \in (SUBSET DOMAIN s) \ {{}}
               PROVE  \E i \in S : \A j \in S : s[j].order \notin Range(s[i].depends_on)
    BY DEF Acyclic
  <2>1. S \in SUBSET Nat /\ S # {} /\ S \subseteq DOMAIN s
    <3>1. S \subseteq DOMAIN s /\ S # {}
      OBVIOUS
    <3>2. DOMAIN s \subseteq Nat
      BY <1>1
    <3> QED BY <3>1, <3>2
  <2>2. PICK i \in S : \A k \in S : i <= k
    BY <2>1, Least
  <2>3. ASSUME NEW j \in S, s[j].order \in Range(s[i].depends_on)
        PROVE  FALSE
    <3>1. PICK k \in 1 .. (i - 1) : s[j].order = s[k].order
      BY <1>3, <2>3
    <3>2. k \in DOMAIN s
      BY <1>1
    <3>3. j = k
      BY <3>1, <3>2 DEF DistinctOrders, s
    <3> QED BY <1>1, <2>1, <2>2, <3>1, <3>3
  <2> QED BY <2>3
<1> QED BY <1>4, <1>5 DEF Schedulable, s

\* The ECU a step names has a target version the duration model knows of.
LEMMA TargetType ==
  ASSUME NEW c \in Calls, NEW step, Known(c.spec, step)
  PROVE  EcuOf(c.spec, step.ecu_id).target \in Versions \cup {NoVersion}
<1> DEFINE ecus == c.spec.ecus
           named == {i \in DOMAIN ecus : ecus[i].ecu_id = step.ecu_id}
<1>1. ecus \in Seq(Ecu) /\ DOMAIN ecus = 1..Len(ecus) /\ Len(ecus) \in Nat
  BY PipelineAssumption DEF VehicleSpec
<1>2. named \in SUBSET (1..Len(ecus)) /\ named # {}
  BY <1>1 DEF Known, EcuIds, Range
<1>3. PICK m \in named : \A k \in named : k <= m
  BY <1>1, <1>2, Greatest
<1>4. \E i \in DOMAIN ecus : EcuOf(c.spec, step.ecu_id) = ecus[i]
  BY <1>3 DEF EcuOf
<1> QED BY <1>4, PipelineAssumption

-----------------------------------------------------------------------------
(* The offline planner: the steps of one ECU                               *)

PlanTypes == {"diagnostic_session", "security_access", "flash_software", "write_parameter",
              "validation"}

RankOf(type) == CASE type = "diagnostic_session" -> 1 [] type = "security_access" -> 2
                  [] type = "flash_software" -> 3 [] type = "write_parameter" -> 4
                  [] type = "validation" -> 5

\* s lists the types of W, none twice and each before those of higher rank; the
\* ranks go up to k.
Ranked(s, k, W) ==
  /\ s \in Seq(PlanTypes)
  /\ \A i, j \in 1 .. Len(s) : i < j => RankOf(s[i]) < RankOf(s[j])
  /\ \A i \in 1 .. Len(s) : RankOf(s[i]) <= k /\ s[i] \in W
  /\ \A type \in W : \E i \in 1 .. Len(s) : s[i] = type

LEMMA RanksTyped == \A type \in PlanTypes : RankOf(type) \in 1 .. 5
  BY DEF PlanTypes, RankOf

\* So does the list with the type of the next rank put behind it, or not.
LEMMA OneTypeMore ==
  ASSUME NEW type \in PlanTypes, NEW wanted \in BOOLEAN,
         NEW s, NEW W, Ranked(s, RankOf(type) - 1, W)
  PROVE  Ranked(s \o (IF wanted THEN <<type>> ELSE <<>>), RankOf(type),
                {t \in W \cup {type} : t = type => wanted})
<1> DEFINE m == RankOf(type)
           k == m - 1
           V == {t \in W \cup {type} : t = type => wanted}
<1>0. m \in Nat /\ k \in Nat /\ m = k + 1 /\ Ranked(s, k, W) /\ RankOf(type) = m
  <2>1. m \in 1 .. 5
    BY RanksTyped
  <2> HIDE DEF m
  <2>2. m \in Nat /\ k \in Nat /\ m = k + 1
    BY <2>1
  <2> QED BY <2>2 DEF m
<1> HIDE DEF m, k
<1>1. /\ s \in Seq(PlanTypes) /\ Len(s) \in Nat /\ type \notin W
      /\ \A i \in 1 .. Len(s) : RankOf(s[i]) \in Nat
  <2>1. s \in Seq(PlanTypes)
    BY <1>0 DEF Ranked
  <2>2. \A i \in 1 .. Len(s) : s[i] \in PlanTypes
    BY <2>1
  <2>3. type \notin W
    BY <1>0 DEF Ranked
  <2> QED BY <2>1, <2>2, <2>3, RanksTyped
<1>2. CASE ~wanted
  <2>1. s \o <<>> = s
    BY <1>1, ConcatEmptySeq
  <2>2. V = W
    BY <1>1, <1>2
  <2>3. Ranked(s, m, W)
    BY <1>0, <1>1 DEF Ranked
  <2> QED BY <1>2, <2>1, <2>2, <2>3 DEF m
<1>3. CASE wanted
  <2> DEFINE r == s \o <<type>>
  <2>1. /\ r = Append(s, type) /\ r \in Seq(PlanTypes) /\ Len(r) = Len(s) + 1
        /\ \A i \in 1 .. Len(s) : r[i] = s[i]
        /\ r[Len(s) + 1] = type
    BY <1>1, AppendIsConcat, AppendProperties
  <2>2. V = W \cup {type}
    BY <1>3
  <2> HIDE DEF r
  <2>3. \A i \in 1 .. Len(r) : i \in 1 .. Len(s) \/ i = Len(s) + 1
    BY <1>0, <1>1, <2>1
  <2>4. \A i \in 1 .. Len(r) : RankOf(r[i]) <= m /\ r[i] \in V
    BY <1>0, <1>1, <2>1, <2>2, <2>3 DEF Ranked
  <2>5. \A i, j \in 1 .. Len(r) : i < j => RankOf(r[i]) < RankOf(r[j])
    BY <1>0, <1>1, <2>1, <2>3 DEF Ranked
  <2>6. \A t \in V : \E i \in 1 .. Len(r) : r[i] = t
    <3>1. \A i \in 1 .. Len(s) : i \in 1 .. Len(r)
      BY <1>0, <1>1, <2>1
    <3>2. Len(s) + 1 \in 1 .. Len(r)
      BY <1>0, <1>1, <2>1
    <3> QED BY <2>1, <2>2, <3>1, <3>2 DEF Ranked
  <2>7. Ranked(r, m, V)
    BY <2>1, <2>4, <2>5, <2>6 DEF Ranked
  <2>8. V = {t \in W \cup {type} : t = type => wanted}
    OBVIOUS
  <2> QED BY <1>3, <2>2, <2>7, <2>8 DEF r, m
<1> QED BY <1>0, <1>2, <1>3 DEF m

\* What is planned for an ECU is what is wanted of it, each type once and in the
\* order of their ranks.
LEMMA PlannedIsRanked ==
  ASSUME NEW ecu
  PROVE  Ranked(Planned(ecu), 5, {type \in PlanTypes : Wanted(ecu, type)})
<1> DEFINE Maybe(type) == IF Wanted(ecu, type) THEN <<type>> ELSE <<>>
           W(k) == {type \in PlanTypes : RankOf(type) <= k /\ Wanted(ecu, type)}
<1>1. /\ W(1) = {t \in {} \cup {"diagnostic_session"} :
                   t = "diagnostic_session" => Wanted(ecu, "diagnostic_session")}
      /\ W(2) = {t \in W(1) \cup {"security_access"} :
                   t = "security_access" => Wanted(ecu, "security_access")}
      /\ W(3) = {t \in W(2) \cup {"flash_software"} :
                   t = "flash_software" => Wanted(ecu, "flash_software")}
      /\ W(4) = {t \in W(3) \cup {"write_parameter"} :
                   t = "write_parameter" => Wanted(ecu, "write_parameter")}
      /\ W(5) = {t \in W(4) \cup {"validation"} :
                   t = "validation" => Wanted(ecu, "validation")}
      /\ W(5) = {type \in PlanTypes : Wanted(ecu, type)}
  BY DEF PlanTypes, RankOf
<1>2. /\ Wanted(ecu, "diagnostic_session") \in BOOLEAN
      /\ Wanted(ecu, "security_access") \in BOOLEAN
      /\ Wanted(ecu, "flash_software") \in BOOLEAN
      /\ Wanted(ecu, "write_parameter") \in BOOLEAN
      /\ Wanted(ecu, "validation") \in BOOLEAN
  BY DEF Wanted
<1>3. /\ "diagnostic_session" \in PlanTypes /\ RankOf("diagnostic_session") = 1
      /\ "security_access" \in PlanTypes /\ RankOf("security_access") = 2
      /\ "flash_software" \in PlanTypes /\ RankOf("flash_software") = 3
      /\ "write_parameter" \in PlanTypes /\ RankOf("write_parameter") = 4
      /\ "validation" \in PlanTypes /\ RankOf("validation") = 5
  BY DEF PlanTypes, RankOf
<1>4. Ranked(<<>>, 0, {})
  BY DEF Ranked
<1> DEFINE p0 == <<>>
           p1 == p0 \o Maybe("diagnostic_session")
           p2 == p1 \o Maybe("security_access")
           p3 == p2 \o Maybe("flash_software")
           p4 == p3 \o Maybe("write_parameter")
           p5 == p4 \o Maybe("validation")
<1> HIDE DEF W
<1>5. Ranked(p1, 1, W(1))
  <2>1. W(1) = {t \in {} \cup {"diagnostic_session"} : t = "diagnostic_session" => Wanted(ecu, "diagnostic_session")}
    BY <1>1
  <2>2. /\ "diagnostic_session" \in PlanTypes /\ RankOf("diagnostic_session") = 1
        /\ 0 \in Nat /\ 1 = 0 + 1
        /\ Wanted(ecu, "diagnostic_session") \in BOOLEAN
    BY <1>2, <1>3
  <2>3. Ranked(p0, 0, {})
    BY <1>4
  <2> HIDE DEF p0
  <2>4. Ranked(p0, RankOf("diagnostic_session") - 1, {})
    BY <2>2, <2>3
  <2>5. Ranked(p0 \o (IF Wanted(ecu, "diagnostic_session") THEN <<"diagnostic_session">> ELSE <<>>), RankOf("diagnostic_session"),
               {t \in {} \cup {"diagnostic_session"} : t = "diagnostic_session" => Wanted(ecu, "diagnostic_session")})
    BY ONLY <2>2, <2>4, OneTypeMore
  <2> QED BY <2>1, <2>2, <2>5
<1>6. Ranked(p2, 2, W(2))
  <2>1. W(2) = {t \in W(1) \cup {"security_access"} : t = "security_access" => Wanted(ecu, "security_access")}
    BY <1>1
  <2>2. /\ "security_access" \in PlanTypes /\ RankOf("security_access") = 2
        /\ 1 \in Nat /\ 2 = 1 + 1
        /\ Wanted(ecu, "security_access") \in BOOLEAN
    BY <1>2, <1>3
  <2>3. Ranked(p1, 1, W(1))
    BY <1>5
  <2> HIDE DEF p1
  <2>4. Ranked(p1, RankOf("security_access") - 1, W(1))
    BY <2>2, <2>3
  <2>5. Ranked(p1 \o (IF Wanted(ecu, "security_access") THEN <<"security_access">> ELSE <<>>), RankOf("security_access"),
               {t \in W(1) \cup {"security_access"} : t = "security_access" => Wanted(ecu, "security_access")})
    BY ONLY <2>2, <2>4, OneTypeMore
  <2> QED BY <2>1, <2>2, <2>5
<1>7. Ranked(p3, 3, W(3))
  <2>1. W(3) = {t \in W(2) \cup {"flash_software"} : t = "flash_software" => Wanted(ecu, "flash_software")}
    BY <1>1
  <2>2. /\ "flash_software" \in PlanTypes /\ RankOf("flash_software") = 3
        /\ 2 \in Nat /\ 3 = 2 + 1
        /\ Wanted(ecu, "flash_software") \in BOOLEAN
    BY <1>2, <1>3
  <2>3. Ranked(p2, 2, W(2))
    BY <1>6
  <2> HIDE DEF p2
  <2>4. Ranked(p2, RankOf("flash_software") - 1, W(2))
    BY <2>2, <2>3
  <2>5. Ranked(p2 \o (IF Wanted(ecu, "flash_software") THEN <<"flash_software">> ELSE <<>>), RankOf("flash_software"),
               {t \in W(2) \cup {"flash_software"} : t = "flash_software" => Wanted(ecu, "flash_software")})
    BY ONLY <2>2, <2>4, OneTypeMore
  <2> QED BY <2>1, <2>2, <2>5
<1>8. Ranked(p4, 4, W(4))
  <2>1. W(4) = {t \in W(3) \cup {"write_parameter"} : t = "write_parameter" => Wanted(ecu, "write_parameter")}
    BY <1>1
  <2>2. /\ "write_parameter" \in PlanTypes /\ RankOf("write_parameter") = 4
        /\ 3 \in Nat /\ 4 = 3 + 1
        /\ Wanted(ecu, "write_parameter") \in BOOLEAN
    BY <1>2, <1>3
  <2>3. Ranked(p3, 3, W(3))
    BY <1>7
  <2> HIDE DEF p3
  <2>4. Ranked(p3, RankOf("write_parameter") - 1, W(3))
    BY <2>2, <2>3
  <2>5. Ranked(p3 \o (IF Wanted(ecu, "write_parameter") THEN <<"write_parameter">> ELSE <<>>), RankOf("write_parameter"),
               {t \in W(3) \cup {"write_parameter"} : t = "write_parameter" => Wanted(ecu, "write_parameter")})
    BY ONLY <2>2, <2>4, OneTypeMore
  <2> QED BY <2>1, <2>2, <2>5
<1>9. Ranked(p5, 5, W(5))
  <2>1. W(5) = {t \in W(4) \cup {"validation"} : t = "validation" => Wanted(ecu, "validation")}
    BY <1>1
  <2>2. /\ "validation" \in PlanTypes /\ RankOf("validation") = 5
        /\ 4 \in Nat /\ 5 = 4 + 1
        /\ Wanted(ecu, "validation") \in BOOLEAN
    BY <1>2, <1>3
  <2>3. Ranked(p4, 4, W(4))
    BY <1>8
  <2> HIDE DEF p4
  <2>4. Ranked(p4, RankOf("validation") - 1, W(4))
    BY <2>2, <2>3
  <2>5. Ranked(p4 \o (IF Wanted(ecu, "validation") THEN <<"validation">> ELSE <<>>), RankOf("validation"),
               {t \in W(4) \cup {"validation"} : t = "validation" => Wanted(ecu, "validation")})
    BY ONLY <2>2, <2>4, OneTypeMore
  <2> QED BY <2>1, <2>2, <2>5
<1>10. p1 = Maybe("diagnostic_session")
  <2>1. Maybe("diagnostic_session") \in Seq(PlanTypes)
    BY <1>3
  <2> QED BY <2>1, ConcatEmptySeq
<1>12. Planned(ecu) = p5
  <2> HIDE DEF p1
  <2> QED BY <1>10 DEF Planned
<1> HIDE DEF p5
<1> QED BY <1>1, <1>9, <1>12

\* The same, as it is used below.
LEMMA PlannedMeans ==
  ASSUME NEW ecu
  PROVE  /\ Planned(ecu) \in Seq(PlanTypes) /\ Len(Planned(ecu)) \in Nat
         /\ DOMAIN Planned(ecu) = 1 .. Len(Planned(ecu))
         /\ \A i \in 1 .. Len(Planned(ecu)) :
              Planned(ecu)[i] \in PlanTypes /\ Wanted(ecu, Planned(ecu)[i])
         /\ \A i, j \in 1 .. Len(Planned(ecu)) :
              /\ RankOf(Planned(ecu)[i]) < RankOf(Planned(ecu)[j]) => i < j
              /\ i < j => RankOf(Planned(ecu)[i]) < RankOf(Planned(ecu)[j])
         /\ \A type \in PlanTypes : Wanted(ecu, type) =>
              \E i \in 1 .. Len(Planned(ecu)) : Planned(ecu)[i] = type
<1> DEFINE p == Planned(ecu)
           W == {type \in PlanTypes : Wanted(ecu, type)}
<1>1. Ranked(p, 5, W)
  BY PlannedIsRanked
<1>2. W \subseteq PlanTypes /\ (\A t \in W : Wanted(ecu, t))
      /\ (\A t \in PlanTypes : Wanted(ecu, t) => t \in W)
  OBVIOUS
<1> HIDE DEF p, W
<1>3. p \in Seq(PlanTypes)
  BY <1>1 DEF Ranked
<1>4. \A i \in 1 .. Len(p) : p[i] \in PlanTypes /\ RankOf(p[i]) \in Int
  BY <1>3, RanksTyped
<1>5. \A i, j \in 1 .. Len(p) :
        /\ RankOf(p[i]) < RankOf(p[j]) => i < j
        /\ i < j => RankOf(p[i]) < RankOf(p[j])
  <2>1. \A i, j \in 1 .. Len(p) : i < j => RankOf(p[i]) < RankOf(p[j])
    BY <1>1 DEF Ranked
  <2>2. ASSUME NEW i \in 1 .. Len(p), NEW j \in 1 .. Len(p), RankOf(p[i]) < RankOf(p[j])
        PROVE  i < j
    <3>1. i # j
      BY <1>4, <2>2
    <3>2. ~(j < i)
      BY <1>4, <2>1, <2>2
    <3> QED BY <3>1, <3>2
  <2> QED BY <2>1, <2>2
<1>6. (\A i \in 1 .. Len(p) : p[i] \in W) /\ (\A t \in W : \E i \in 1 .. Len(p) : p[i] = t)
  BY <1>1 DEF Ranked
<1>7. Len(p) \in Nat /\ DOMAIN p = 1 .. Len(p)
  BY <1>3
<1>8. /\ \A i \in 1 .. Len(p) : p[i] \in PlanTypes /\ Wanted(ecu, p[i])
      /\ \A t \in PlanTypes : Wanted(ecu, t) => \E i \in 1 .. Len(p) : p[i] = t
  BY <1>2, <1>4, <1>6
<1> QED BY ONLY <1>3, <1>5, <1>7, <1>8 DEF p

\* There are no more of them than ranks.
LEMMA PlannedFew ==
  ASSUME NEW ecu
  PROVE  Len(Planned(ecu)) \in 0 .. 5
<1> DEFINE p == Planned(ecu)
<1>1. /\ Len(p) \in Nat /\ \A i \in 1 .. Len(p) : RankOf(p[i]) \in 1 .. 5
      /\ \A i, j \in 1 .. Len(p) : i < j => RankOf(p[i]) < RankOf(p[j])
  BY PlannedMeans, RanksTyped
<1> HIDE DEF p
<1>2. ~(Len(p) > 5)
  <2> SUFFICES ASSUME Len(p) > 5 PROVE FALSE
    OBVIOUS
  <2>1. \A i \in 1 .. 6 : i \in 1 .. Len(p)
    BY <1>1
  <2>2. /\ RankOf(p[1]) < RankOf(p[2]) /\ RankOf(p[2]) < RankOf(p[3])
        /\ RankOf(p[3]) < RankOf(p[4]) /\ RankOf(p[4]) < RankOf(p[5])
        /\ RankOf(p[5]) < RankOf(p[6])
        /\ \A i \in 1 .. 6 : RankOf(p[i]) \in 1 .. 5
    BY <1>1, <2>1
  <2> QED BY <2>2
<1>3. PICK n : n = Len(p)
  OBVIOUS
<1>4. n \in Nat /\ ~(n > 5)
  BY <1>1, <1>2, <1>3
<1>5. n \in 0 .. 5
  BY ONLY <1>4
<1> QED BY <1>3, <1>5 DEF p

\* A concatenation holds what its parts hold.
LEMMA RangeOfBoth ==
  ASSUME NEW S, NEW s \in Seq(S), NEW t \in Seq(S)
  PROVE  s \o t \in Seq(S) /\ Range(s \o t) = Range(s) \cup Range(t)
<1> DEFINE r == s \o t
<1>1. /\ r \in Seq(S) /\ Len(r) = Len(s) + Len(t)
      /\ \A i \in 1 .. Len(s) + Len(t) :
           r[i] = IF i <= Len(s) THEN s[i] ELSE t[i - Len(s)]
      /\ Len(s) \in Nat /\ Len(t) \in Nat
  BY ConcatProperties, LenProperties
<1>2. DOMAIN s = 1 .. Len(s) /\ DOMAIN t = 1 .. Len(t) /\ DOMAIN r = 1 .. Len(r)
  BY <1>1, LenProperties
<1> HIDE DEF r
<1>3. \A i \in DOMAIN r : r[i] \in Range(s) \cup Range(t)
  <2> SUFFICES ASSUME NEW i \in DOMAIN r PROVE r[i] \in Range(s) \cup Range(t)
    OBVIOUS
  <2>1. i <= Len(s) => i \in DOMAIN s
    BY <1>1, <1>2
  <2>2. ~(i <= Len(s)) => i - Len(s) \in DOMAIN t
    BY <1>1, <1>2
  <2> QED BY <1>1, <1>2, <2>1, <2>2 DEF Range
<1>4. \A i \in DOMAIN s : i \in DOMAIN r /\ r[i] = s[i]
  BY <1>1, <1>2
<1>5. \A i \in DOMAIN t : Len(s) + i \in DOMAIN r /\ r[Len(s) + i] = t[i]
  <2> SUFFICES ASSUME NEW i \in DOMAIN t
               PROVE  Len(s) + i \in DOMAIN r /\ r[Len(s) + i] = t[i]
    OBVIOUS
  <2>1. /\ Len(s) + i \in 1 .. Len(s) + Len(t) /\ ~(Len(s) + i <= Len(s))
        /\ Len(s) + i - Len(s) = i
    BY <1>1, <1>2
  <2> QED BY <1>1, <1>2, <2>1
<1>6. \A x \in Range(s) \cup Range(t) : x \in Range(r)
  BY <1>4, <1>5 DEF Range
<1>7. \A x \in Range(r) : x \in Range(s) \cup Range(t)
  BY <1>3 DEF Range
<1>8. Range(r) = Range(s) \cup Range(t)
  BY <1>6, <1>7
<1> QED BY <1>1, <1>8 DEF r

\* A planned step waits for earlier ones only, and for the one before it; but for a
\* validation that has nothing to validate.
LEMMA PrereqMeans ==
  ASSUME NEW ecu, NEW i \in 1 .. Len(Planned(ecu))
  PROVE  /\ Prereq(Planned(ecu), i) \in Seq(1 .. (i - 1))
         /\ Planned(ecu)[i] # "validation" /\ i > 1 =>
              (i - 1) \in Range(Prereq(Planned(ecu), i))
         /\ (\E j \in 1 .. Len(Planned(ecu)) : Planned(ecu)[j] \in Gated)
              /\ Planned(ecu)[i] = "validation" =>
                (i - 1) \in Range(Prereq(Planned(ecu), i))
<1> DEFINE p == Planned(ecu)
           changes == {j \in DOMAIN p : p[j] \in Gated}
           changed == IF changes # {} THEN <<i - 1>> ELSE <<>>
           session == IF p[1] = "diagnostic_session" THEN <<1>> ELSE <<>>
<1>1. /\ p \in Seq(PlanTypes) /\ DOMAIN p = 1 .. Len(p) /\ Len(p) \in Nat
      /\ \A j, k \in 1 .. Len(p) : RankOf(p[j]) < RankOf(p[k]) => j < k
      /\ i \in 1 .. Len(p)
  BY PlannedMeans
<1>2. p[i] # "validation" => Prereq(p, i) = IF i > 1 THEN <<i - 1>> ELSE <<>>
  BY DEF Prereq
<1>3. p[i] = "validation" => Prereq(p, i) = changed \o session
  BY DEF Prereq
<1> HIDE DEF p
<1>4. /\ \A j : <<j>> \in Seq({j}) /\ Range(<<j>>) = {j}
      /\ i \in Nat /\ i - 1 \in Nat /\ (i > 1 => i - 1 \in 1 .. (i - 1))
  BY <1>1, RangeOfShort
<1>5. CASE p[i] # "validation"
  <2>1. CASE i > 1
    <3>1. <<i - 1>> \in Seq(1 .. (i - 1))
      BY <1>4, <2>1
    <3> QED BY <1>2, <1>4, <1>5, <2>1, <3>1 DEF p
  <2>2. CASE ~(i > 1)
    <3>1. <<>> \in Seq(1 .. (i - 1))
      OBVIOUS
    <3> QED BY <1>2, <1>5, <2>2, <3>1 DEF p
  <2> QED BY <2>1, <2>2
<1>6. CASE p[i] = "validation"
  <2>1. changes # {} => i > 1
    <3>1. \A t \in Gated : RankOf(t) < RankOf("validation")
      BY DEF Gated, RankOf
    <3> QED BY <1>1, <1>6, <3>1
  <2>2. p[1] = "diagnostic_session" => i > 1
    BY <1>1, <1>6
  <2>3. changed \in Seq(1 .. (i - 1)) /\ session \in Seq(1 .. (i - 1))
    <3>1. 1 \in Nat /\ (i > 1 => 1 \in 1 .. (i - 1))
      BY <1>4
    <3>2. changed \in Seq(1 .. (i - 1))
      <4>1. changes # {} => <<i - 1>> \in Seq(1 .. (i - 1))
        BY <1>4, <2>1
      <4>2. <<>> \in Seq(1 .. (i - 1))
        OBVIOUS
      <4> QED BY <4>1, <4>2
    <3>3. session \in Seq(1 .. (i - 1))
      <4>1. p[1] = "diagnostic_session" => <<1>> \in Seq(1 .. (i - 1))
        BY <1>4, <2>2, <3>1
      <4>2. <<>> \in Seq(1 .. (i - 1))
        OBVIOUS
      <4> QED BY <4>1, <4>2
    <3> QED BY <3>2, <3>3
  <2>4. changes # {} => i - 1 \in Range(changed)
    BY <1>4
  <2> HIDE DEF changed, session
  <2>5. changed \o session \in Seq(1 .. (i - 1))
        /\ Range(changed \o session) = Range(changed) \cup Range(session)
    BY <2>3, RangeOfBoth
  <2>6. (\E j \in 1 .. Len(p) : p[j] \in Gated) => changes # {}
    BY <1>1
  <2> HIDE DEF changes
  <2> QED BY <1>3, <1>6, <2>4, <2>5, <2>6 DEF p
<1> QED BY <1>5, <1>6

\* There are at most two of these.
LEMMA PrereqFew ==
  ASSUME NEW planned, NEW i
  PROVE  Len(Prereq(planned, i)) \in 0 .. 2
<1> DEFINE changes == {j \in DOMAIN planned : planned[j] \in Gated}
           before == IF i > 1 THEN <<i - 1>> ELSE <<>>
           changed == IF changes # {} THEN <<i - 1>> ELSE <<>>
           session == IF planned[1] = "diagnostic_session" THEN <<1>> ELSE <<>>
           S == {i - 1, 1}
<1>1. Prereq(planned, i) = IF planned[i] # "validation" THEN before ELSE changed \o session
  BY DEF Prereq
<1>2. \A x \in S : <<x>> \in Seq(S) /\ Len(<<x>>) = 1
  OBVIOUS
<1>3. <<>> \in Seq(S) /\ Len(<<>>) = 0
  OBVIOUS
<1> HIDE DEF changes
<1>4. /\ before \in Seq(S) /\ Len(before) \in 0 .. 1
      /\ changed \in Seq(S) /\ Len(changed) \in 0 .. 1
      /\ session \in Seq(S) /\ Len(session) \in 0 .. 1
  <2>1. i - 1 \in S /\ 1 \in S
    OBVIOUS
  <2> HIDE DEF S
  <2> QED BY <1>2, <1>3, <2>1
<1> HIDE DEF before, changed, session, S
<1>5. Len(changed \o session) = Len(changed) + Len(session)
  BY <1>4, ConcatProperties
<1>6. PICK a, b : a = Len(changed) /\ b = Len(session)
  OBVIOUS
<1>7. a \in 0 .. 1 /\ b \in 0 .. 1
  BY <1>4, <1>6
<1>8. a + b \in 0 .. 2
  BY ONLY <1>7
<1>9. Len(changed \o session) \in 0 .. 2
  BY <1>5, <1>6, <1>8
<1>10. Len(before) \in 0 .. 2
  BY <1>4
<1> QED BY ONLY <1>1, <1>9, <1>10

\* From a step to a later one of the same ECU every step waits for the one before,
\* but where that is a validation of nothing.
LEMMA EcuChain ==
  ASSUME NEW ecu, NEW a \in 1 .. Len(Planned(ecu)), NEW b \in 1 .. Len(Planned(ecu)),
         Planned(ecu)[b] # "validation" \/ Planned(ecu)[a] \in Gated
  PROVE  \A c \in (a + 1) .. b : (c - 1) \in Range(Prereq(Planned(ecu), c))
<1> DEFINE p == Planned(ecu)
<1>1. /\ Len(p) \in Nat /\ \A i \in 1 .. Len(p) : p[i] \in PlanTypes
      /\ \A i, j \in 1 .. Len(p) : i < j => RankOf(p[i]) < RankOf(p[j])
  BY PlannedMeans
<1> SUFFICES ASSUME NEW c \in (a + 1) .. b
             PROVE  (c - 1) \in Range(Prereq(p, c))
  OBVIOUS
<1>2. c \in 1 .. Len(p) /\ c > 1
  BY <1>1
<1>3. c # b => p[c] # "validation"
  <2>1. c # b => RankOf(p[c]) < RankOf(p[b])
    BY <1>1, <1>2
  <2>2. RankOf("validation") = 5 /\ RankOf(p[b]) \in 1 .. 5
    BY <1>1, RanksTyped DEF RankOf
  <2> QED BY <2>1, <2>2
<1>4. p[c] # "validation" => (c - 1) \in Range(Prereq(p, c))
  BY <1>2, PrereqMeans
<1>5. p[c] = "validation" => (c - 1) \in Range(Prereq(p, c))
  <2>1. p[c] = "validation" => p[a] \in Gated
    BY <1>3
  <2> QED BY <1>2, <2>1, PrereqMeans
<1> QED BY <1>4, <1>5

\* The service the planner puts into a step is one the ECU supports, or none.
LEMMA FirstSupportedOffered ==
  ASSUME NEW ecu \in Ecu, NEW S, NEW services \in Seq(S)
  PROVE  /\ FirstSupported(ecu, services) \in STRING
         /\ FirstSupported(ecu, services) \in {NoService} \cup ecu.supported
<1> DEFINE offered == {i \in DOMAIN services : services[i] \in ecu.supported}
           least == CHOOSE i \in offered : \A j \in offered : i <= j
<1>1. DOMAIN services = 1 .. Len(services) /\ Len(services) \in Nat
      /\ ecu.supported \subseteq STRING
  BY DEF Ecu
<1>2. FirstSupported(ecu, services) = IF offered = {} THEN NoService ELSE services[least]
  BY DEF FirstSupported
<1>3. NoService \in STRING
  BY NoServiceAssumption
<1>4. offered \in SUBSET Nat
  BY <1>1
<1>5. offered # {} => least \in offered
  <2> HIDE DEF offered
  <2>1. offered # {} => \E i \in offered : \A j \in offered : i <= j
    BY <1>4, Least
  <2> QED BY <2>1
<1> HIDE DEF least
<1> QED BY <1>1, <1>2, <1>3, <1>5

\* The i-th step planned for an ECU behind n others.
IsEcuStep(step, ecu, n, i) ==
  /\ step.order = n + i
  /\ step.step_type = Planned(ecu)[i]
  /\ step.ecu_id = ecu.ecu_id
  /\ step.uds_service \in {NoService} \cup ecu.supported
  /\ Range(step.depends_on) = {n + q : q \in Range(Prereq(Planned(ecu), i))}
  /\ Len(step.depends_on) \in 0 .. 2

LEMMA EcuStepsMean ==
  ASSUME NEW ecu \in Ecu, NEW n \in Nat
  PROVE  /\ EcuSteps(ecu, n) \in Seq(Step)
         /\ Len(EcuSteps(ecu, n)) = Len(Planned(ecu))
         /\ \A i \in 1 .. Len(Planned(ecu)) : IsEcuStep(EcuSteps(ecu, n)[i], ecu, n, i)
<1> DEFINE p == Planned(ecu)
           Pre(i) == Prereq(p, i)
           D(i) == [k \in DOMAIN Pre(i) |-> n + Pre(i)[k]]
           U(i) == FirstSupported(ecu, ServicesFor(p[i]))
           s == EcuSteps(ecu, n)
<1>1. p \in Seq(PlanTypes) /\ Len(p) \in Nat /\ DOMAIN p = 1 .. Len(p)
      /\ \A i \in 1 .. Len(p) : p[i] \in PlanTypes
  BY PlannedMeans
<1>2. s = [i \in 1 .. Len(p) |-> PlanStep(n + i, p[i], ecu.ecu_id, U(i), D(i))]
  BY <1>1 DEF EcuSteps
<1>3. \A i \in 1 .. Len(p) : U(i) \in STRING /\ U(i) \in {NoService} \cup ecu.supported
  <2> DEFINE S == {"0x10", "0x27", "0x34", "0x36", "0x2E", "0x22", "0x31"}
  <2>1. \A t \in PlanTypes : ServicesFor(t) \in Seq(S)
    <3>1. /\ <<"0x10">> \in Seq(S) /\ <<"0x27">> \in Seq(S)
          /\ <<"0x34", "0x36">> \in Seq(S) /\ <<"0x2E">> \in Seq(S)
          /\ <<"0x22", "0x31">> \in Seq(S)
      OBVIOUS
    <3> QED BY <3>1 DEF PlanTypes, ServicesFor
  <2> HIDE DEF S
  <2>2. \A i \in 1 .. Len(p) : ServicesFor(p[i]) \in Seq(S)
    BY <1>1, <2>1
  <2> HIDE DEF p
  <2> QED BY <2>2, FirstSupportedOffered
<1>4. \A i \in 1 .. Len(p) : Pre(i) \in Seq(1 .. (i - 1))
  BY PrereqMeans
<1> HIDE DEF p, s, Pre, U
<1>5. ASSUME NEW i \in 1 .. Len(p)
      PROVE  /\ D(i) \in Seq(Int) /\ Len(D(i)) = Len(Pre(i))
             /\ Range(D(i)) = {n + q : q \in Range(Pre(i))}
  <2>1. /\ Pre(i) \in Seq(1 .. (i - 1)) /\ DOMAIN Pre(i) = 1 .. Len(Pre(i))
        /\ Len(Pre(i)) \in Nat /\ \A k \in DOMAIN Pre(i) : Pre(i)[k] \in Int
    BY <1>4
  <2>2. \A k \in DOMAIN Pre(i) : n + Pre(i)[k] \in Int
    BY <2>1
  <2>3. D(i) \in Seq(Int) /\ Len(D(i)) = Len(Pre(i))
    BY <2>1, <2>2
  <2>4. DOMAIN D(i) = DOMAIN Pre(i) /\ \A k \in DOMAIN Pre(i) : D(i)[k] = n + Pre(i)[k]
    OBVIOUS
  <2> HIDE DEF D
  <2>5. Range(D(i)) = {n + q : q \in Range(Pre(i))}
    BY <2>4 DEF Range
  <2> QED BY <2>3, <2>5
<1> HIDE DEF D
<1>6. ecu.ecu_id \in STRING
  BY DEF Ecu
<1>7. ASSUME NEW i \in 1 .. Len(p)
      PROVE  s[i] \in Step /\ s[i].order = n + i /\ s[i].step_type = p[i]
             /\ s[i].ecu_id = ecu.ecu_id /\ s[i].uds_service = U(i) /\ s[i].depends_on = D(i)
  <2>1. p[i] \in StepTypes /\ TimeBudget[p[i]] \in Nat
    <3>1. \A t \in PlanTypes : t \in StepTypes /\ TimeBudget[t] \in Nat
      BY DEF PlanTypes, StepTypes, TimeBudget
    <3> QED BY <1>1, <3>1
  <2>2. n + i \in Int /\ D(i) \in Seq(Int) /\ U(i) \in STRING
    BY <1>1, <1>3, <1>5
  <2>3. s[i] = PlanStep(n + i, p[i], ecu.ecu_id, U(i), D(i))
    BY <1>2
  <2> QED BY <1>6, <2>1, <2>2, <2>3 DEF PlanStep, Step
<1>8. s \in Seq(Step) /\ Len(s) = Len(p)
  <2>1. s \in [1 .. Len(p) -> Step]
    BY <1>2, <1>7
  <2> QED BY <1>1, <2>1
<1>9. \A i \in 1 .. Len(p) : IsEcuStep(s[i], ecu, n, i)
  <2>1. \A i \in 1 .. Len(p) : Len(Pre(i)) \in 0 .. 2
    BY PrereqFew DEF Pre
  <2> QED BY <1>3, <1>5, <1>7, <2>1 DEF IsEcuStep, p, Pre
<1> QED BY <1>8, <1>9 DEF p, s

-----------------------------------------------------------------------------
(* The offline planner: the steps of all ECUs                              *)

\* The steps planned before an ECU are those of the ECUs before it.
LEMMA PlannedBeforeMeans ==
  ASSUME NEW ecus, NEW N \in Nat
  PROVE  /\ PlannedBefore(ecus, 1) = 0
         /\ \A i \in 1 .. N :
              /\ PlannedBefore(ecus, i) \in Nat
              /\ PlannedBefore(ecus, i + 1) = PlannedBefore(ecus, i) + Len(Planned(ecus[i]))
<1> DEFINE Own(j) == {j} \X DOMAIN Planned(ecus[j])
           P(i) == UNION {Own(j) : j \in 1 .. (i - 1)}
           Good == {i \in 1 .. N : IsFiniteSet(P(i))}
<1>1. \A i : PlannedBefore(ecus, i) = Cardinality(P(i))
  BY DEF PlannedBefore
<1>2. P(1) = {}
  <2>1. 1 .. (1 - 1) = {}
    OBVIOUS
  <2> QED BY <2>1
<1>3. \A i \in 1 .. N : IsFiniteSet(Own(i)) /\ Cardinality(Own(i)) = Len(Planned(ecus[i]))
  <2> SUFFICES ASSUME NEW i \in 1 .. N
               PROVE  IsFiniteSet(Own(i)) /\ Cardinality(Own(i)) = Len(Planned(ecus[i]))
    OBVIOUS
  <2>1. PICK n : n = Len(Planned(ecus[i]))
    OBVIOUS
  <2>2. n \in Nat /\ DOMAIN Planned(ecus[i]) = 1 .. n
    BY <2>1, PlannedMeans
  <2>3. IsFiniteSet(1 .. n) /\ Cardinality(1 .. n) = n
    BY <2>2, FS_Interval
  <2>4. IsFiniteSet({i}) /\ Cardinality({i}) = 1
    BY FS_Singleton
  <2>5. IsFiniteSet({i} \X (1 .. n)) /\ Cardinality({i} \X (1 .. n)) = 1 * n
    <3>1. PICK A, B : A = {i} /\ B = 1 .. n
      OBVIOUS
    <3>2. IsFiniteSet(A) /\ IsFiniteSet(B) /\ Cardinality(A) = 1 /\ Cardinality(B) = n
      BY ONLY <2>3, <2>4, <3>1
    <3>3. IsFiniteSet(A \X B) /\ Cardinality(A \X B) = Cardinality(A) * Cardinality(B)
      BY ONLY <3>2, FS_Product
    <3> QED BY ONLY <3>1, <3>2, <3>3
  <2> QED BY <2>1, <2>2, <2>5
<1>4. \A i \in 1 .. N : P(i + 1) = P(i) \cup Own(i) /\ P(i) \cap Own(i) = {}
  <2> SUFFICES ASSUME NEW i \in 1 .. N
               PROVE  P(i + 1) = P(i) \cup Own(i) /\ P(i) \cap Own(i) = {}
    OBVIOUS
  <2>1. \A j : j \in 1 .. (i + 1 - 1) <=> j \in 1 .. (i - 1) \/ j = i
    OBVIOUS
  <2>2. \A j \in 1 .. (i - 1) : Own(j) \cap Own(i) = {}
    OBVIOUS
  <2> HIDE DEF Own
  <2>3. \A x : x \in P(i + 1) <=> x \in P(i) \/ x \in Own(i)
    BY <2>1
  <2>4. P(i) \cap Own(i) = {}
    BY <2>2
  <2> HIDE DEF P
  <2> QED BY <2>3, <2>4
<1> HIDE DEF Own, P
<1>5. \A i \in 1 .. N : IsFiniteSet(P(i)) =>
        /\ IsFiniteSet(P(i + 1)) /\ Cardinality(P(i)) \in Nat
        /\ Cardinality(P(i + 1)) = Cardinality(P(i)) + Len(Planned(ecus[i]))
  <2> SUFFICES ASSUME NEW i \in 1 .. N, IsFiniteSet(P(i))
               PROVE  /\ IsFiniteSet(P(i + 1)) /\ Cardinality(P(i)) \in Nat
                      /\ Cardinality(P(i + 1)) = Cardinality(P(i)) + Len(Planned(ecus[i]))
    OBVIOUS
  <2>1. /\ IsFiniteSet(P(i) \cup Own(i))
        /\ Cardinality(P(i) \cup Own(i)) =
             Cardinality(P(i)) + Cardinality(Own(i)) - Cardinality(P(i) \cap Own(i))
    BY <1>3, FS_Union
  <2>2. Cardinality(P(i) \cap Own(i)) = 0
    BY <1>4, FS_EmptySet
  <2>3. Cardinality(P(i)) \in Nat /\ Cardinality(Own(i)) \in Nat
    BY <1>3, FS_CardinalityType
  <2>4. P(i + 1) = P(i) \cup Own(i) /\ Cardinality(Own(i)) = Len(Planned(ecus[i]))
    BY <1>3, <1>4
  <2>5. PICK a, b : a = Cardinality(P(i)) /\ b = Cardinality(Own(i))
    OBVIOUS
  <2>6. a \in Nat /\ b \in Nat /\ Cardinality(P(i) \cup Own(i)) = a + b - 0
    BY ONLY <2>1, <2>2, <2>3, <2>5
  <2>7. Cardinality(P(i) \cup Own(i)) = a + b
    BY ONLY <2>6
  <2> QED BY ONLY <2>1, <2>4, <2>5, <2>6, <2>7
<1>6. \A i \in 1 .. N : IsFiniteSet(P(i))
  <2>1. N >= 1 => 1 \in Good
    BY <1>2, FS_EmptySet
  <2>2. \A i \in 1 .. (N - 1) : i \in Good => i + 1 \in Good
    BY <1>5
  <2> HIDE DEF Good
  <2>3. \A i \in 1 .. N : i \in Good
    <3>1. CASE N >= 1
      BY ONLY <2>1, <2>2, <3>1, UpFrom, 1 \in Nat, N \in Nat
    <3> QED BY <3>1
  <2> QED BY <2>3 DEF Good
<1>7. Cardinality(P(1)) = 0
  BY <1>2, FS_EmptySet
<1> QED BY <1>1, <1>5, <1>6, <1>7

\* The place of the j-th of l elements put behind a others, and back.
LEMMA Shifted ==
  ASSUME NEW a \in Nat, NEW l \in Nat, NEW j \in 1 .. l, NEW k, k = a + j
  PROVE  k \in 1 .. a + l /\ ~(k <= a) /\ k - a = j
  OBVIOUS

LEMMA ShiftedBack ==
  ASSUME NEW a \in Nat, NEW l \in Nat, NEW k \in 1 .. a + l, ~(k <= a)
  PROVE  k - a \in 1 .. l /\ k = a + (k - a)
  OBVIOUS

\* f flattens the first lists of lists.
Flattens(f, lists, N) ==
  f = [i \in 1 .. N |-> IF i = 1 THEN lists[i] ELSE f[i - 1] \o lists[i]]

LEMMA FlattensExists ==
  ASSUME NEW lists, NEW N \in Nat, N >= 1
  PROVE  \E f : Flattens(f, lists, N)
<1> DEFINE Good == {n \in 1 .. N : \E f : Flattens(f, lists, n)}
<1>1. 1 \in Good
  <2> DEFINE f == [i \in 1 .. 1 |-> lists[i]]
  <2>1. f = [i \in 1 .. 1 |-> IF i = 1 THEN lists[i] ELSE f[i - 1] \o lists[i]]
    OBVIOUS
  <2> HIDE DEF f
  <2>2. Flattens(f, lists, 1)
    BY <2>1 DEF Flattens
  <2> QED BY <2>2
<1>2. \A n \in 1 .. (N - 1) : n \in Good => n + 1 \in Good
  <2> SUFFICES ASSUME NEW n \in 1 .. (N - 1), n \in Good PROVE n + 1 \in Good
    OBVIOUS
  <2>1. PICK f : Flattens(f, lists, n)
    OBVIOUS
  <2> DEFINE g == [i \in 1 .. (n + 1) |-> IF i = n + 1 THEN f[n] \o lists[i] ELSE f[i]]
  <2>2. \A i \in 1 .. n : g[i] = f[i] /\ f[i] = IF i = 1 THEN lists[i] ELSE f[i - 1] \o lists[i]
    <3>1. \A i \in 1 .. n : g[i] = f[i]
      OBVIOUS
    <3>2. \A i \in 1 .. n : f[i] = IF i = 1 THEN lists[i] ELSE f[i - 1] \o lists[i]
      BY <2>1 DEF Flattens
    <3> QED BY <3>1, <3>2
  <2>3. g[n + 1] = f[n] \o lists[n + 1] /\ n \in 1 .. n
    <3>1. n + 1 \in 1 .. (n + 1) /\ n \in 1 .. n
      OBVIOUS
    <3> QED BY <3>1
  <2>4. g = [i \in 1 .. (n + 1) |-> g[i]]
    OBVIOUS
  <2> HIDE DEF g
  <2>5. \A i \in 1 .. (n + 1) : g[i] = IF i = 1 THEN lists[i] ELSE g[i - 1] \o lists[i]
    <3> SUFFICES ASSUME NEW i \in 1 .. (n + 1)
                 PROVE  g[i] = IF i = 1 THEN lists[i] ELSE g[i - 1] \o lists[i]
      OBVIOUS
    <3>1. CASE i = n + 1
      <4>1. i # 1 /\ i - 1 = n
        BY <3>1
      <4> QED BY <2>2, <2>3, <3>1, <4>1
    <3>2. CASE i # n + 1 /\ i # 1
      <4>1. i \in 1 .. n /\ i - 1 \in 1 .. n
        BY <3>2
      <4> QED BY <2>2, <3>2, <4>1
    <3>3. CASE i = 1
      <4>1. 1 \in 1 .. n
        OBVIOUS
      <4> QED BY <2>2, <3>3, <4>1
    <3> QED BY <3>1, <3>2, <3>3
  <2>6. Flattens(g, lists, n + 1)
    BY <2>4, <2>5 DEF Flattens
  <2>7. n + 1 \in 1 .. N
    OBVIOUS
  <2> QED BY <2>6, <2>7
<1> HIDE DEF Good
<1>3. \A n \in 1 .. N : n \in Good
  BY ONLY <1>1, <1>2, UpFrom, 1 \in Nat, N \in Nat
<1>4. N \in 1 .. N
  OBVIOUS
<1> QED BY <1>3, <1>4 DEF Good

\* s has the elements of the lists, each list from where Off says, and nothing else.
LaidOut(s, lists, Off) ==
  /\ Len(s) = Off[Len(lists) + 1]
  /\ \A i \in 1 .. Len(lists) : \A j \in 1 .. Len(lists[i]) :
       Off[i] + j \in 1 .. Len(s) /\ s[Off[i] + j] = lists[i][j]
  /\ \A k \in 1 .. Len(s) :
       \E i \in 1 .. Len(lists) : \E j \in 1 .. Len(lists[i]) : k = Off[i] + j

\* Flattening lists lays them out one behind the other.
LEMMA Flattened ==
  ASSUME NEW S, NEW lists \in Seq(Seq(S)), NEW Off,
         Off[1] = 0,
         \A i \in 1 .. Len(lists) : Off[i] \in Nat /\ Off[i + 1] = Off[i] + Len(lists[i])
  PROVE  FlattenSeq(lists) \in Seq(S) /\ LaidOut(FlattenSeq(lists), lists, Off)
<1> DEFINE M == Len(lists)
           L(i) == Len(lists[i])
           Is(s, m) == /\ s \in Seq(S) /\ Len(s) = Off[m + 1]
                       /\ \A i \in 1 .. m : \A j \in 1 .. L(i) :
                            Off[i] + j \in 1 .. Len(s) /\ s[Off[i] + j] = lists[i][j]
                       /\ \A k \in 1 .. Len(s) :
                            \E i \in 1 .. m : \E j \in 1 .. L(i) : k = Off[i] + j
<1>1. M \in Nat /\ \A i \in 1 .. M : lists[i] \in Seq(S) /\ L(i) \in Nat /\ Off[i] \in Nat
      /\ Off[i + 1] = Off[i] + L(i)
  <2>1. M \in Nat /\ \A i \in 1 .. M : lists[i] \in Seq(S)
    OBVIOUS
  <2> QED BY <2>1
<1>2. CASE M = 0
  <2>1. FlattenSeq(lists) = lists /\ lists = <<>>
    BY <1>2 DEF FlattenSeq
  <2>2. <<>> \in Seq(S) /\ Len(<<>>) = 0 /\ 1 .. 0 = {} /\ 0 + 1 = 1
    OBVIOUS
  <2>3. 1 .. Len(lists) = {} /\ 1 .. Len(FlattenSeq(lists)) = {}
    BY <2>1, <2>2
  <2>4. Len(FlattenSeq(lists)) = Off[Len(lists) + 1] /\ FlattenSeq(lists) \in Seq(S)
    BY <2>1, <2>2
  <2> QED BY <2>3, <2>4 DEF LaidOut
<1>3. CASE M # 0
  <2> DEFINE flat == CHOOSE f : Flattens(f, lists, M)
  <2>1. FlattenSeq(lists) = flat[M]
    BY <1>3 DEF FlattenSeq, Flattens
  <2>2. Flattens(flat, lists, M)
    <3>1. M >= 1
      BY <1>1, <1>3
    <3> HIDE DEF M
    <3>2. \E f : Flattens(f, lists, M)
      BY ONLY <1>1, <3>1, FlattensExists
    <3> QED BY <3>2
  <2> HIDE DEF flat
  <2>3. \A i \in 1 .. M : flat[i] = IF i = 1 THEN lists[i] ELSE flat[i - 1] \o lists[i]
    BY <2>2 DEF Flattens
  <2> DEFINE Good == {m \in 1 .. M : Is(flat[m], m)}
  <2>4. 1 \in Good
    <3>1. 1 \in 1 .. M /\ flat[1] = lists[1] /\ lists[1] \in Seq(S) /\ L(1) \in Nat
          /\ 1 + 1 = 2 /\ Off[1 + 1] = L(1)
      BY <1>1, <1>3, <2>3
    <3>2. \A j \in 1 .. L(1) : Off[1] + j = j
      BY <1>1
    <3>3. \A i \in 1 .. 1 : i = 1
      OBVIOUS
    <3>4. 1 \in 1 .. 1
      OBVIOUS
    <3>5. Is(lists[1], 1)
      BY <3>1, <3>2, <3>3, <3>4
    <3> HIDE DEF Is, L
    <3> QED BY <3>1, <3>5
  <2>5. \A m \in 1 .. (M - 1) : m \in Good => m + 1 \in Good
    <3> SUFFICES ASSUME NEW m \in 1 .. (M - 1), m \in Good PROVE m + 1 \in Good
      OBVIOUS
    <3>1. PICK n : n = m + 1
      OBVIOUS
    <3>2. /\ n \in 1 .. M /\ n # 1 /\ n - 1 = m /\ m \in 1 .. M /\ Is(flat[m], m) /\ m \in Nat
          /\ flat[n] = flat[m] \o lists[n]
      <4> HIDE DEF M, L, Is
      <4>1. Is(flat[m], m) /\ m \in 1 .. M
        OBVIOUS
      <4>2. n \in 1 .. M /\ n # 1 /\ n - 1 = m /\ m \in Nat
        BY <1>1, <3>1
      <4> QED BY <2>3, <4>1, <4>2
    <3> DEFINE s == flat[m]
               t == lists[n]
               r == flat[n]
    <3>3. /\ s \in Seq(S) /\ t \in Seq(S) /\ Len(s) = Off[n] /\ Len(t) = L(n)
          /\ Off[n] \in Nat /\ L(n) \in Nat /\ Off[n + 1] = Off[n] + L(n)
      BY <1>1, <3>1, <3>2
    <3>4. /\ r \in Seq(S) /\ Len(r) = Off[n] + L(n)
          /\ \A k \in 1 .. Off[n] + L(n) : r[k] = IF k <= Off[n] THEN s[k] ELSE t[k - Off[n]]
      <4>1. r = s \o t
        BY <3>2
      <4> HIDE DEF s, t, r, L, Is
      <4>2. /\ r \in Seq(S) /\ Len(r) = Len(s) + Len(t)
            /\ \A k \in 1 .. Len(s) + Len(t) : r[k] = IF k <= Len(s) THEN s[k] ELSE t[k - Len(s)]
        BY ONLY <3>3, <4>1, ConcatProperties
      <4> QED BY <3>3, <4>2
    <3>5. \A i \in 1 .. n : i \in 1 .. m \/ i = n
      BY <3>1, <3>2
    <3>8. /\ \A i \in 1 .. m : \A j \in 1 .. L(i) :
               Off[i] + j \in 1 .. Off[n] /\ s[Off[i] + j] = lists[i][j]
          /\ \A k \in 1 .. Off[n] : \E i \in 1 .. m : \E j \in 1 .. L(i) : k = Off[i] + j
      BY <3>2, <3>3
    <3> HIDE DEF L, s, t, r, Is
    <3>6. ASSUME NEW i \in 1 .. n, NEW j \in 1 .. L(i)
          PROVE  Off[i] + j \in 1 .. Len(r) /\ r[Off[i] + j] = lists[i][j]
      <4>1. CASE i \in 1 .. m
        <5>1. PICK k : k = Off[i] + j
          OBVIOUS
        <5>2. k \in 1 .. Off[n] /\ s[k] = lists[i][j]
          BY <3>8, <4>1, <5>1
        <5>3. k \in 1 .. Off[n] + L(n) /\ k <= Off[n]
          BY ONLY <3>3, <5>2, SMTT(30)
        <5>4. k \in 1 .. Len(r) /\ r[k] = lists[i][j]
          BY ONLY <3>4, <5>2, <5>3
        <5> QED BY <5>1, <5>4
      <4>2. CASE i = n
        <5>1. PICK k : k = Off[n] + j
          OBVIOUS
        <5>2. j \in 1 .. L(n)
          BY <4>2
        <5>3. k \in 1 .. Off[n] + L(n) /\ ~(k <= Off[n]) /\ k - Off[n] = j
          BY ONLY <3>3, <5>1, <5>2, Shifted, SMTT(30)
        <5>4. k \in 1 .. Len(r) /\ r[k] = t[j]
          BY ONLY <3>4, <5>3
        <5> QED BY <4>2, <5>1, <5>4 DEF t
      <4> QED BY <3>5, <4>1, <4>2
    <3>7. ASSUME NEW k \in 1 .. Len(r)
          PROVE  \E i \in 1 .. n : \E j \in 1 .. L(i) : k = Off[i] + j
      <4>1. CASE k <= Off[n]
        <5>1. k \in 1 .. Off[n]
          BY <3>3, <3>4, <4>1
        <5>2. PICK i \in 1 .. m : \E j \in 1 .. L(i) : k = Off[i] + j
          BY <3>8, <5>1
        <5>3. i \in 1 .. n
          BY <3>1, <3>2
        <5> QED BY <5>2, <5>3
      <4>2. CASE ~(k <= Off[n])
        <5>1. n \in 1 .. n
          BY <3>2
        <5>2. k \in 1 .. Off[n] + L(n)
          BY <3>4
        <5>3. k - Off[n] \in 1 .. L(n) /\ k = Off[n] + (k - Off[n])
          BY ONLY <3>3, <4>2, <5>2, ShiftedBack
        <5> QED BY <5>1, <5>3
      <4> QED BY <4>1, <4>2
    <3>9. Is(r, n)
      BY <3>3, <3>4, <3>6, <3>7 DEF Is
    <3> QED BY <3>1, <3>2, <3>9 DEF r
  <2>6. M \in Good
    <3> HIDE DEF Good, Is
    <3>1. \A m \in 1 .. M : m \in Good
      BY ONLY <2>4, <2>5, UpFrom, 1 \in Nat, <1>1
    <3> QED BY <1>1, <1>3, <3>1
  <2>7. Is(FlattenSeq(lists), M)
    <3> HIDE DEF Is
    <3> QED BY <2>1, <2>6
  <2> QED BY <2>7 DEF LaidOut
<1> QED BY <1>2, <1>3

\* The steps of a plan but for the closing ones.
PlanBody(ecus) ==
  FlattenSeq([i \in DOMAIN ecus |-> EcuSteps(ecus[i], PlannedBefore(ecus, i))])

\* Each is the step of an ECU, at its place behind those of the ECUs before.
LEMMA BodyMeans ==
  ASSUME NEW ecus \in Seq(Ecu)
  PROVE  /\ PlanBody(ecus) \in Seq(Step)
         /\ \A e \in DOMAIN ecus :
              /\ ecus[e] \in Ecu
              /\ PlannedBefore(ecus, e) \in Nat
              /\ \A i \in 1 .. Len(Planned(ecus[e])) :
                   /\ PlannedBefore(ecus, e) + i \in 1 .. Len(PlanBody(ecus))
                   /\ PlanBody(ecus)[PlannedBefore(ecus, e) + i]
                        = EcuSteps(ecus[e], PlannedBefore(ecus, e))[i]
         /\ \A k \in 1 .. Len(PlanBody(ecus)) :
              \E e \in DOMAIN ecus : \E i \in 1 .. Len(Planned(ecus[e])) :
                k = PlannedBefore(ecus, e) + i
<1> DEFINE M == Len(ecus)
           Off == [i \in 1 .. (M + 1) |-> PlannedBefore(ecus, i)]
           lists == [i \in 1 .. M |-> EcuSteps(ecus[i], PlannedBefore(ecus, i))]
<1>1. M \in Nat /\ DOMAIN ecus = 1 .. M /\ \A i \in 1 .. M : ecus[i] \in Ecu
  OBVIOUS
<1> HIDE DEF M
<1>2. /\ PlannedBefore(ecus, 1) = 0
      /\ \A i \in 1 .. M :
           /\ PlannedBefore(ecus, i) \in Nat
           /\ PlannedBefore(ecus, i + 1) = PlannedBefore(ecus, i) + Len(Planned(ecus[i]))
  BY <1>1, PlannedBeforeMeans
<1>3. \A i \in 1 .. M : /\ EcuSteps(ecus[i], PlannedBefore(ecus, i)) \in Seq(Step)
                        /\ Len(EcuSteps(ecus[i], PlannedBefore(ecus, i))) = Len(Planned(ecus[i]))
  BY <1>1, <1>2, EcuStepsMean
<1>4. lists \in Seq(Seq(Step)) /\ Len(lists) = M
      /\ \A i \in 1 .. M : lists[i] = EcuSteps(ecus[i], PlannedBefore(ecus, i))
  <2>1. lists \in [1 .. M -> Seq(Step)]
    BY <1>3
  <2> QED BY <1>1, <2>1
<1>5. \A i \in 1 .. (M + 1) : Off[i] = PlannedBefore(ecus, i)
  OBVIOUS
<1>6. PlanBody(ecus) = FlattenSeq(lists)
  BY <1>1 DEF PlanBody
<1> HIDE DEF Off, lists
<1>7. /\ Off[1] = 0
      /\ \A i \in 1 .. Len(lists) : Off[i] \in Nat /\ Off[i + 1] = Off[i] + Len(lists[i])
  <2>1. 1 \in 1 .. (M + 1) /\ \A i \in 1 .. M : i \in 1 .. (M + 1) /\ i + 1 \in 1 .. (M + 1)
    BY <1>1
  <2> QED BY <1>2, <1>3, <1>4, <1>5, <2>1
<1>8. FlattenSeq(lists) \in Seq(Step) /\ LaidOut(FlattenSeq(lists), lists, Off)
  BY ONLY <1>4, <1>7, Flattened
<1>9. \A i \in 1 .. M : i \in 1 .. (M + 1)
  BY <1>1
<1>10. \A i \in 1 .. M : Off[i] = PlannedBefore(ecus, i) /\ Len(lists[i]) = Len(Planned(ecus[i]))
  BY <1>3, <1>4, <1>5, <1>9
<1>11. PICK body : body = FlattenSeq(lists)
  OBVIOUS
<1>12. /\ \A i \in 1 .. M : \A j \in 1 .. Len(Planned(ecus[i])) :
            /\ PlannedBefore(ecus, i) + j \in 1 .. Len(body)
            /\ body[PlannedBefore(ecus, i) + j] = EcuSteps(ecus[i], PlannedBefore(ecus, i))[j]
       /\ \A k \in 1 .. Len(body) :
            \E i \in 1 .. M : \E j \in 1 .. Len(Planned(ecus[i])) :
              k = PlannedBefore(ecus, i) + j
  <2>1. /\ \A i \in 1 .. M : \A j \in 1 .. Len(lists[i]) :
             Off[i] + j \in 1 .. Len(body) /\ body[Off[i] + j] = lists[i][j]
        /\ \A k \in 1 .. Len(body) :
             \E i \in 1 .. M : \E j \in 1 .. Len(lists[i]) : k = Off[i] + j
    BY ONLY <1>4, <1>8, <1>11 DEF LaidOut
  <2>2. \A i \in 1 .. M : /\ Len(lists[i]) = Len(Planned(ecus[i]))
                          /\ Off[i] = PlannedBefore(ecus, i)
                          /\ lists[i] = EcuSteps(ecus[i], PlannedBefore(ecus, i))
    BY <1>4, <1>10
  <2>3. \A i \in 1 .. M : \A j \in 1 .. Len(Planned(ecus[i])) :
            /\ PlannedBefore(ecus, i) + j \in 1 .. Len(body)
            /\ body[PlannedBefore(ecus, i) + j] = EcuSteps(ecus[i], PlannedBefore(ecus, i))[j]
    BY ONLY <2>1, <2>2
  <2>4. \A k \in 1 .. Len(body) : \E i \in 1 .. M : \E j \in 1 .. Len(Planned(ecus[i])) :
          k = PlannedBefore(ecus, i) + j
    <3> SUFFICES ASSUME NEW k \in 1 .. Len(body)
                 PROVE  \E i \in 1 .. M : \E j \in 1 .. Len(Planned(ecus[i])) :
                          k = PlannedBefore(ecus, i) + j
      OBVIOUS
    <3>1. PICK i \in 1 .. M : \E j \in 1 .. Len(lists[i]) : k = Off[i] + j
      BY <2>1
    <3>2. PICK j \in 1 .. Len(lists[i]) : k = Off[i] + j
      BY <3>1
    <3>3. j \in 1 .. Len(Planned(ecus[i])) /\ k = PlannedBefore(ecus, i) + j
      BY ONLY <2>2, <3>2
    <3> QED BY <3>3
  <2> QED BY ONLY <2>3, <2>4
<1>13. PlanBody(ecus) = body /\ body \in Seq(Step)
  BY <1>6, <1>8, <1>11
<1>14. \A e \in DOMAIN ecus :
         /\ ecus[e] \in Ecu
         /\ PlannedBefore(ecus, e) \in Nat
         /\ \A i \in 1 .. Len(Planned(ecus[e])) :
              /\ PlannedBefore(ecus, e) + i \in 1 .. Len(PlanBody(ecus))
              /\ PlanBody(ecus)[PlannedBefore(ecus, e) + i]
                   = EcuSteps(ecus[e], PlannedBefore(ecus, e))[i]
  BY ONLY <1>1, <1>2, <1>12, <1>13
<1>15. \A k \in 1 .. Len(PlanBody(ecus)) :
         \E e \in DOMAIN ecus : \E i \in 1 .. Len(Planned(ecus[e])) :
           k = PlannedBefore(ecus, e) + i
  BY ONLY <1>1, <1>12, <1>13
<1> QED BY ONLY <1>13, <1>14, <1>15

-----------------------------------------------------------------------------
(* The offline planner: the whole plan                                     *)

\* The ECU whose fault memory is cleared is one of the vehicle's.
LEMMA FirstWithIsOne ==
  ASSUME NEW ecus \in Seq(Ecu), ecus # <<>>, NEW service
  PROVE  \E e \in DOMAIN ecus : FirstWith(ecus, service) = ecus[e]
<1> DEFINE having == {i \in DOMAIN ecus : service \in ecus[i].supported}
           least == CHOOSE i \in having : \A j \in having : i <= j
<1>1. FirstWith(ecus, service) = IF having = {} THEN ecus[1] ELSE ecus[least]
  BY DEF FirstWith
<1>2. 1 \in DOMAIN ecus /\ having \subseteq DOMAIN ecus /\ having \in SUBSET Nat
  OBVIOUS
<1> HIDE DEF having
<1>3. having # {} => \E i \in having : \A j \in having : i <= j
  BY <1>2, Least
<1>4. having # {} => least \in having
  BY <1>3
<1> HIDE DEF least
<1> QED BY <1>1, <1>2, <1>4

\* A step of the plan is for an ECU of the vehicle, with a service that it offers.
Fits(ecus, step) ==
  \E e \in DOMAIN ecus : /\ step.ecu_id = ecus[e].ecu_id
                         /\ step.uds_service \in {NoService} \cup ecus[e].supported

\* The closing steps are for ECUs of the vehicle; the first waits for all n steps
\* before it, the second for the first.
LEMMA ClosingMeans ==
  ASSUME NEW ecus \in Seq(Ecu), ecus # <<>>, NEW n \in Nat
  PROVE  \E clear, final \in Step :
           /\ ClosingSteps(ecus, n) = <<clear, final>>
           /\ clear.order = n + 1 /\ clear.step_type = "fault_clear" /\ Fits(ecus, clear)
           /\ Len(clear.depends_on) = n /\ Range(clear.depends_on) = 1 .. n
           /\ final.order = n + 2 /\ final.step_type = "validation" /\ Fits(ecus, final)
           /\ Len(final.depends_on) = 1 /\ Range(final.depends_on) = {n + 1}
<1>1. PICK c \in DOMAIN ecus : FirstWith(ecus, "0x14") = ecus[c]
  BY FirstWithIsOne
<1>2. PICK f \in DOMAIN ecus :
        (IF \E i \in DOMAIN ecus : "0x31" \in ecus[i].supported
           THEN FirstWith(ecus, "0x31") ELSE FirstWith(ecus, "0x22")) = ecus[f]
  <2>1. \A service : \E e \in DOMAIN ecus : FirstWith(ecus, service) = ecus[e]
    BY FirstWithIsOne
  <2> QED BY <2>1
<1> DEFINE cu == FirstSupported(ecus[c], <<"0x14">>)
           fu == FirstSupported(ecus[f], <<"0x31", "0x22">>)
           clear == PlanStep(n + 1, "fault_clear", ecus[c].ecu_id, cu, ClearPrereq(n))
           final == PlanStep(n + 2, "validation", ecus[f].ecu_id, fu, <<n + 1>>)
<1>3. ClosingSteps(ecus, n) = <<clear, final>>
  BY <1>1, <1>2 DEF ClosingSteps
<1>4. ecus[c] \in Ecu /\ ecus[f] \in Ecu
  OBVIOUS
<1>5. /\ cu \in STRING /\ cu \in {NoService} \cup ecus[c].supported
      /\ fu \in STRING /\ fu \in {NoService} \cup ecus[f].supported
  <2>1. <<"0x14">> \in Seq({"0x14"}) /\ <<"0x31", "0x22">> \in Seq({"0x31", "0x22"})
    OBVIOUS
  <2> QED BY <1>4, <2>1, FirstSupportedOffered
<1>6. /\ ClearPrereq(n) \in Seq(Int) /\ Len(ClearPrereq(n)) = n
      /\ Range(ClearPrereq(n)) = 1 .. n
  <2>1. ClearPrereq(n) = [i \in 1 .. n |-> i]
    BY DEF ClearPrereq
  <2>2. DOMAIN [i \in 1 .. n |-> i] = 1 .. n /\ \A i \in 1 .. n : [j \in 1 .. n |-> j][i] = i
    OBVIOUS
  <2>3. Range([i \in 1 .. n |-> i]) = 1 .. n
    BY <2>2 DEF Range
  <2> QED BY <2>1, <2>3
<1>7. <<n + 1>> \in Seq(Int) /\ Len(<<n + 1>>) = 1 /\ Range(<<n + 1>>) = {n + 1}
  BY RangeOfShort
<1>8. TimeBudget["fault_clear"] \in Nat /\ TimeBudget["validation"] \in Nat
      /\ "fault_clear" \in StepTypes /\ "validation" \in StepTypes
  BY DEF TimeBudget, StepTypes
<1>9. ecus[c].ecu_id \in STRING /\ ecus[f].ecu_id \in STRING
  BY <1>4 DEF Ecu
<1> HIDE DEF cu, fu
<1>10. clear \in Step /\ final \in Step
  BY <1>5, <1>6, <1>7, <1>8, <1>9 DEF PlanStep, Step
<1>11. /\ clear.order = n + 1 /\ clear.step_type = "fault_clear" /\ clear.ecu_id = ecus[c].ecu_id
       /\ clear.uds_service = cu /\ clear.depends_on = ClearPrereq(n)
       /\ final.order = n + 2 /\ final.step_type = "validation" /\ final.ecu_id = ecus[f].ecu_id
       /\ final.uds_service = fu /\ final.depends_on = <<n + 1>>
  BY DEF PlanStep
<1> HIDE DEF clear, final
<1>12. Fits(ecus, clear) /\ Fits(ecus, final)
  BY <1>5, <1>11 DEF Fits
<1> QED BY ONLY <1>3, <1>6, <1>7, <1>10, <1>11, <1>12

\* s is the body of a plan with the two closing steps behind it.
Closes(ecus, body, s) ==
  LET n == Len(body)
  IN  /\ Len(s) = n + 2
      /\ \A k \in 1 .. n : s[k] = body[k]
      /\ \A k \in {n + 1, n + 2} : s[k].order = k /\ Fits(ecus, s[k])
      /\ s[n + 1].step_type = "fault_clear" /\ s[n + 2].step_type = "validation"
      /\ Range(s[n + 1].depends_on) = 1 .. n /\ Range(s[n + 2].depends_on) = {n + 1}
      /\ Len(s[n + 1].depends_on) = n /\ Len(s[n + 2].depends_on) = 1

\* A plan has no steps, or it has a body and the closing steps.
LEMMA PlanShape ==
  ASSUME NEW spec, spec.ecus \in Seq(Ecu)
  PROVE  /\ MockPlan(spec).steps \in Seq(Step)
         /\ PlanBody(spec.ecus) = <<>> => MockPlan(spec).steps = <<>>
         /\ PlanBody(spec.ecus) # <<>> =>
              Closes(spec.ecus, PlanBody(spec.ecus), MockPlan(spec).steps)
<1> DEFINE ecus == spec.ecus
           body == PlanBody(ecus)
           s == MockPlan(spec).steps
<1>1. s = body \o (IF body = <<>> THEN <<>> ELSE ClosingSteps(ecus, Len(body)))
  BY DEF MockPlan, PlanBody
<1>2. /\ body \in Seq(Step) /\ Len(body) \in Nat
      /\ \A k \in 1 .. Len(body) : \E e \in DOMAIN ecus : TRUE
  BY BodyMeans
<1> HIDE DEF ecus, body, s
<1>3. CASE body = <<>>
  <2>1. s = <<>>
    BY <1>1, <1>2, <1>3, ConcatEmptySeq
  <2>2. <<>> \in Seq(Step)
    OBVIOUS
  <2> QED BY <1>3, <2>1, <2>2 DEF s, body, ecus
<1>4. CASE body # <<>>
  <2>1. Len(body) \in Nat /\ 1 \in 1 .. Len(body)
    BY <1>2, <1>4
  <2>2. ecus # <<>> /\ ecus \in Seq(Ecu)
    BY <1>2, <2>1 DEF ecus
  <2>3. PICK n : n = Len(body)
    OBVIOUS
  <2>4. PICK clear, final \in Step :
           /\ ClosingSteps(ecus, n) = <<clear, final>>
           /\ clear.order = n + 1 /\ clear.step_type = "fault_clear" /\ Fits(ecus, clear)
           /\ Len(clear.depends_on) = n /\ Range(clear.depends_on) = 1 .. n
           /\ final.order = n + 2 /\ final.step_type = "validation" /\ Fits(ecus, final)
           /\ Len(final.depends_on) = 1 /\ Range(final.depends_on) = {n + 1}
    <3>1. n \in Nat
      BY <2>1, <2>3
    <3> QED BY ONLY <2>2, <3>1, ClosingMeans
  <2>5. <<clear, final>> \in Seq(Step) /\ Len(<<clear, final>>) = 2
        /\ <<clear, final>>[1] = clear /\ <<clear, final>>[2] = final
    OBVIOUS
  <2>6. PICK closing : closing = <<clear, final>>
    OBVIOUS
  <2>7. s = body \o closing /\ n \in Nat
    BY <1>1, <1>4, <2>1, <2>3, <2>4, <2>6
  <2>8. /\ s \in Seq(Step) /\ Len(s) = n + 2
        /\ \A k \in 1 .. n + 2 : s[k] = IF k <= n THEN body[k] ELSE closing[k - n]
    BY <1>2, <2>3, <2>5, <2>6, <2>7, ConcatProperties
  <2>9. \A k \in 1 .. n : s[k] = body[k]
    BY <2>7, <2>8
  <2>10. s[n + 1] = clear /\ s[n + 2] = final
    <3>1. PICK a, b : a = n + 1 /\ b = n + 2
      OBVIOUS
    <3>2. /\ a \in 1 .. n + 2 /\ ~(a <= n) /\ a - n = 1
          /\ b \in 1 .. n + 2 /\ ~(b <= n) /\ b - n = 2
      BY ONLY <2>7, <3>1
    <3>3. s[a] = closing[1] /\ s[b] = closing[2]
      BY ONLY <2>8, <3>2
    <3> QED BY ONLY <2>5, <2>6, <3>1, <3>3
  <2>11. Closes(ecus, body, s)
    BY ONLY <2>3, <2>4, <2>8, <2>9, <2>10 DEF Closes
  <2> QED BY <1>4, <2>8, <2>11 DEF s, body, ecus
<1> QED BY <1>3, <1>4

\* The plan for a vehicle is a program.
LEMMA PlanIsProgram ==
  ASSUME NEW spec \in VehicleSpec
  PROVE  MockPlan(spec) \in Program
<1>1. spec.vehicle_id \in STRING /\ spec.ecus \in Seq(Ecu)
  BY DEF VehicleSpec
<1> DEFINE s == MockPlan(spec).steps
<1>2. s \in Seq(Step)
  BY <1>1, PlanShape
<1>3. MockPlan(spec) = [vehicle_id |-> spec.vehicle_id, steps |-> s,
                        notes |-> PlannerNote, claims |-> FALSE]
  BY DEF MockPlan
<1> HIDE DEF s
<1> QED BY <1>1, <1>2, <1>3 DEF Program, PlannerNote

\* The i-th step planned for the ECU at e, as it stands in the plan.
LEMMA BodyStep ==
  ASSUME NEW ecus \in Seq(Ecu), NEW e \in DOMAIN ecus, NEW i \in 1 .. Len(Planned(ecus[e])),
         NEW k, k = PlannedBefore(ecus, e) + i
  PROVE  /\ k \in 1 .. Len(PlanBody(ecus)) /\ PlannedBefore(ecus, e) \in Nat
         /\ PlanBody(ecus)[k].order = k
         /\ PlanBody(ecus)[k].step_type = Planned(ecus[e])[i]
         /\ PlanBody(ecus)[k].ecu_id = ecus[e].ecu_id
         /\ Fits(ecus, PlanBody(ecus)[k])
         /\ Range(PlanBody(ecus)[k].depends_on)
              = {PlannedBefore(ecus, e) + q : q \in Range(Prereq(Planned(ecus[e]), i))}
         /\ Range(PlanBody(ecus)[k].depends_on) \subseteq 1 .. (k - 1)
         /\ Len(PlanBody(ecus)[k].depends_on) \in 0 .. 2
<1>1. PICK off : off = PlannedBefore(ecus, e)
  OBVIOUS
<1>2. PICK step : step = EcuSteps(ecus[e], off)[i]
  OBVIOUS
<1>3. /\ ecus[e] \in Ecu /\ off \in Nat /\ k = off + i
      /\ k \in 1 .. Len(PlanBody(ecus)) /\ PlanBody(ecus)[k] = step
  BY <1>1, <1>2, BodyMeans
<1>4. IsEcuStep(step, ecus[e], off, i)
  BY <1>2, <1>3, EcuStepsMean
<1>5. \A q \in Range(Prereq(Planned(ecus[e]), i)) : off + q \in 1 .. (k - 1)
  <2>1. Prereq(Planned(ecus[e]), i) \in Seq(1 .. (i - 1))
    BY PrereqMeans
  <2>2. \A q \in Range(Prereq(Planned(ecus[e]), i)) : q \in 1 .. (i - 1)
    BY <2>1 DEF Range
  <2>3. i \in Nat
    BY PlannedMeans
  <2> QED BY <1>3, <2>2, <2>3
<1>6. Fits(ecus, step)
  BY <1>4 DEF Fits, IsEcuStep
<1>7. Range(step.depends_on) \subseteq 1 .. (k - 1)
  BY <1>4, <1>5 DEF IsEcuStep
<1> QED BY <1>1, <1>3, <1>4, <1>6, <1>7 DEF IsEcuStep

\* A plan has at most five steps per ECU and the closing ones.
LEMMA BodySmall ==
  ASSUME NEW ecus \in Seq(Ecu)
  PROVE  Len(PlanBody(ecus)) \in Nat /\ Len(PlanBody(ecus)) <= 5 * Len(ecus)
<1> DEFINE M == Len(ecus)
           Before(e) == PlannedBefore(ecus, e)
           Good == {e \in 1 .. M : Before(e) <= 5 * (e - 1)}
<1>1. M \in Nat /\ DOMAIN ecus = 1 .. M
  OBVIOUS
<1>2. /\ Before(1) = 0
      /\ \A e \in 1 .. M : /\ Before(e) \in Nat
                            /\ Before(e + 1) = Before(e) + Len(Planned(ecus[e]))
  BY <1>1, PlannedBeforeMeans
<1>3. \A e : Len(Planned(ecus[e])) \in 0 .. 5
  BY PlannedFew
<1> HIDE DEF M, Before
<1>4. ASSUME NEW e \in 1 .. (M - 1), e \in Good
      PROVE  e + 1 \in Good
  <2>1. e \in 1 .. M /\ e + 1 \in 1 .. M /\ e \in Nat
    BY <1>1
  <2>2. PICK b \in Nat : b = Before(e)
    BY <1>2, <2>1
  <2>3. PICK l \in 0 .. 5 : l = Len(Planned(ecus[e]))
    BY <1>3
  <2>4. Before(e + 1) = b + l /\ b <= 5 * (e - 1)
    BY <1>2, <1>4, <2>1, <2>2, <2>3
  <2>5. b + l <= 5 * (e + 1 - 1)
    BY ONLY <2>1, <2>4, b \in Nat, l \in 0 .. 5
  <2> QED BY <2>1, <2>4, <2>5
<1>5. M >= 1 => 1 \in Good
  BY <1>1, <1>2
<1> HIDE DEF Good
<1>6. \A e \in 1 .. M : e \in Good
  <2>1. CASE M >= 1
    BY ONLY <1>1, <1>4, <1>5, <2>1, UpFrom, 1 \in Nat
  <2> QED BY <1>1, <2>1
<1>7. PICK n : n = Len(PlanBody(ecus))
  OBVIOUS
<1>8. n \in Nat
  BY <1>7, BodyMeans
<1>9. CASE n = 0
  BY <1>1, <1>7, <1>9 DEF M
<1>10. CASE n # 0
  <2>1. n \in 1 .. n
    BY <1>8, <1>10
  <2>2. PICK e \in 1 .. M : \E i \in 1 .. Len(Planned(ecus[e])) : n = Before(e) + i
    <3>1. \A k \in 1 .. Len(PlanBody(ecus)) :
            \E e \in DOMAIN ecus : \E i \in 1 .. Len(Planned(ecus[e])) :
              k = PlannedBefore(ecus, e) + i
      BY BodyMeans
    <3> QED BY ONLY <1>1, <1>7, <2>1, <3>1 DEF Before
  <2>3. PICK i \in 1 .. Len(Planned(ecus[e])) : n = Before(e) + i
    BY <2>2
  <2>4. i \in 1 .. 5
    <3>1. PICK l \in 0 .. 5 : l = Len(Planned(ecus[e]))
      BY <1>3
    <3>2. i \in 1 .. l
      BY <3>1
    <3> QED BY ONLY <3>2, l \in 0 .. 5
  <2>5. PICK b \in Nat : b = Before(e)
    BY <1>2
  <2>6. b <= 5 * (e - 1) /\ n = b + i
    BY <1>6, <2>3, <2>5 DEF Good
  <2>7. n <= 5 * M
    BY ONLY <1>1, <2>4, <2>6, b \in Nat, e \in 1 .. M
  <2> QED BY <1>7, <1>8, <2>7 DEF M
<1> QED BY <1>9, <1>10

\* So the schema accepts it if it accepts that many dependencies.
LEMMA PlanFits ==
  ASSUME NEW spec \in VehicleSpec, 5 * Len(spec.ecus) <= MaxDependsOn
  PROVE  SchemaValid(MockPlan(spec))
<1> DEFINE ecus == spec.ecus
           body == PlanBody(ecus)
           s == MockPlan(spec).steps
           n == Len(body)
<1>1. ecus \in Seq(Ecu) /\ Len(ecus) \in Nat /\ DOMAIN ecus = 1 .. Len(ecus)
  BY DEF VehicleSpec
<1>2. /\ s \in Seq(Step)
      /\ body = <<>> => s = <<>>
      /\ body # <<>> => Closes(ecus, body, s)
  BY <1>1, PlanShape
<1>3. body \in Seq(Step) /\ n \in Nat /\ n <= 5 * Len(ecus)
  BY <1>1, BodyMeans, BodySmall
<1>4. MaxDependsOn \in Nat /\ MaxNotes \in Nat /\ PlannerNote <= MaxNotes
  BY BoundsAssumption, NotesAssumption
<1>5. MockPlan(spec).notes <= MaxNotes
  BY <1>4 DEF MockPlan
<1>6. \A k \in 1 .. Len(s) : Len(s[k].depends_on) <= MaxDependsOn
  <2>1. CASE body = <<>>
    BY <1>2, <2>1
  <2>2. CASE body # <<>>
    <3>1. n > 0
      BY <1>3, <2>2
    <3>2. MaxDependsOn >= 2 /\ n <= MaxDependsOn
      <4>1. PICK m : m = Len(ecus)
        OBVIOUS
      <4>2. m \in Nat /\ n <= 5 * m /\ 5 * m <= MaxDependsOn
        BY <1>1, <1>3, <4>1
      <4> QED BY ONLY <1>3, <1>4, <3>1, <4>2
    <3>3. /\ Len(s) = n + 2 /\ \A k \in 1 .. n : s[k] = body[k]
          /\ Len(s[n + 1].depends_on) = n /\ Len(s[n + 2].depends_on) = 1
      BY <1>2, <2>2 DEF Closes
    <3>4. ASSUME NEW k \in 1 .. n
          PROVE  Len(body[k].depends_on) \in 0 .. 2
      <4>1. PICK e \in DOMAIN ecus : \E i \in 1 .. Len(Planned(ecus[e])) :
                                      k = PlannedBefore(ecus, e) + i
        BY <1>1, BodyMeans
      <4>2. PICK i \in 1 .. Len(Planned(ecus[e])) : k = PlannedBefore(ecus, e) + i
        BY <4>1
      <4> QED BY <1>1, <4>2, BodyStep
    <3> HIDE DEF n, s, body
    <3> SUFFICES ASSUME NEW k \in 1 .. Len(s)
                 PROVE  Len(s[k].depends_on) <= MaxDependsOn
      OBVIOUS
    <3>5. k \in 1 .. n \/ k = n + 1 \/ k = n + 2
      BY <1>3, <3>3
    <3>6. PICK l : l = Len(s[k].depends_on)
      OBVIOUS
    <3>7. l \in 0 .. 2 \/ l = n
      BY <3>3, <3>4, <3>5, <3>6
    <3>8. n \in Nat /\ MaxDependsOn \in Nat
      BY <1>3, <1>4
    <3>9. l <= MaxDependsOn
      BY ONLY <3>2, <3>7, <3>8
    <3> QED BY <3>6, <3>9
  <2> QED BY <2>1, <2>2
<1> HIDE DEF s
<1>7. \A step \in Range(s) : Len(step.depends_on) <= MaxDependsOn
  BY <1>2, <1>6 DEF Range
<1> QED BY <1>5, <1>7 DEF SchemaValid, s

\* Every step from the j-th to the k-th waits for the one before.
Chain(s, j, k) == \A q \in (j + 1) .. k : (q - 1) \in Range(s[q].depends_on)

\* So do the steps of an ECU in the plan.
LEMMA BodyChain ==
  ASSUME NEW ecus \in Seq(Ecu), NEW e \in DOMAIN ecus,
         NEW a \in 1 .. Len(Planned(ecus[e])), NEW b \in 1 .. Len(Planned(ecus[e])),
         Planned(ecus[e])[b] # "validation" \/ Planned(ecus[e])[a] \in Gated
  PROVE  Chain(PlanBody(ecus), PlannedBefore(ecus, e) + a, PlannedBefore(ecus, e) + b)
<1> DEFINE p == Planned(ecus[e])
           body == PlanBody(ecus)
<1>1. PICK off : off = PlannedBefore(ecus, e)
  OBVIOUS
<1>2. off \in Nat /\ Len(p) \in Nat /\ a \in 1 .. Len(p) /\ b \in 1 .. Len(p)
  BY <1>1, BodyMeans, PlannedMeans
<1>3. \A c \in (a + 1) .. b : (c - 1) \in Range(Prereq(p, c))
  BY EcuChain
<1>4. \A c \in 1 .. Len(p) : \A q \in Range(Prereq(p, c)) : off + q \in Range(body[off + c].depends_on)
  <2> SUFFICES ASSUME NEW c \in 1 .. Len(p), NEW q \in Range(Prereq(p, c))
               PROVE  off + q \in Range(body[off + c].depends_on)
    OBVIOUS
  <2>1. PICK k : k = off + c
    OBVIOUS
  <2>2. Range(body[k].depends_on) = {off + r : r \in Range(Prereq(p, c))}
    <3>1. k = PlannedBefore(ecus, e) + c /\ c \in 1 .. Len(Planned(ecus[e]))
      BY <1>1, <2>1
    <3>2. Range(PlanBody(ecus)[k].depends_on)
            = {PlannedBefore(ecus, e) + r : r \in Range(Prereq(Planned(ecus[e]), c))}
      BY ONLY ecus \in Seq(Ecu), e \in DOMAIN ecus, <3>1, BodyStep
    <3> QED BY <1>1, <3>2
  <2> HIDE DEF p, body
  <2> QED BY <2>1, <2>2
<1> HIDE DEF p, body
<1>5. ASSUME NEW k \in (off + a + 1) .. (off + b)
      PROVE  (k - 1) \in Range(body[k].depends_on)
  <2>1. PICK c : c = k - off
    OBVIOUS
  <2>2. c \in (a + 1) .. b /\ c \in 1 .. Len(p) /\ off + c = k /\ off + (c - 1) = k - 1
    BY <1>2, <2>1
  <2>3. off + (c - 1) \in Range(body[off + c].depends_on)
    BY ONLY <1>3, <1>4, <2>2
  <2> QED BY <2>2, <2>3
<1> QED BY <1>1, <1>5 DEF Chain, body

\* The rules a plan of n steps and two closing ones keeps: orders and dependencies
\* go up; each step fits its ECU; an ECU that can be locked is unlocked before it is
\* changed, flashed before it is written and changed before it is validated; and
\* the closing steps wait for everything before them.
PlanRules(ecus, s, n) ==
  /\ Len(s) = n + 2
  /\ \A k \in 1 .. n + 2 : /\ s[k].order = k
                           /\ Fits(ecus, s[k])
                           /\ Range(s[k].depends_on) \subseteq 1 .. (k - 1)
  /\ \A k \in 1 .. n : s[k].step_type # "fault_clear"
  /\ \A k \in 1 .. n : s[k].step_type \in Gated =>
       \A e \in DOMAIN ecus : ecus[e].ecu_id = s[k].ecu_id /\ "0x27" \in ecus[e].supported =>
         \E j \in 1 .. n : /\ j < k /\ Chain(s, j, k)
                           /\ s[j].step_type = "security_access" /\ s[j].ecu_id = s[k].ecu_id
  /\ \A j, k \in 1 .. n :
       /\ s[j].ecu_id = s[k].ecu_id
       /\ \/ s[j].step_type = "flash_software" /\ s[k].step_type = "write_parameter"
          \/ s[j].step_type \in Gated /\ s[k].step_type = "validation"
       => j < k /\ Chain(s, j, k)
  /\ s[n + 1].step_type = "fault_clear" /\ s[n + 2].step_type = "validation"
  /\ Range(s[n + 1].depends_on) = 1 .. n /\ Range(s[n + 2].depends_on) = {n + 1}

LEMMA PlanKeepsRules ==
  ASSUME NEW spec, spec.ecus \in Seq(Ecu), UniqueEcus(spec), PlanBody(spec.ecus) # <<>>
  PROVE  PlanRules(spec.ecus, MockPlan(spec).steps, Len(PlanBody(spec.ecus)))
<1> DEFINE PB(e) == PlannedBefore(spec.ecus, e)
           P(e) == Planned(spec.ecus[e])
<1>1. PICK ecus, body, s, n : /\ ecus = spec.ecus /\ body = PlanBody(ecus)
                              /\ s = MockPlan(spec).steps /\ n = Len(body)
  OBVIOUS
<1>2. ecus \in Seq(Ecu) /\ n \in Nat /\ Closes(ecus, body, s)
  BY <1>1, BodyMeans, PlanShape
<1>3. \A k \in 1 .. n : s[k] = body[k]
  BY <1>1, <1>2 DEF Closes
<1>4. \A e \in DOMAIN ecus : \A i \in 1 .. Len(P(e)) : \A k :
        k = PB(e) + i =>
          /\ k \in 1 .. n /\ PB(e) \in Nat /\ i \in Nat
          /\ s[k].order = k /\ s[k].step_type = P(e)[i] /\ s[k].ecu_id = ecus[e].ecu_id
          /\ Fits(ecus, s[k]) /\ Range(s[k].depends_on) \subseteq 1 .. (k - 1)
  <2> SUFFICES ASSUME NEW e \in DOMAIN ecus, NEW i \in 1 .. Len(P(e)), NEW k, k = PB(e) + i
               PROVE  /\ k \in 1 .. n /\ PB(e) \in Nat /\ i \in Nat
                      /\ s[k].order = k /\ s[k].step_type = P(e)[i]
                      /\ s[k].ecu_id = ecus[e].ecu_id
                      /\ Fits(ecus, s[k]) /\ Range(s[k].depends_on) \subseteq 1 .. (k - 1)
    OBVIOUS
  <2>1. k = PlannedBefore(ecus, e) + i /\ i \in 1 .. Len(Planned(ecus[e]))
    BY <1>1
  <2>2. /\ k \in 1 .. Len(PlanBody(ecus)) /\ PlannedBefore(ecus, e) \in Nat
        /\ PlanBody(ecus)[k].order = k
        /\ PlanBody(ecus)[k].step_type = Planned(ecus[e])[i]
        /\ PlanBody(ecus)[k].ecu_id = ecus[e].ecu_id
        /\ Fits(ecus, PlanBody(ecus)[k])
        /\ Range(PlanBody(ecus)[k].depends_on) \subseteq 1 .. (k - 1)
    BY ONLY <1>2, <2>1, e \in DOMAIN ecus, BodyStep
  <2>3. i \in Nat
    BY <1>1, PlannedMeans
  <2> QED BY <1>1, <1>3, <2>2, <2>3
<1>5. \A k \in 1 .. n : \E e \in DOMAIN ecus : \E i \in 1 .. Len(P(e)) : k = PB(e) + i
  BY <1>1, <1>2, BodyMeans
<1>6. \A e \in DOMAIN ecus : \A a, b \in 1 .. Len(P(e)) :
        P(e)[b] # "validation" \/ P(e)[a] \in Gated => Chain(s, PB(e) + a, PB(e) + b)
  <2> SUFFICES ASSUME NEW e \in DOMAIN ecus, NEW a \in 1 .. Len(P(e)), NEW b \in 1 .. Len(P(e)),
                      P(e)[b] # "validation" \/ P(e)[a] \in Gated
               PROVE  Chain(s, PB(e) + a, PB(e) + b)
    OBVIOUS
  <2>1. Chain(body, PB(e) + a, PB(e) + b)
    BY <1>1, <1>2, BodyChain
  <2>2. PICK j, k : j = PB(e) + a /\ k = PB(e) + b
    OBVIOUS
  <2>3. j \in 1 .. n /\ k \in 1 .. n
    BY <1>4, <2>2
  <2>4. \A q \in (j + 1) .. k : q \in 1 .. n
    BY <1>2, <2>3
  <2>5. Chain(body, j, k)
    BY <2>1, <2>2
  <2>6. Chain(s, j, k)
    BY ONLY <1>3, <2>4, <2>5 DEF Chain
  <2> QED BY <2>2, <2>6
<1>7. \A e \in DOMAIN ecus :
        /\ \A a, b \in 1 .. Len(P(e)) : RankOf(P(e)[a]) < RankOf(P(e)[b]) => a < b
        /\ \A a \in 1 .. Len(P(e)) : P(e)[a] \in PlanTypes /\ Wanted(ecus[e], P(e)[a])
        /\ \A type \in PlanTypes : Wanted(ecus[e], type) => \E a \in 1 .. Len(P(e)) : P(e)[a] = type
  <2>1. \A e \in DOMAIN ecus : P(e) = Planned(ecus[e])
    BY <1>1
  <2> HIDE DEF P
  <2> QED BY <2>1, PlannedMeans
<1>8. \A e, f \in DOMAIN ecus : ecus[e].ecu_id = ecus[f].ecu_id => e = f
  BY <1>1 DEF UniqueEcus
<1> HIDE DEF PB, P
<1>9. /\ Len(s) = n + 2
      /\ \A k \in {n + 1, n + 2} : s[k].order = k /\ Fits(ecus, s[k])
      /\ s[n + 1].step_type = "fault_clear" /\ s[n + 2].step_type = "validation"
      /\ Range(s[n + 1].depends_on) = 1 .. n /\ Range(s[n + 2].depends_on) = {n + 1}
  BY <1>1, <1>2 DEF Closes
<1>10. \A k \in 1 .. n + 2 : /\ s[k].order = k
                              /\ Fits(ecus, s[k])
                              /\ Range(s[k].depends_on) \subseteq 1 .. (k - 1)
  <2> SUFFICES ASSUME NEW k \in 1 .. n + 2
               PROVE  /\ s[k].order = k
                      /\ Fits(ecus, s[k])
                      /\ Range(s[k].depends_on) \subseteq 1 .. (k - 1)
    OBVIOUS
  <2>1. CASE k \in 1 .. n
    <3>1. PICK e \in DOMAIN ecus : \E i \in 1 .. Len(P(e)) : k = PB(e) + i
      BY <1>5, <2>1
    <3>2. PICK i \in 1 .. Len(P(e)) : k = PB(e) + i
      BY <3>1
    <3> QED BY <1>4, <3>2
  <2>2. CASE k = n + 1
    <3>1. k - 1 = n
      BY <1>2, <2>2
    <3> QED BY <1>9, <2>2, <3>1
  <2>3. CASE k = n + 2
    <3>1. \A x \in {n + 1} : x \in 1 .. (k - 1)
      BY <1>2, <2>3
    <3> QED BY <1>9, <2>3, <3>1
  <2> QED BY <1>2, <2>1, <2>2, <2>3
<1>11. \A k \in 1 .. n : s[k].step_type # "fault_clear"
  <2>1. "fault_clear" \notin PlanTypes
    BY DEF PlanTypes
  <2> SUFFICES ASSUME NEW k \in 1 .. n
               PROVE  s[k].step_type # "fault_clear"
    OBVIOUS
  <2>2. PICK e \in DOMAIN ecus : \E i \in 1 .. Len(P(e)) : k = PB(e) + i
    BY <1>5
  <2>3. PICK i \in 1 .. Len(P(e)) : k = PB(e) + i
    BY <2>2
  <2>4. s[k].step_type = P(e)[i]
    BY <1>4, <2>3
  <2>5. P(e)[i] \in PlanTypes
    BY <1>7
  <2> QED BY <2>1, <2>4, <2>5
<1>12. ASSUME NEW k \in 1 .. n, s[k].step_type \in Gated, NEW e \in DOMAIN ecus,
              ecus[e].ecu_id = s[k].ecu_id, "0x27" \in ecus[e].supported
       PROVE  \E j \in 1 .. n : /\ j < k /\ Chain(s, j, k)
                                /\ s[j].step_type = "security_access" /\ s[j].ecu_id = s[k].ecu_id
  <2>1. PICK i \in 1 .. Len(P(e)) : k = PB(e) + i
    <3>1. PICK f \in DOMAIN ecus : \E i \in 1 .. Len(P(f)) : k = PB(f) + i
      BY <1>5
    <3>2. f = e
      BY <1>4, <1>8, <1>12, <3>1
    <3> QED BY <3>1, <3>2
  <2>2. P(e)[i] \in Gated /\ Wanted(ecus[e], P(e)[i])
    BY <1>4, <1>7, <1>12, <2>1
  <2>3. "security_access" \in PlanTypes /\ Wanted(ecus[e], "security_access")
    BY <1>12, <2>2 DEF Gated, Wanted, PlanTypes
  <2>4. PICK a \in 1 .. Len(P(e)) : P(e)[a] = "security_access"
    BY <1>7, <2>3
  <2>5. a < i
    <3>1. RankOf(P(e)[a]) < RankOf(P(e)[i])
      BY <2>2, <2>4 DEF Gated, RankOf
    <3> QED BY <1>7, <3>1
  <2>6. PICK j : j = PB(e) + a
    OBVIOUS
  <2>7. /\ j \in 1 .. n /\ s[j].step_type = "security_access" /\ s[j].ecu_id = s[k].ecu_id
        /\ PB(e) \in Nat /\ a \in Nat /\ i \in Nat
    BY <1>4, <1>12, <2>1, <2>4, <2>6
  <2>8. j < k
    BY <2>1, <2>5, <2>6, <2>7
  <2>9. Chain(s, j, k)
    <3>1. P(e)[i] # "validation"
      BY <2>2 DEF Gated
    <3> QED BY <1>6, <2>1, <2>6, <3>1
  <2> QED BY <2>7, <2>8, <2>9
<1>13. ASSUME NEW j \in 1 .. n, NEW k \in 1 .. n, s[j].ecu_id = s[k].ecu_id,
              \/ s[j].step_type = "flash_software" /\ s[k].step_type = "write_parameter"
              \/ s[j].step_type \in Gated /\ s[k].step_type = "validation"
       PROVE  j < k /\ Chain(s, j, k)
  <2>1. PICK e \in DOMAIN ecus : \E a \in 1 .. Len(P(e)) : j = PB(e) + a
    BY <1>5
  <2>2. PICK f \in DOMAIN ecus : \E b \in 1 .. Len(P(f)) : k = PB(f) + b
    BY <1>5
  <2>3. PICK a \in 1 .. Len(P(e)) : j = PB(e) + a
    BY <2>1
  <2>4. PICK b \in 1 .. Len(P(f)) : k = PB(f) + b
    BY <2>2
  <2>5. /\ s[j].step_type = P(e)[a] /\ s[k].step_type = P(f)[b]
        /\ s[j].ecu_id = ecus[e].ecu_id /\ s[k].ecu_id = ecus[f].ecu_id
        /\ PB(e) \in Nat /\ a \in Nat /\ b \in Nat
    <3>1. s[j].step_type = P(e)[a] /\ s[j].ecu_id = ecus[e].ecu_id /\ PB(e) \in Nat /\ a \in Nat
      BY <1>4, <2>3
    <3>2. s[k].step_type = P(f)[b] /\ s[k].ecu_id = ecus[f].ecu_id /\ b \in Nat
      BY <1>4, <2>4
    <3> QED BY <3>1, <3>2
  <2>6. f = e
    BY <1>8, <1>13, <2>5
  <2>7. RankOf(P(e)[a]) < RankOf(P(e)[b])
    BY <1>13, <2>5, <2>6 DEF Gated, RankOf
  <2>8. a < b
    BY <1>7, <2>6, <2>7, <2>4
  <2>9. P(e)[b] # "validation" \/ P(e)[a] \in Gated
    BY <1>13, <2>5, <2>6
  <2> QED BY <1>6, <2>5, <2>6, <2>8, <2>9, <2>3, <2>4
<1>14. PlanRules(ecus, s, n)
  BY ONLY <1>9, <1>10, <1>11, <1>12, <1>13 DEF PlanRules
<1> QED BY <1>1, <1>14

-----------------------------------------------------------------------------
(* The pipeline                                                            *)

\* The parts of the assumption on the constants, one by one.
LEMMA Constants ==
  /\ MaxRepairAttempts \in Nat
  /\ DOMAIN Answers = 0 .. MaxRepairAttempts
  /\ \A n \in DOMAIN Answers : Answers[n] \subseteq Program
  /\ \A c \in Calls : c.provider \in Providers /\ c.model_file \in ModelFiles
  /\ \A e \in Errors \cup {NoFailure} : e.length \in Nat /\ e.claims \in BOOLEAN
  /\ Learned \in [Trainings -> [StepTypes -> [Versions \cup {NoVersion} -> Nat]]]
<1>1. Errors \subseteq [length : Nat, claims : BOOLEAN]
  BY PipelineAssumption
<1>2. \A e \in Errors : e.length \in Nat /\ e.claims \in BOOLEAN
  BY <1>1
<1>3. NoFailure.length \in Nat /\ NoFailure.claims \in BOOLEAN
  BY DEF NoFailure
<1> QED BY <1>2, <1>3, PipelineAssumption

\* A request starts with no program and nothing exported.
LEMMA InitInv == Init => IInv
<1> SUFFICES ASSUME Init PROVE IInv
  OBVIOUS
<1>1. repair_attempts \in 0 .. MaxRepairAttempts
  <2>1. MaxRepairAttempts \in Nat
    BY Constants
  <2> QED BY <2>1 DEF Init
<1>2. call.provider \in Providers /\ call.model_file \in ModelFiles
  BY Constants DEF Init
<1>3. TypeOK
  BY <1>1, <1>2 DEF Init, TypeOK
<1> QED BY <1>3 DEF Init, IInv, VerdictInv, VerdictStillHolds, ExportInv,
                    SmallVehiclesAnswered

\* Whatever program is adopted, from whom and in whichever round, is validated
\* on the spot.
LEMMA AdoptInv ==
  ASSUME IInv, export.result = "none", UNCHANGED <<call, export>>,
         failure' \in Errors \cup {NoFailure},
         NEW new \in Program, NEW by \in PlanNames \cup Providers,
         NEW attempts \in 0 .. MaxRepairAttempts,
         Adopt(new, by, attempts)
  PROVE  IInv'
<1>1. /\ program' = new /\ issues' = ValidateProgram(call.spec, new)
      /\ provider_name' = by /\ repair_attempts' = attempts
      /\ pc' = AfterValidation(by, issues', attempts)
  BY DEF Adopt
<1>2. pc' = "notes" \/ (pc' = "repair" /\ ~IsValid(issues') /\ by \notin PlanNames
                          /\ attempts < MaxRepairAttempts)
  BY <1>1 DEF AfterValidation, PlanNames
<1>3. TypeOK'
  BY <1>1, <1>2, ValidMeans DEF IInv, TypeOK
<1>4. (IsValid(issues) <=> Gate)'
  BY <1>1 DEF Gate
<1>5. VerdictInv'
  BY <1>2, <1>4 DEF VerdictInv, VerdictStillHolds
<1> QED BY <1>1, <1>2, <1>3, <1>5 DEF IInv, ExportInv, SmallVehiclesAnswered

\* The planner's program is adopted, or there is nothing to answer with.
LEMMA PlanInv ==
  ASSUME IInv, pc = "generate", UNCHANGED <<call, export>>,
         failure' \in Errors \cup {NoFailure},
         NEW by \in PlanNames, Plan(by)
  PROVE  IInv'
<1> DEFINE plan == MockPlan(call.spec)
<1>1. plan \in Program
  BY PlanIsProgram, PipelineAssumption DEF IInv
<1>2. export.result = "none"
  BY DEF IInv, ExportInv
<1> HIDE DEF plan
<1>3. CASE SchemaValid(plan)
  <2>1. Adopt(plan, by, 0)
    BY <1>3 DEF Plan, plan
  <2>2. 0 \in 0 .. MaxRepairAttempts
    BY Constants
  <2> QED BY <1>1, <1>2, <2>1, <2>2, AdoptInv
<1>4. CASE ~SchemaValid(plan)
  <2>1. pc' = "failed" /\ UNCHANGED <<program, issues, provider_name, repair_attempts>>
    BY <1>4 DEF Plan, plan
  <2>2. ~(5 * Len(call'.spec.ecus) <= MaxDependsOn)
    BY <1>4, PlanFits, PipelineAssumption DEF plan, IInv
  <2>3. TypeOK'
    BY <2>1 DEF IInv, TypeOK
  <2> QED BY <1>2, <2>1, <2>2, <2>3 DEF IInv, VerdictInv, VerdictStillHolds, ExportInv,
                                      SmallVehiclesAnswered
<1> QED BY <1>3, <1>4

\* A program returned by a round of repair is validated like the first.
LEMMA RepairOkInv == IInv /\ RepairOk => IInv'
<1> SUFFICES ASSUME IInv, RepairOk PROVE IInv'
  OBVIOUS
<1>1. PICK answer \in Answers[repair_attempts + 1] : Repaired(answer)
  BY DEF RepairOk
<1>2. MaxRepairAttempts \in Nat
  BY Constants
<1>3. repair_attempts + 1 \in 0 .. MaxRepairAttempts
  BY <1>2 DEF RepairOk, IInv, TypeOK
<1>4. /\ provider_name \in PlanNames \cup Providers
      /\ export.result = "none"
      /\ failure' \in Errors \cup {NoFailure} /\ UNCHANGED <<call, export>>
  BY DEF RepairOk, IInv, TypeOK, ExportInv
<1>5. answer \in Program
  BY <1>3, Constants
<1> QED BY <1>1, <1>3, <1>4, <1>5, AdoptInv DEF Repaired

\* A failed round keeps the last program together with its verdict.
LEMMA RepairFailsInv == IInv /\ RepairFails => IInv'
<1> SUFFICES ASSUME IInv, RepairFails PROVE IInv'
  OBVIOUS
<1> USE DEF RepairFails
<1>1. TypeOK'
  <2>1. MaxRepairAttempts \in Nat
    BY Constants
  <2>2. repair_attempts + 1 \in 0 .. MaxRepairAttempts
    BY <2>1 DEF IInv, TypeOK
  <2> QED BY <2>2 DEF IInv, TypeOK
<1>2. (IsValid(issues) <=> Gate)'
  BY DEF IInv, VerdictInv, Gate
<1> QED BY <1>1, <1>2 DEF IInv, VerdictInv, VerdictStillHolds, ExportInv,
                          SmallVehiclesAnswered

\* The sentences appended to the notes leave the steps alone, and with them the
\* verdict.
LEMMA AppendNotesInv == IInv /\ AppendNotes => IInv'
<1> SUFFICES ASSUME IInv, AppendNotes PROVE IInv'
  OBVIOUS
<1>1. PICK notes, claims :
        /\ notes \in Nat /\ claims \in BOOLEAN
        /\ program' = [program EXCEPT !.notes = notes, !.claims = claims]
  <2>1. program.notes \in Nat /\ program.claims \in BOOLEAN
    BY DEF AppendNotes, IInv, Program
  <2>2. failure.length \in Nat /\ failure.claims \in BOOLEAN
    BY Constants DEF IInv, TypeOK
  <2>3. \A m, n \in Nat : Join(m, n) \in Nat
    BY DEF Join
  <2>4. FallbackNote(failure) \in Nat /\ RepairNote(IsValid(issues)) \in Nat
    BY <2>2 DEF FallbackNote, RepairNote
  <2> DEFINE fallback == IF provider_name = "mock-fallback" THEN FallbackNote(failure) ELSE 0
             repair == IF repair_attempts > 0 THEN RepairNote(IsValid(issues)) ELSE 0
  <2>5. fallback \in Nat /\ repair \in Nat
    BY <2>4
  <2>6. program' = [program EXCEPT !.notes = Join(Join(@, fallback), repair),
                                   !.claims = @ \/ failure.claims]
    BY DEF AppendNotes
  <2> HIDE DEF fallback, repair
  <2>7. Join(Join(program.notes, fallback), repair) \in Nat
    BY <2>1, <2>3, <2>5
  <2>8. (program.claims \/ failure.claims) \in BOOLEAN
    OBVIOUS
  <2> QED BY <2>6, <2>7, <2>8
<1>2. /\ program' \in Program /\ program'.vehicle_id = program.vehicle_id
      /\ program'.steps = program.steps
  BY <1>1 DEF AppendNotes, IInv, Program
<1>3. Alike(program.steps, program'.steps)
  BY <1>2 DEF Alike
<1>4. pc = "notes" /\ pc' = "durations"
      /\ UNCHANGED <<call, issues, provider_name, repair_attempts, failure, export>>
  BY DEF AppendNotes
<1>5. (IsValid(issues) <=> Gate)'
  BY <1>2, <1>3, <1>4, SameVerdict DEF IInv, TypeOK, VerdictInv, Gate
<1>6. TypeOK'
  BY <1>2, <1>4 DEF IInv, TypeOK
<1> QED BY <1>2, <1>4, <1>5, <1>6 DEF IInv, VerdictInv, VerdictStillHolds, ExportInv,
                                SmallVehiclesAnswered

\* A learned duration replaces the step's own and nothing else.
LEMMA LearnedType ==
  ASSUME call \in Calls, NEW step \in Step, NEW model \in Models
  PROVE  \E seconds \in Nat :
           WithLearnedDuration(step, model) = [step EXCEPT !.estimated_seconds = seconds]
<1> DEFINE target == IF Known(call.spec, step) THEN EcuOf(call.spec, step.ecu_id).target
                                               ELSE NoVersion
<1>1. target \in Versions \cup {NoVersion}
  BY TargetType
<1>2. step.step_type \in StepTypes /\ step.estimated_seconds \in Nat
      /\ step = [step EXCEPT !.estimated_seconds = step.estimated_seconds]
  BY DEF Step
<1>3. model = "none" \/ model \in Trainings
  BY DEF Models, Trainings
<1>4. WithLearnedDuration(step, model) =
        IF model = "none" THEN step
        ELSE [step EXCEPT !.estimated_seconds = Learned[model][step.step_type][target]]
  BY DEF WithLearnedDuration
<1> HIDE DEF target
<1>5. CASE model = "none"
  BY <1>2, <1>4, <1>5
<1>6. CASE model # "none"
  <2>1. Learned[model][step.step_type][target] \in Nat
    BY <1>1, <1>2, <1>3, <1>6, Constants
  <2> QED BY <1>4, <1>6, <2>1
<1> QED BY <1>5, <1>6

\* What the learned durations change, the validator does not look at.
LEMMA DurationsAlike ==
  ASSUME call \in Calls, program \in Program, ApplyDurations
  PROVE  /\ program' \in Program /\ program'.vehicle_id = program.vehicle_id
         /\ Alike(program.steps, program'.steps)
<1>1. CASE program' = program
  BY <1>1 DEF Alike, Program
<1>2. CASE program' # program
  <2>0. PICK model \in [DOMAIN program.steps -> Models] :
          program' = [program EXCEPT
                        !.steps = [i \in DOMAIN @ |-> WithLearnedDuration(@[i], model[i])],
                        !.notes = Join(@, DurationsNote)]
    BY <1>2 DEF ApplyDurations
  <2> DEFINE new == [i \in DOMAIN program.steps |->
                       WithLearnedDuration(program.steps[i], model[i])]
  <2>1. program' = [program EXCEPT !.steps = new, !.notes = Join(@, DurationsNote)]
    BY <2>0
  <2>2. Join(program.notes, DurationsNote) \in Nat
    BY DEF Program, Join, DurationsNote
  <2>3. program.steps \in Seq(Step)
    BY DEF Program
  <2>4. ASSUME NEW i \in 1..Len(program.steps)
        PROVE  /\ new[i] \in Step
               /\ new[i].order = program.steps[i].order
               /\ new[i].step_type = program.steps[i].step_type
               /\ new[i].ecu_id = program.steps[i].ecu_id
               /\ new[i].uds_service = program.steps[i].uds_service
               /\ new[i].depends_on = program.steps[i].depends_on
    <3>1. program.steps[i] \in Step /\ i \in DOMAIN program.steps
      BY <2>3
    <3>2. PICK seconds \in Nat :
            WithLearnedDuration(program.steps[i], model[i])
              = [program.steps[i] EXCEPT !.estimated_seconds = seconds]
      BY <3>1, LearnedType
    <3>3. new[i] = [program.steps[i] EXCEPT !.estimated_seconds = seconds]
      BY <3>1, <3>2
    <3> QED BY <3>1, <3>3 DEF Step
  <2>5. DOMAIN new = 1..Len(program.steps) /\ Len(program.steps) \in Nat
    BY <2>3
  <2> HIDE DEF new
  <2>6. new = [i \in 1..Len(program.steps) |-> new[i]]
    BY <2>5 DEF new
  <2>7. new \in Seq(Step) /\ Len(new) = Len(program.steps)
    BY <2>4, <2>5, <2>6
  <2>8. Alike(program.steps, new)
    BY <2>4, <2>7 DEF Alike
  <2>9. /\ program'.steps = new /\ program'.vehicle_id = program.vehicle_id
        /\ program' \in Program
    BY <2>1, <2>2, <2>7 DEF Program
  <2> QED BY <2>8, <2>9
<1> QED BY <1>1, <1>2

\* New durations and one more note change nothing the validator looks at.
LEMMA ApplyDurationsInv == IInv /\ ApplyDurations => IInv'
<1> SUFFICES ASSUME IInv, ApplyDurations PROVE IInv'
  OBVIOUS
<1>1. /\ pc = "durations"
      /\ UNCHANGED <<call, issues, provider_name, repair_attempts, failure, export>>
  BY DEF ApplyDurations
<1>2. CASE pc' = "failed"
  <2>1. UNCHANGED program /\ ModelRaises
    BY <1>2 DEF ApplyDurations
  <2>2. call'.model_file \notin {"absent", "trained"}
    BY <1>1, <2>1 DEF ModelRaises
  <2>3. TypeOK'
    BY <1>1, <1>2, <2>1 DEF IInv, TypeOK
  <2> QED BY <1>1, <1>2, <2>1, <2>2, <2>3
          DEF IInv, VerdictInv, VerdictStillHolds, ExportInv, SmallVehiclesAnswered
<1>3. CASE pc' # "failed"
  <2>1. program \in Program /\ call \in Calls
    BY <1>1 DEF IInv
  <2>2. pc' = "schedule"
    BY <1>3 DEF ApplyDurations
  <2>3. /\ program' \in Program /\ program'.vehicle_id = program.vehicle_id
        /\ Alike(program.steps, program'.steps)
    BY <2>1, DurationsAlike
  <2>4. (IsValid(issues) <=> Gate)'
    BY <1>1, <2>1, <2>3, SameVerdict DEF IInv, VerdictInv, Gate
  <2>5. TypeOK'
    BY <1>1, <2>2, <2>3 DEF IInv, TypeOK
  <2> QED BY <1>1, <2>2, <2>3, <2>4, <2>5 DEF IInv, VerdictInv, VerdictStillHolds,
                                              ExportInv, SmallVehiclesAnswered
<1> QED BY <1>2, <1>3

\* Scheduling turns the verdict into that of the answer.
LEMMA ScheduleInv == IInv /\ Schedule => IInv'
<1> SUFFICES ASSUME IInv, Schedule PROVE IInv'
  OBVIOUS
<1>1. /\ pc = "schedule" /\ pc' = "answered"
      /\ UNCHANGED <<call, program, provider_name, repair_attempts, failure, export>>
      /\ issues' = IF Schedulable(program.steps) THEN issues ELSE issues \cup {Unschedulable}
  BY DEF Schedule
<1>2. Unschedulable.severity = "error"
  BY DEF Unschedulable, Issue
<1>3. IsValid(issues) <=> Gate
  BY <1>1 DEF IInv, VerdictInv
<1>4. IsValid(issues') <=> Gate /\ Schedulable(program.steps)
  BY <1>1, <1>2, <1>3 DEF IsValid
<1>5. VerdictStillHolds'
  BY <1>1, <1>4 DEF VerdictStillHolds, Gate
<1>6. TypeOK'
  BY <1>1, <1>2 DEF IInv, TypeOK
<1>7. export.result = "none"
  BY <1>1 DEF IInv, ExportInv
<1> QED BY <1>1, <1>5, <1>6, <1>7 DEF IInv, VerdictInv, ExportInv, SmallVehiclesAnswered

\* What is exported has passed the gate.
LEMMA ExportStepInv == IInv /\ Export => IInv'
<1> SUFFICES ASSUME IInv, Export PROVE IInv'
  OBVIOUS
<1>1. /\ pc = "answered"
      /\ UNCHANGED <<call, pc, program, issues, provider_name, repair_attempts, failure>>
  BY DEF Export
<1>2. PICK format \in {"otx", "csv"} :
        export' = CASE ~SchemaValid(program) -> [result |-> "unprocessable", steps |-> <<>>]
                    [] SchemaValid(program) /\ ~Gate -> [result |-> "refused", steps |-> <<>>]
                    [] OTHER -> [result |-> format, steps |-> Document(format, program.steps)]
  BY DEF Export
<1>3. \/ export'.result = "unprocessable"
      \/ ~Gate /\ export'.result = "refused"
      \/ Gate /\ export'.result \in {"otx", "csv"}
  BY <1>2
<1>4. Gate' = Gate /\ (IsValid(issues) <=> IsValid(issues'))
  BY <1>1 DEF Gate
<1>5. TypeOK'
  BY <1>1, <1>3 DEF IInv, TypeOK
<1>6. ExportInv'
  BY <1>1, <1>3, <1>4 DEF ExportInv
<1>7. VerdictInv'
  BY <1>1, <1>4 DEF IInv, VerdictInv, VerdictStillHolds
<1> QED BY <1>1, <1>5, <1>6, <1>7 DEF IInv, SmallVehiclesAnswered

\* Whoever makes the first program, it is validated as it is adopted.
LEMMA GenerateInv == IInv /\ (GenerateMock \/ GenerateOk \/ GenerateFails) => IInv'
<1> SUFFICES ASSUME IInv, GenerateMock \/ GenerateOk \/ GenerateFails PROVE IInv'
  OBVIOUS
<1>1. CASE GenerateMock
  <2>1. failure' \in Errors \cup {NoFailure}
    BY <1>1 DEF GenerateMock, IInv, TypeOK
  <2> QED BY <1>1, <2>1, PlanInv DEF GenerateMock, PlanNames
<1>2. CASE GenerateOk
  <2>1. PICK answer \in Answers[0] : Adopt(answer, call.provider, 0)
    BY <1>2 DEF GenerateOk
  <2>2. 0 \in 0 .. MaxRepairAttempts
    BY Constants
  <2>3. answer \in Program
    BY <2>2, Constants
  <2>4. failure' \in Errors \cup {NoFailure} /\ UNCHANGED <<call, export>>
    BY <1>2 DEF GenerateOk, IInv, TypeOK
  <2>5. call.provider \in PlanNames \cup Providers /\ export.result = "none"
    BY <1>2 DEF GenerateOk, IInv, TypeOK, ExportInv
  <2> QED BY <2>1, <2>2, <2>3, <2>4, <2>5, AdoptInv
<1>3. CASE GenerateFails
  <2>1. /\ failure' \in Errors \cup {NoFailure} /\ UNCHANGED <<call, export>>
        /\ pc = "generate" /\ Plan("mock-fallback")
    BY <1>3 DEF GenerateFails
  <2> QED BY <2>1, PlanInv DEF PlanNames
<1> QED BY <1>1, <1>2, <1>3

\* Every step keeps the invariant,
LEMMA Invariance == IInv /\ [Next]_vars => IInv'
<1> SUFFICES ASSUME IInv, [Next]_vars PROVE IInv'
  OBVIOUS
<1>1. CASE Serve
  BY <1>1, GenerateInv, RepairOkInv, RepairFailsInv, AppendNotesInv, ApplyDurationsInv,
     ScheduleInv DEF Serve
<1>2. CASE Export
  BY <1>2, ExportStepInv
<1>3. CASE UNCHANGED vars
  <2>1. UNCHANGED <<call, pc, program, issues, provider_name, repair_attempts, failure, export>>
    BY <1>3 DEF vars
  <2>2. TypeOK'
    BY <2>1 DEF IInv, TypeOK
  <2>3. VerdictInv' /\ ExportInv' /\ SmallVehiclesAnswered'
    BY <2>1 DEF IInv, VerdictInv, VerdictStillHolds, ExportInv, SmallVehiclesAnswered, Gate
  <2> QED BY <2>1, <2>2, <2>3 DEF IInv
<1> QED BY <1>1, <1>2, <1>3 DEF Next

\* and so it holds throughout.
LEMMA Inductive == Spec => []IInv
BY InitInv, Invariance, PTL DEF Spec

-----------------------------------------------------------------------------
(* The theorems                                                            *)

\* The types of the pipeline's state, for every LLM and every vehicle.
THEOREM TypeCorrect == Spec => []TypeOK
<1>1. IInv => TypeOK
  BY DEF IInv
<1> QED BY <1>1, Inductive, PTL

\* The verdict an answer carries is the verdict on the program it carries, however
\* many rounds of repair, appended notes and replaced durations lie between the
\* validation and the answer (run_pipeline validates in generate and in the repair
\* loop only).
THEOREM VerdictKept == Spec => []VerdictStillHolds
<1>1. IInv => VerdictStillHolds
  BY DEF IInv, VerdictInv
<1> QED BY <1>1, Inductive, PTL

\* The gate of the export and the verdict of the pipeline disagree on repeated
\* orders only, and then in the program's favour.
THEOREM GateAgrees == Spec => []ExportGateAgrees
<1>1. IInv => ExportGateAgrees
  <2> SUFFICES ASSUME IInv PROVE ExportGateAgrees
    OBVIOUS
  <2>1. ASSUME export.result \in {"otx", "csv"}, ~IsValid(issues)
        PROVE  ~DistinctOrders(program.steps)
    <3>1. pc = "answered" /\ Gate
      BY <2>1 DEF IInv, ExportInv
    <3>2. ~Schedulable(program.steps)
      BY <2>1, <3>1 DEF IInv, VerdictInv, VerdictStillHolds, Gate
    <3>3. program \in Program
      BY <3>1 DEF IInv
    <3> QED BY <3>1, <3>2, <3>3, ValidSchedulable DEF Gate
  <2>2. ASSUME export.result = "refused"
        PROVE  ~IsValid(issues)
    BY <2>2 DEF IInv, ExportInv, VerdictInv, VerdictStillHolds, Gate
  <2> QED BY <2>1, <2>2 DEF ExportGateAgrees
<1> QED BY <1>1, Inductive, PTL

\* A vehicle of at most a fifth as many ECUs as a step may have dependencies, with a
\* model file that is good or missing, is served whatever the LLM does
\* (llm_service.py:24): its plan to fall back on never breaks the schema.
THEOREM SmallVehiclesServed == Spec => []SmallVehiclesAnswered
<1>1. IInv => SmallVehiclesAnswered
  BY DEF IInv
<1> QED BY <1>1, Inductive, PTL

\* What is alike but for notes and durations is the same to the validator.
LEMMA AlikeChecked ==
  ASSUME NEW p \in Program, NEW q \in Program,
         p.vehicle_id = q.vehicle_id, Alike(p.steps, q.steps)
  PROVE  Checked(p) = Checked(q)
<1>1. /\ p.steps \in Seq(Step) /\ q.steps \in Seq(Step)
      /\ DOMAIN p.steps = 1..Len(p.steps) /\ DOMAIN q.steps = 1..Len(p.steps)
  BY DEF Program, Alike
<1>2. ASSUME NEW i \in 1..Len(p.steps)
      PROVE  [p.steps[i] EXCEPT !.estimated_seconds = 0]
               = [q.steps[i] EXCEPT !.estimated_seconds = 0]
  <2>1. p.steps[i] \in Step /\ q.steps[i] \in Step
    BY <1>1
  <2> QED BY <2>1 DEF Alike, Step
<1> QED BY <1>1, <1>2 DEF Checked

\* After the first answer a program is replaced in a round of repair of an invalid
\* one only, and the replacement is validated in that round (generator.py:105-129).
THEOREM RepairsValidated == Spec => RepairDiscipline
<1>1. IInv /\ [Next]_vars => [ProgramStep]_vars
  <2> SUFFICES ASSUME IInv, Next PROVE ProgramStep
    OBVIOUS
  <2>1. CASE GenerateMock \/ GenerateOk \/ GenerateFails
    <3>1. pc = "generate" /\ repair_attempts = 0
      BY <2>1 DEF GenerateMock, GenerateOk, GenerateFails, IInv
    <3>2. repair_attempts' = 0
      BY <2>1, <3>1 DEF GenerateMock, GenerateOk, GenerateFails, Plan, Adopt
    <3> QED BY <3>1, <3>2 DEF ProgramStep
  <2>2. CASE RepairOk
    <3>1. PICK answer : Adopt(answer, provider_name, repair_attempts + 1)
      BY <2>2 DEF RepairOk, Repaired
    <3>2. pc = "repair" /\ ~IsValid(issues) /\ provider_name \notin PlanNames
      BY <2>2 DEF RepairOk, IInv, TypeOK, VerdictInv
    <3> QED BY <3>1, <3>2 DEF Adopt, ProgramStep
  <2>3. CASE RepairFails
    BY <2>3 DEF RepairFails, ProgramStep
  <2>4. CASE AppendNotes
    <3>1. PICK notes, claims : program' = [program EXCEPT !.notes = notes, !.claims = claims]
      BY <2>4 DEF AppendNotes
    <3>2. program \in Program /\ UNCHANGED repair_attempts
      BY <2>4 DEF AppendNotes, IInv
    <3>3. program'.vehicle_id = program.vehicle_id /\ program'.steps = program.steps
      BY <3>1, <3>2 DEF Program
    <3> QED BY <3>2, <3>3 DEF Checked, ProgramStep
  <2>5. CASE ApplyDurations
    <3>1. pc = "durations" /\ UNCHANGED repair_attempts
      BY <2>5 DEF ApplyDurations
    <3>2. CASE program' = program
      BY <3>1, <3>2 DEF ProgramStep
    <3>3. CASE program' # program
      <4>1. Checked(program') = Checked(program)
        BY <2>5, <3>1, <3>3, DurationsAlike, AlikeChecked DEF IInv
      <4> QED BY <3>1, <4>1 DEF ProgramStep
    <3> QED BY <3>2, <3>3
  <2>6. CASE Schedule \/ Export
    BY <2>6 DEF Schedule, Export, ProgramStep
  <2> QED BY <2>1, <2>2, <2>3, <2>4, <2>5, <2>6 DEF Next, Serve
<1> QED BY <1>1, Inductive, PTL DEF Spec, RepairDiscipline

-----------------------------------------------------------------------------
(* What is delivered runs                                                  *)

\* What is exported is the program in the answer.  And until something is added
\* to its notes, by the fallback, a round of repair or a duration model, the
\* program fits the schema as it did when it was adopted.
DeliveryInv ==
  /\ export.result \in {"otx", "csv"} =>
       export.steps = Document(export.result, program.steps)
  /\ pc \notin {"generate", "failed"} =>
       \/ SchemaValid(program)
       \/ provider_name = "mock-fallback"
       \/ repair_attempts > 0
       \/ pc \in {"schedule", "answered"} /\ call.model_file # "absent"
  /\ export.result = "unprocessable" => pc = "answered" /\ ~SchemaValid(program)

\* Steps without an issue leave no room for one in the loop, ...
LEMMA ValidHasNoStepIssues ==
  ASSUME NEW spec, NEW prog, IsValid(ValidateProgram(spec, prog))
  PROVE  StepIssues(spec, prog.steps, {}, {}) = {}
<1>1. ErrorFree(spec, prog.steps)
  BY ValidMeans
<1>2. IsValid(StepIssues(spec, prog.steps, {}, {}))
  BY <1>1, LoopErrors
<1> QED BY <1>2, LoopErrors DEF IsValid

\* ... and so a valid program runs on a new vehicle.
LEMMA ValidProgramRuns ==
  ASSUME NEW spec, NEW prog \in Program, IsValid(ValidateProgram(spec, prog))
  PROVE  BenchRuns(spec, prog.steps)
<1>1. prog.steps \in Seq(Step)
  BY DEF Program
<1>2. FreshBench = StateAfter(FreshBench, prog.steps, 0)
  BY BenchAtStart DEF FreshBench
<1>3. {} \subseteq FreshBench.unlocked /\ {} \subseteq FreshBench.done
  OBVIOUS
<1>4. BenchAfter(spec, FreshBench, prog.steps)
        = StateAfter(FreshBench, prog.steps, Len(prog.steps))
  BY <1>1, <1>2, <1>3, ValidHasNoStepIssues, ValidatedStepsRun
<1> QED BY <1>4 DEF BenchRuns, StateAfter

\* Sorting what is in the order of its numbers changes nothing.
LEMMA SortedStays ==
  ASSUME NEW steps \in Seq(Step), Ascending(steps)
  PROVE  ByOrder(steps) = steps
<1> DEFINE Before(i, j) == \/ steps[i].order < steps[j].order
                           \/ steps[i].order = steps[j].order /\ i < j
           Rank(i) == Cardinality({j \in DOMAIN steps : Before(j, i)}) + 1
<1>1. DOMAIN steps = 1 .. Len(steps) /\ Len(steps) \in Nat
  OBVIOUS
<1>2. \A i \in DOMAIN steps : steps[i].order \in Int
  <2>1. \A i \in DOMAIN steps : steps[i] \in Step
    OBVIOUS
  <2> QED BY <2>1 DEF Step
<1>3. \A i, j \in DOMAIN steps : Before(j, i) <=> j < i
  <2> SUFFICES ASSUME NEW i \in DOMAIN steps, NEW j \in DOMAIN steps
               PROVE  Before(j, i) <=> j < i
    OBVIOUS
  <2>1. CASE i < j
    BY <1>1, <1>2, <2>1 DEF Ascending
  <2>2. CASE j < i
    BY <1>1, <1>2, <2>2 DEF Ascending
  <2>3. CASE i = j
    BY <1>1, <1>2, <2>3
  <2> QED BY <1>1, <2>1, <2>2, <2>3
<1>4. ASSUME NEW i \in DOMAIN steps PROVE Rank(i) = i
  <2>1. {j \in DOMAIN steps : Before(j, i)} = 1 .. (i - 1)
    BY <1>1, <1>3
  <2>2. i \in Int /\ i >= 1
    BY <1>1
  <2>3. Cardinality(1 .. (i - 1)) = i - 1
    BY <2>2, FS_Interval
  <2>4. Cardinality({j \in DOMAIN steps : Before(j, i)}) = i - 1
    BY ONLY <2>1, <2>3
  <2> HIDE DEF Before
  <2> QED BY <2>2, <2>4
<1>5. ByOrder(steps) = [n \in DOMAIN steps |-> steps[CHOOSE i \in DOMAIN steps : Rank(i) = n]]
  BY DEF ByOrder
<1> HIDE DEF Rank
<1>6. \A n \in DOMAIN steps : (CHOOSE i \in DOMAIN steps : Rank(i) = n) = n
  BY <1>4
<1>7. ByOrder(steps) = [n \in DOMAIN steps |-> steps[n]]
  BY <1>5, <1>6
<1> QED BY <1>7

\* Nothing is added to the notes that would not be owned up to.
LEMMA DeliveryStep ==
  ASSUME IInv, DeliveryInv, [Next]_vars
  PROVE  DeliveryInv'
<1>1. export.result # "none" => pc = "answered"
  BY DEF IInv, ExportInv
<1>2. ASSUME NEW new, NEW by, NEW attempts, Adopt(new, by, attempts), SchemaValid(new),
             pc # "answered", UNCHANGED export
      PROVE  DeliveryInv'
  BY <1>1, <1>2 DEF Adopt, DeliveryInv, SchemaValid
<1>3. ASSUME NEW by, Plan(by), pc = "generate", UNCHANGED export
      PROVE  DeliveryInv'
  <2>1. CASE SchemaValid(MockPlan(call.spec))
    BY <1>2, <1>3, <2>1 DEF Plan
  <2>2. CASE ~SchemaValid(MockPlan(call.spec))
    BY <1>1, <1>3, <2>2 DEF Plan, DeliveryInv
  <2> QED BY <2>1, <2>2
<1>4. CASE GenerateMock \/ GenerateFails
  BY <1>3, <1>4 DEF GenerateMock, GenerateFails
<1>5. CASE GenerateOk
  BY <1>2, <1>5 DEF GenerateOk
<1>6. CASE RepairOk
  BY <1>2, <1>6 DEF RepairOk, Repaired
<1>7. CASE RepairFails
  BY <1>1, <1>7 DEF RepairFails, DeliveryInv, SchemaValid, IInv, TypeOK
<1>8. CASE AppendNotes
  <2>1. /\ pc = "notes" /\ pc' = "durations" /\ export.result = "none"
        /\ UNCHANGED <<call, provider_name, repair_attempts, export>>
    BY <1>1, <1>8 DEF AppendNotes
  <2>2. CASE provider_name = "mock-fallback" \/ repair_attempts > 0
    BY <2>1, <2>2 DEF DeliveryInv
  <2>3. CASE provider_name # "mock-fallback" /\ ~(repair_attempts > 0)
    <3>1. program \in Program /\ SchemaValid(program)
      BY <2>1, <2>3 DEF IInv, DeliveryInv
    <3>2. program' = [program EXCEPT !.notes = Join(Join(program.notes, 0), 0),
                                     !.claims = program.claims \/ failure.claims]
      BY <1>8, <2>3 DEF AppendNotes
    <3>3. Join(Join(program.notes, 0), 0) = program.notes
      BY DEF Join
    <3>4. program'.notes = program.notes /\ program'.steps = program.steps
      BY <3>1, <3>2, <3>3 DEF Program
    <3> QED BY <2>1, <3>1, <3>4 DEF DeliveryInv, SchemaValid
  <2> QED BY <2>2, <2>3
<1>9. CASE ApplyDurations
  BY <1>1, <1>9 DEF ApplyDurations, DeliveryInv, SchemaValid
<1>10. CASE Schedule
  BY <1>1, <1>10 DEF Schedule, DeliveryInv, SchemaValid
<1>11. CASE Export
  <2>1. pc = "answered" /\ UNCHANGED <<call, pc, program, provider_name, repair_attempts>>
    BY <1>11 DEF Export
  <2>2. PICK format \in {"otx", "csv"} :
          export' =
            CASE ~SchemaValid(program) -> [result |-> "unprocessable", steps |-> <<>>]
              [] SchemaValid(program) /\ ~Gate -> [result |-> "refused", steps |-> <<>>]
              [] OTHER -> [result |-> format, steps |-> Document(format, program.steps)]
    BY <1>11 DEF Export
  <2>3. \/ export' = [result |-> "unprocessable", steps |-> <<>>] /\ ~SchemaValid(program)
        \/ export' = [result |-> "refused", steps |-> <<>>]
        \/ export' = [result |-> format, steps |-> Document(format, program.steps)]
    BY <2>2
  <2>4. SchemaValid(program)' <=> SchemaValid(program)
    BY <2>1 DEF SchemaValid
  <2>5. \A f : Document(f, program.steps)' = Document(f, program.steps)
    BY <2>1 DEF Document, ByOrder
  <2> QED BY <2>1, <2>3, <2>4, <2>5 DEF DeliveryInv
<1>12. CASE UNCHANGED vars
  BY <1>12 DEF vars, DeliveryInv, SchemaValid, Document, ByOrder
<1> QED BY <1>4, <1>5, <1>6, <1>7, <1>8, <1>9, <1>10, <1>11, <1>12 DEF Next, Serve

\* An answer called valid, an exported sequence, and work instructions for steps
\* listed in the order of their numbers are carried out to the end by a bench that
\* stops at the first step it cannot do; and only what the pipeline itself has
\* appended makes an answer too long to be exported (validator.py:66-104,
\* main.py:293-336).
THEOREM DeliveredRun == Spec => []DeliveredProgramsRun
<1>1. Init => DeliveryInv
  BY DEF Init, DeliveryInv
<1>2. IInv /\ DeliveryInv => DeliveredProgramsRun
  <2> SUFFICES ASSUME IInv, DeliveryInv PROVE DeliveredProgramsRun
    OBVIOUS
  <2>1. ASSUME pc = "answered", Gate
        PROVE  program \in Program /\ BenchRuns(call.spec, program.steps)
    BY <2>1, ValidProgramRuns DEF IInv, Gate
  <2>2. ASSUME pc = "answered", IsValid(issues)
        PROVE  BenchRuns(call.spec, program.steps)
    BY <2>1, <2>2 DEF IInv, VerdictInv, VerdictStillHolds, Gate
  <2>3. ASSUME export.result = "otx"
        PROVE  BenchRuns(call.spec, export.steps)
    <3>1. export.steps = program.steps /\ pc = "answered" /\ Gate
      BY <2>3 DEF DeliveryInv, Document, IInv, ExportInv
    <3> QED BY <2>1, <3>1
  <2>4. ASSUME export.result = "csv", Ascending(program.steps)
        PROVE  BenchRuns(call.spec, export.steps)
    <3>1. export.steps = ByOrder(program.steps) /\ pc = "answered" /\ Gate
      BY <2>4 DEF DeliveryInv, Document, IInv, ExportInv
    <3>2. program.steps \in Seq(Step)
      BY <2>1, <3>1 DEF Program
    <3> QED BY <2>1, <2>4, <3>1, <3>2, SortedStays
  <2>5. ASSUME export.result = "unprocessable"
        PROVE  \/ provider_name = "mock-fallback"
               \/ repair_attempts > 0
               \/ call.model_file # "absent"
    BY <2>5 DEF DeliveryInv
  <2> QED BY <2>2, <2>3, <2>4, <2>5 DEF DeliveredProgramsRun
<1>3. IInv /\ DeliveryInv /\ [Next]_vars => DeliveryInv'
  BY DeliveryStep
<1> QED BY <1>1, <1>2, <1>3, Inductive, PTL DEF Spec

-----------------------------------------------------------------------------
(* The analytics agree                                                     *)

\* Every ECU of the vehicle has a step of its own.
AllTouched(spec, steps) ==
  \A ecu \in Range(spec.ecus) : \E step \in Range(steps) : step.ecu_id = ecu.ecu_id

\* The findings know whether an ECU has been forgotten, as long as they are about a
\* program that does anything.
CoverageInv ==
  pc \notin {"generate", "failed"} /\ program.steps # <<>> =>
    ((\A issue \in issues : issue.about # "uncommissioned")
       <=> AllTouched(call.spec, program.steps))

\* That is how the validator finds it out.
LEMMA UncommissionedMeans ==
  ASSUME NEW spec, NEW prog \in Program, prog.steps # <<>>
  PROVE  (\A issue \in ValidateProgram(spec, prog) : issue.about # "uncommissioned")
           <=> AllTouched(spec, prog.steps)
<1> DEFINE steps == prog.steps
           done == {s.ecu_id : s \in {t \in Range(steps) : t.step_type \in StepTypes}}
           untouched == {ecu \in Range(spec.ecus) : ecu.ecu_id \notin done}
           flashed == {s.ecu_id : s \in {t \in Range(steps) : t.step_type \in {"flash_software"}}}
           unflashed == {ecu \in Range(spec.ecus) : NeedsFlash(ecu) /\ ecu.ecu_id \notin flashed}
           absent == {type \in {"fault_clear", "validation"} :
                        \A s \in Range(steps) : s.step_type # type}
           missing == {Issue("warning", "uncommissioned", <<>>, ecu.ecu_id) : ecu \in untouched}
           others == {Issue("warning", "never_flashed", <<>>, ecu.ecu_id) : ecu \in unflashed}
                       \cup {Issue("warning", type, <<>>, NoEcu) : type \in absent}
<1>1. CoverageIssues(spec, steps) = missing \cup others
  BY DEF CoverageIssues
<1>2. \A severity, about, orders, id : Issue(severity, about, orders, id).about = about
  BY DEF Issue
<1>3. \A issue \in others : issue.about # "uncommissioned"
  BY <1>2
<1>4. (\A issue \in missing : issue.about # "uncommissioned") <=> untouched = {}
  <2> HIDE DEF untouched
  <2> QED BY <1>2
<1>5. untouched = {} <=> AllTouched(spec, steps)
  <2>1. \A s \in Range(steps) : s.step_type \in StepTypes
    <3>1. steps \in Seq(Step)
      BY DEF Program
    <3>2. \A i \in DOMAIN steps : steps[i] \in Step
      BY <3>1
    <3> QED BY <3>2 DEF Range, Step
  <2>2. \A id : id \in done <=> \E s \in Range(steps) : s.ecu_id = id
    BY <2>1
  <2> HIDE DEF done, steps
  <2> QED BY <2>2 DEF AllTouched
<1> HIDE DEF missing, others, untouched
<1>6. \A issue \in StepIssues(spec, steps, {}, {}) : issue.about # "uncommissioned"
  <2>1. \A i, unlocked, seen : "uncommissioned" \notin StepErrors(spec, steps[i], unlocked, seen)
    BY DEF StepErrors
  <2>2. ASSUME NEW issue \in StepIssues(spec, steps, {}, {})
        PROVE  issue.about # "uncommissioned"
    <3>1. PICK i \in DOMAIN steps :
             issue \in {Issue("error", about, <<steps[i].order>>, steps[i].ecu_id) :
                          about \in StepErrors(spec, steps[i], UnlockedAt(spec, steps, i, {}),
                                              SeenBefore(steps, i, {}))}
      BY DEF StepIssues
    <3>2. PICK about : /\ about \in StepErrors(spec, steps[i], UnlockedAt(spec, steps, i, {}),
                                               SeenBefore(steps, i, {}))
                       /\ issue = Issue("error", about, <<steps[i].order>>, steps[i].ecu_id)
      BY <3>1
    <3>3. about # "uncommissioned"
      BY <2>1, <3>2
    <3> QED BY <1>2, <3>2, <3>3
  <2> QED BY <2>2
<1>7. \A issue \in NotesIssues(prog.claims) : issue.about # "uncommissioned"
  BY <1>2 DEF NotesIssues
<1> DEFINE vehicle == IF prog.vehicle_id = spec.vehicle_id THEN {}
                      ELSE {Issue("error", "other_vehicle", <<>>, NoEcu)}
           gaps == IF Contiguous(steps) THEN {}
                   ELSE {Issue("warning", "not_contiguous", <<>>, NoEcu)}
<1>8. \A issue \in vehicle \cup gaps : issue.about # "uncommissioned"
  BY <1>2
<1>9. ValidateProgram(spec, prog) =
        vehicle \cup (gaps \cup StepIssues(spec, steps, {}, {})
          \cup CoverageIssues(spec, steps) \cup NotesIssues(prog.claims))
  BY DEF ValidateProgram
<1> HIDE DEF vehicle, gaps, steps
<1>10. (\A issue \in ValidateProgram(spec, prog) : issue.about # "uncommissioned")
         <=> \A issue \in missing : issue.about # "uncommissioned"
  BY <1>1, <1>3, <1>6, <1>7, <1>8, <1>9
<1> QED BY <1>4, <1>5, <1>10 DEF steps

\* What is said of the coverage outlives the new notes and durations, and the
\* finding that a program cannot be scheduled says nothing of it.
LEMMA CoverageStep ==
  ASSUME IInv, CoverageInv, [Next]_vars
  PROVE  CoverageInv'
<1>1. ASSUME NEW new \in Program, NEW by, NEW attempts, Adopt(new, by, attempts), UNCHANGED call
      PROVE  CoverageInv'
  BY <1>1, UncommissionedMeans DEF Adopt, CoverageInv
<1>2. ASSUME NEW by, Plan(by), pc = "generate", UNCHANGED call
      PROVE  CoverageInv'
  <2>1. CASE SchemaValid(MockPlan(call.spec))
    <3>1. MockPlan(call.spec) \in Program
      BY PlanIsProgram, PipelineAssumption DEF IInv
    <3> QED BY <1>1, <1>2, <2>1, <3>1 DEF Plan
  <2>2. CASE ~SchemaValid(MockPlan(call.spec))
    BY <1>2, <2>2 DEF Plan, CoverageInv
  <2> QED BY <2>1, <2>2
<1>3. CASE GenerateMock \/ GenerateFails
  BY <1>2, <1>3 DEF GenerateMock, GenerateFails
<1>4. CASE GenerateOk
  <2>1. PICK answer \in Answers[0] : Adopt(answer, call.provider, 0)
    BY <1>4 DEF GenerateOk
  <2>2. 0 \in 0 .. MaxRepairAttempts
    BY Constants
  <2>3. answer \in Program
    BY <2>2, Constants
  <2> QED BY <1>1, <1>4, <2>1, <2>3 DEF GenerateOk
<1>5. CASE RepairOk
  <2>1. PICK answer \in Answers[repair_attempts + 1] : Repaired(answer)
    BY <1>5 DEF RepairOk
  <2>2. repair_attempts + 1 \in 0 .. MaxRepairAttempts
    BY <1>5, Constants DEF RepairOk, IInv, TypeOK
  <2>3. answer \in Program
    BY <2>2, Constants
  <2> QED BY <1>1, <1>5, <2>1, <2>3 DEF RepairOk, Repaired
<1>6. CASE RepairFails
  BY <1>6 DEF RepairFails, CoverageInv
<1>7. CASE AppendNotes
  <2>1. PICK notes, claims : program' = [program EXCEPT !.notes = notes, !.claims = claims]
    BY <1>7 DEF AppendNotes
  <2>2. program \in Program
    BY <1>7 DEF AppendNotes, IInv
  <2>3. program'.steps = program.steps
    BY <2>1, <2>2 DEF Program
  <2> QED BY <1>7, <2>3 DEF AppendNotes, CoverageInv
<1>8. CASE ApplyDurations
  <2>1. pc = "durations" /\ UNCHANGED <<call, issues>>
    BY <1>8 DEF ApplyDurations
  <2>2. CASE pc' = "failed"
    BY <2>2 DEF CoverageInv
  <2>3. CASE pc' # "failed"
    <3>1. program \in Program /\ program' \in Program /\ Alike(program.steps, program'.steps)
      BY <1>8, <2>1, DurationsAlike DEF IInv
    <3>2. /\ program.steps \in Seq(Step) /\ program'.steps \in Seq(Step)
          /\ Len(program'.steps) = Len(program.steps)
          /\ \A i \in 1 .. Len(program.steps) : program'.steps[i].ecu_id = program.steps[i].ecu_id
      BY <3>1 DEF Program, Alike
    <3>3. program'.steps # <<>> <=> program.steps # <<>>
      BY <3>2
    <3>4. ASSUME NEW id
          PROVE  (\E step \in Range(program'.steps) : step.ecu_id = id)
                   <=> \E step \in Range(program.steps) : step.ecu_id = id
      BY <3>2 DEF Range
    <3>5. AllTouched(call.spec, program'.steps) <=> AllTouched(call.spec, program.steps)
      BY <3>4 DEF AllTouched
    <3> QED BY <2>1, <3>3, <3>5 DEF CoverageInv
  <2> QED BY <2>2, <2>3
<1>9. CASE Schedule
  <2>1. Unschedulable.about # "uncommissioned"
    BY DEF Unschedulable, Issue
  <2> QED BY <1>9, <2>1 DEF Schedule, CoverageInv
<1>10. CASE Export
  BY <1>10 DEF Export, CoverageInv
<1>11. CASE UNCHANGED vars
  BY <1>11 DEF vars, CoverageInv
<1> QED BY <1>3, <1>4, <1>5, <1>6, <1>7, <1>8, <1>9, <1>10, <1>11 DEF Next, Serve

\* The analytics of an answer (analyse_program) agree with what validator and
\* scheduler say of the same program: about the ECUs it covers, about the types of
\* its steps, and about the steps that can start at once.
THEOREM AnalyticsRight == Spec => []AnalyticsAgree
<1>1. Init => CoverageInv
  BY DEF Init, CoverageInv
<1>2. IInv /\ CoverageInv /\ [Next]_vars => CoverageInv'
  BY CoverageStep
<1>3. IInv /\ CoverageInv => AnalyticsAgree
  <2> SUFFICES ASSUME IInv, CoverageInv, pc = "answered" PROVE AnalyticsAgree
    BY DEF AnalyticsAgree
  <2> DEFINE steps == program.steps
             types == {step.step_type : step \in Range(steps)}
             by_type == [t \in types |-> Cardinality({i \in DOMAIN steps : steps[i].step_type = t})]
             analytics == AnalyseProgram(call.spec, program)
  <2>1. /\ analytics.ecus_covered = Cardinality(Covered(call.spec, steps))
        /\ analytics.ecus_total = Len(call.spec.ecus)
        /\ analytics.total_steps = Len(steps)
        /\ analytics.steps_by_type = by_type
    BY DEF AnalyseProgram
  <2>2. steps \in Seq(Step) /\ call.spec.ecus \in Seq(Ecu)
    BY PipelineAssumption DEF IInv, Program, VehicleSpec
  <2>3. Timed(steps)
    <3>1. \A i \in DOMAIN steps : steps[i] \in Step
      BY <2>2
    <3> QED BY <3>1 DEF Timed, Step
  <2>4. MapThenSumSet(LAMBDA t : by_type[t], DOMAIN by_type) = Len(steps)
    BY <2>2, TypesAddUp
  <2>5. /\ Cardinality(Covered(call.spec, steps)) <= Len(call.spec.ecus)
        /\ UniqueEcus(call.spec) =>
             (Cardinality(Covered(call.spec, steps)) = Len(call.spec.ecus)
                <=> AllTouched(call.spec, steps))
    <3> DEFINE spec == call.spec
    <3>1. spec.ecus \in Seq(Ecu)
      BY <2>2
    <3> HIDE DEF spec, steps
    <3>2. /\ Cardinality(Covered(spec, steps)) <= Len(spec.ecus)
          /\ (\A i, j \in DOMAIN spec.ecus : spec.ecus[i].ecu_id = spec.ecus[j].ecu_id => i = j)
               => (Cardinality(Covered(spec, steps)) = Len(spec.ecus)
                     <=> \A ecu \in Range(spec.ecus) :
                           \E step \in Range(steps) : step.ecu_id = ecu.ecu_id)
      <4>1. steps \in Seq(Step)
        BY <2>2 DEF steps
      <4> QED BY ONLY <3>1, <4>1, CoveredCounts
    <3>3. /\ Cardinality(Covered(spec, steps)) <= Len(spec.ecus)
          /\ UniqueEcus(spec) => (Cardinality(Covered(spec, steps)) = Len(spec.ecus)
                                    <=> AllTouched(spec, steps))
      BY ONLY <3>2 DEF UniqueEcus, AllTouched
    <3> QED BY <3>3 DEF spec
  <2>6. steps # <<>> => ((\A issue \in issues : issue.about # "uncommissioned")
                           <=> AllTouched(call.spec, steps))
    BY DEF CoverageInv
  <2>7. ASSUME Schedulable(steps), NEW i \in Parallelisable(steps)
        PROVE  Optimization.ends[steps[i].order] = steps[i].estimated_seconds
    BY <2>2, <2>3, <2>7, FreeStepsStartAtOnce DEF Optimization
  <2> HIDE DEF analytics, by_type
  <2>8. MapThenSumSet(LAMBDA t : analytics.steps_by_type[t], DOMAIN analytics.steps_by_type)
          = analytics.total_steps
    BY <2>1, <2>4
  <2> QED BY <2>1, <2>5, <2>6, <2>7, <2>8 DEF AnalyticsAgree, analytics
<1> QED BY <1>1, <1>2, <1>3, Inductive, PTL DEF Spec

-----------------------------------------------------------------------------
(* The plans are valid                                                     *)

\* With no id repeated, ecu_by_id finds each ECU.
LEMMA EcuFound ==
  ASSUME NEW spec, spec.ecus \in Seq(Ecu), UniqueEcus(spec), NEW e \in DOMAIN spec.ecus
  PROVE  /\ EcuOf(spec, spec.ecus[e].ecu_id) = spec.ecus[e]
         /\ spec.ecus[e].ecu_id \in EcuIds(spec)
<1> DEFINE IsLast(i) == /\ spec.ecus[i].ecu_id = spec.ecus[e].ecu_id
                        /\ \A j \in DOMAIN spec.ecus :
                             spec.ecus[j].ecu_id = spec.ecus[e].ecu_id => j <= i
<1>1. e \in Nat /\ \A i \in DOMAIN spec.ecus : spec.ecus[i].ecu_id = spec.ecus[e].ecu_id => i = e
  BY DEF UniqueEcus
<1>2. IsLast(e) /\ \A i \in DOMAIN spec.ecus : IsLast(i) => i = e
  BY <1>1
<1>3. EcuOf(spec, spec.ecus[e].ecu_id) = spec.ecus[CHOOSE i \in DOMAIN spec.ecus : IsLast(i)]
  BY DEF EcuOf
<1> HIDE DEF IsLast
<1>4. (CHOOSE i \in DOMAIN spec.ecus : IsLast(i)) = e
  BY <1>2
<1> QED BY <1>3, <1>4 DEF EcuIds, Range

\* The validator has nothing to say against a list that keeps the rules of a plan.
LEMMA RulesErrorFree ==
  ASSUME NEW spec, spec.ecus \in Seq(Ecu), UniqueEcus(spec),
         NEW s \in Seq(Step), NEW n \in Nat, PlanRules(spec.ecus, s, n)
  PROVE  ErrorFree(spec, s)
<1>1. /\ DOMAIN s = 1 .. n + 2
      /\ \A k \in 1 .. n + 2 : /\ s[k].order = k
                               /\ Fits(spec.ecus, s[k])
                               /\ Range(s[k].depends_on) \subseteq 1 .. (k - 1)
  BY DEF PlanRules
<1> SUFFICES ASSUME NEW k \in 1 .. n + 2
             PROVE  StepErrors(spec, s[k], UnlockedAt(spec, s, k, {}), SeenBefore(s, k, {})) = {}
  BY <1>1 DEF ErrorFree
<1>2. PICK e \in DOMAIN spec.ecus : /\ s[k].ecu_id = spec.ecus[e].ecu_id
                                    /\ s[k].uds_service \in {NoService} \cup spec.ecus[e].supported
  BY <1>1 DEF Fits
<1>3. EcuOf(spec, s[k].ecu_id) = spec.ecus[e] /\ Known(spec, s[k])
  BY <1>2, EcuFound DEF Known
<1>4. ~Unsupported(spec, s[k])
  BY <1>2, <1>3 DEF Unsupported
<1>5. Range(s[k].depends_on) \subseteq SeenBefore(s, k, {})
  <2>1. \A j \in 1 .. (k - 1) : s[j].order = j
    BY <1>1
  <2>2. SeenBefore(s, k, {}) = {s[j].order : j \in 1 .. (k - 1)}
    BY DEF SeenBefore
  <2> QED BY <1>1, <2>1, <2>2
<1>6. ~Locked(spec, s[k], UnlockedAt(spec, s, k, {}))
  <2> SUFFICES ASSUME s[k].step_type \in Gated, "0x27" \in spec.ecus[e].supported
               PROVE  s[k].ecu_id \in UnlockedAt(spec, s, k, {})
    BY <1>3 DEF Locked
  <2>1. k \in 1 .. n
    <3>1. k # n + 1 /\ k # n + 2
      BY DEF PlanRules, Gated
    <3> QED BY <3>1
  <2>2. PICK j \in 1 .. n : /\ j < k /\ s[j].step_type = "security_access"
                            /\ s[j].ecu_id = s[k].ecu_id
    BY <1>2, <2>1 DEF PlanRules
  <2>3. j \in 1 .. k /\ Known(spec, s[j])
    BY <1>3, <2>2 DEF Known
  <2> QED BY <2>2, <2>3 DEF UnlockedAt
<1> QED BY <1>3, <1>4, <1>5, <1>6 DEF StepErrors

\* The rules do not speak of durations.
LEMMA AlikeRules ==
  ASSUME NEW ecus, NEW s, NEW t, NEW n \in Nat, Alike(s, t), PlanRules(ecus, t, n)
  PROVE  PlanRules(ecus, s, n)
<1>1. Len(s) = n + 2 /\ Len(t) = n + 2
  BY DEF Alike, PlanRules
<1>2. \A k \in 1 .. n + 2 : /\ s[k].order = t[k].order /\ s[k].step_type = t[k].step_type
                            /\ s[k].ecu_id = t[k].ecu_id /\ s[k].uds_service = t[k].uds_service
                            /\ s[k].depends_on = t[k].depends_on
  BY <1>1 DEF Alike
<1>3. \A k \in 1 .. n + 2 : Fits(ecus, t[k]) => Fits(ecus, s[k])
  BY <1>2 DEF Fits
<1>4. \A j, k \in 1 .. n : Chain(t, j, k) => Chain(s, j, k)
  <2> SUFFICES ASSUME NEW j \in 1 .. n, NEW k \in 1 .. n, Chain(t, j, k),
                      NEW q \in (j + 1) .. k
               PROVE  (q - 1) \in Range(s[q].depends_on)
    BY DEF Chain
  <2>1. q \in 1 .. n + 2
    OBVIOUS
  <2> QED BY <1>2, <2>1 DEF Chain
<1>5. \A k \in 1 .. n : k \in 1 .. n + 2
  OBVIOUS
<1>6. n + 1 \in 1 .. n + 2 /\ n + 2 \in 1 .. n + 2
  OBVIOUS
<1>7. \A k \in 1 .. n + 2 : /\ s[k].order = k
                            /\ Fits(ecus, s[k])
                            /\ Range(s[k].depends_on) \subseteq 1 .. (k - 1)
  BY <1>2, <1>3 DEF PlanRules
<1>8. /\ \A k \in 1 .. n : s[k].step_type # "fault_clear"
      /\ s[n + 1].step_type = "fault_clear" /\ s[n + 2].step_type = "validation"
      /\ Range(s[n + 1].depends_on) = 1 .. n /\ Range(s[n + 2].depends_on) = {n + 1}
  BY <1>2, <1>5, <1>6 DEF PlanRules
<1>9. \A k \in 1 .. n : s[k].step_type \in Gated =>
        \A e \in DOMAIN ecus : ecus[e].ecu_id = s[k].ecu_id /\ "0x27" \in ecus[e].supported =>
          \E j \in 1 .. n : /\ j < k /\ Chain(s, j, k)
                            /\ s[j].step_type = "security_access" /\ s[j].ecu_id = s[k].ecu_id
  <2> SUFFICES ASSUME NEW k \in 1 .. n, s[k].step_type \in Gated,
                      NEW e \in DOMAIN ecus, ecus[e].ecu_id = s[k].ecu_id,
                      "0x27" \in ecus[e].supported
               PROVE  \E j \in 1 .. n :
                        /\ j < k /\ Chain(s, j, k)
                        /\ s[j].step_type = "security_access" /\ s[j].ecu_id = s[k].ecu_id
    OBVIOUS
  <2>1. t[k].step_type \in Gated /\ ecus[e].ecu_id = t[k].ecu_id
    BY <1>2, <1>5
  <2>2. PICK j \in 1 .. n : /\ j < k /\ Chain(t, j, k)
                            /\ t[j].step_type = "security_access" /\ t[j].ecu_id = t[k].ecu_id
    BY <2>1 DEF PlanRules
  <2> QED BY <1>2, <1>4, <1>5, <2>2
<1>10. \A j, k \in 1 .. n :
         /\ s[j].ecu_id = s[k].ecu_id
         /\ \/ s[j].step_type = "flash_software" /\ s[k].step_type = "write_parameter"
            \/ s[j].step_type \in Gated /\ s[k].step_type = "validation"
         => j < k /\ Chain(s, j, k)
  BY <1>2, <1>4, <1>5 DEF PlanRules
<1> QED BY <1>1, <1>7, <1>8, <1>9, <1>10 DEF PlanRules

\* An ECU with something to plan for makes the plan longer than nothing.
LEMMA PlannableHasBody ==
  ASSUME NEW spec, spec.ecus \in Seq(Ecu), Plannable(spec)
  PROVE  PlanBody(spec.ecus) # <<>>
<1>1. PICK ecu \in Range(spec.ecus) :
        \/ {"0x10", "0x2E"} \cap ecu.supported # {}
        \/ NeedsFlash(ecu) /\ {"0x27", "0x34", "0x36"} \cap ecu.supported # {}
  BY DEF Plannable
<1>2. PICK e \in DOMAIN spec.ecus : ecu = spec.ecus[e]
  BY DEF Range
<1>3. \E type \in PlanTypes : Wanted(ecu, type)
  <2>1. CASE "0x10" \in ecu.supported
    BY <2>1 DEF Wanted, PlanTypes
  <2>2. CASE "0x2E" \in ecu.supported
    BY <2>2 DEF Wanted, PlanTypes
  <2>3. CASE NeedsFlash(ecu) /\ "0x27" \in ecu.supported
    BY <2>3 DEF Wanted, PlanTypes
  <2>4. CASE NeedsFlash(ecu) /\ {"0x34", "0x36"} \cap ecu.supported # {}
    BY <2>4 DEF Wanted, PlanTypes
  <2> QED BY <1>1, <2>1, <2>2, <2>3, <2>4
<1>4. PICK i \in 1 .. Len(Planned(ecu)) : TRUE
  BY <1>3, PlannedMeans
<1>5. PlannedBefore(spec.ecus, e) + i \in 1 .. Len(PlanBody(spec.ecus))
  BY <1>2, <1>4, BodyMeans
<1> QED BY <1>5

-----------------------------------------------------------------------------
(* Their schedules are safe                                                *)

\* Nothing starts before what it waits for has ended.
LEMMA PlanTimes ==
  ASSUME NEW ecus, NEW s \in Seq(Step), NEW n \in Nat, PlanRules(ecus, s, n), Schedulable(s),
         NEW end, end = EarliestEnd(s)
  PROVE  \A k \in 1 .. n + 2 :
           /\ end[k] \in Nat /\ s[k].estimated_seconds \in Nat
           /\ \A d \in Range(s[k].depends_on) : end[d] <= end[k] - s[k].estimated_seconds
<1>1. /\ DOMAIN s = 1 .. n + 2 /\ s # <<>>
      /\ \A k \in 1 .. n + 2 : s[k].order = k /\ Range(s[k].depends_on) \subseteq 1 .. (k - 1)
  BY DEF PlanRules
<1>2. DistinctOrders(s) /\ Closed(s) /\ Acyclic(s)
  BY <1>1 DEF Schedulable
<1>3. Timed(s)
  <2>1. \A k \in DOMAIN s : s[k] \in Step
    OBVIOUS
  <2> QED BY <2>1 DEF Timed, Step
<1>4. Topological(s, TopologicalOrder(s))
  BY <1>2, <1>3, SortIsTopological
<1>5. \A o \in Orders(s) :
        /\ end[o] \in Nat
        /\ BestStart(StepAt(s, o), end) \in Nat
        /\ end[o] = BestStart(StepAt(s, o), end) + StepAt(s, o).estimated_seconds
  BY <1>2, <1>3, <1>4, EndsCertified
<1>6. \A k \in 1 .. n + 2 : k \in Orders(s) /\ StepAt(s, k) = s[k]
  <2>1. \A k \in DOMAIN s : s[k].order \in Orders(s) /\ StepAt(s, s[k].order) = s[k]
    BY <1>2, OneStepPerOrder
  <2> QED BY <1>1, <2>1
<1> SUFFICES ASSUME NEW k \in 1 .. n + 2
             PROVE  /\ end[k] \in Nat /\ s[k].estimated_seconds \in Nat
                    /\ \A d \in Range(s[k].depends_on) :
                         end[d] <= end[k] - s[k].estimated_seconds
  OBVIOUS
<1>7. /\ end[k] \in Nat /\ BestStart(s[k], end) \in Nat
      /\ end[k] = BestStart(s[k], end) + s[k].estimated_seconds
  BY <1>5, <1>6
<1>8. s[k].estimated_seconds \in Nat /\ s[k].depends_on \in Seq(Int)
  BY <1>1, <1>3 DEF Timed
<1>9. \A d \in Range(s[k].depends_on) : end[d] \in Nat
  <2>1. \A d \in Range(s[k].depends_on) : d \in 1 .. n + 2
    <3>1. Range(s[k].depends_on) \subseteq 1 .. (k - 1)
      BY <1>1
    <3>2. \A d \in 1 .. (k - 1) : d \in 1 .. n + 2
      OBVIOUS
    <3> QED BY <3>1, <3>2
  <2> QED BY <1>5, <1>6, <2>1
<1>10. \A d \in Range(s[k].depends_on) : end[d] <= BestStart(s[k], end)
  BY ONLY <1>8, <1>9, BestStartLatest
<1> QED BY <1>7, <1>8, <1>9, <1>10

\* Nor does the last of a chain before the first has ended.
LEMMA ChainTimes ==
  ASSUME NEW s, NEW end, NEW j \in Nat, NEW k \in Nat, j < k, Chain(s, j, k),
         \A q \in j .. k : /\ end[q] \in Nat /\ s[q].estimated_seconds \in Nat
                           /\ \A d \in Range(s[q].depends_on) :
                                end[d] <= end[q] - s[q].estimated_seconds
  PROVE  end[j] <= end[k] - s[k].estimated_seconds
<1> DEFINE Good == {q \in j .. k : end[j] <= end[q]}
<1>1. j \in Good
  OBVIOUS
<1>2. \A q \in j .. (k - 1) : q \in Good => q + 1 \in Good
  <2> SUFFICES ASSUME NEW q \in j .. (k - 1), end[j] <= end[q]
               PROVE  q + 1 \in j .. k /\ end[j] <= end[q + 1]
    OBVIOUS
  <2>1. PICK r : r = q + 1
    OBVIOUS
  <2>2. r \in (j + 1) .. k /\ r \in j .. k /\ q \in j .. k /\ r - 1 = q
    BY <2>1
  <2>3. q \in Range(s[r].depends_on)
    BY <2>2 DEF Chain
  <2>4. /\ end[q] <= end[r] - s[r].estimated_seconds
        /\ end[j] \in Nat /\ end[q] \in Nat /\ end[r] \in Nat /\ s[r].estimated_seconds \in Nat
    BY <2>2, <2>3
  <2>5. end[j] <= end[r]
    BY <2>4
  <2> QED BY <2>1, <2>2, <2>5
<1> HIDE DEF Good
<1>3. \A q \in j .. k : q \in Good
  BY ONLY <1>1, <1>2, UpFrom, j \in Nat, k \in Nat
<1>4. PICK p : p = k - 1
  OBVIOUS
<1>5. p \in j .. k /\ k \in (j + 1) .. k /\ k \in j .. k
  BY <1>4
<1>6. end[j] <= end[p]
  BY <1>3, <1>5 DEF Good
<1>7. p \in Range(s[k].depends_on)
  BY <1>4, <1>5 DEF Chain
<1>8. /\ end[p] <= end[k] - s[k].estimated_seconds
      /\ end[j] \in Nat /\ end[p] \in Nat /\ end[k] \in Nat /\ s[k].estimated_seconds \in Nat
  BY <1>5, <1>7
<1> QED BY <1>6, <1>8

\* In the schedule, what is at i ends before what is at j starts.
Precedes(s, end, i, j) == end[s[i].order] <= end[s[j].order] - s[j].estimated_seconds

\* What MockScheduleSafe asks of a schedule: an ECU is unlocked before it is changed,
\* flashed before it is written and changed before it is validated, and the fault
\* memory is cleared between everything else and the final validation.
SafeInParallel(spec, s, end) ==
  /\ \A j \in 1 .. Len(s) :
       s[j].step_type \in Gated /\ "0x27" \in EcuOf(spec, s[j].ecu_id).supported =>
         \E i \in 1 .. Len(s) : /\ s[i].step_type = "security_access"
                                /\ s[i].ecu_id = s[j].ecu_id /\ Precedes(s, end, i, j)
  /\ \A i, j \in 1 .. Len(s) : s[i].ecu_id = s[j].ecu_id =>
       /\ s[i].step_type = "flash_software" /\ s[j].step_type = "write_parameter" =>
            Precedes(s, end, i, j)
       /\ s[i].step_type \in Gated /\ s[j].step_type = "validation" =>
            Precedes(s, end, i, j)
  /\ \A i, j \in 1 .. Len(s) : s[j].step_type = "fault_clear" =>
       /\ i < j => Precedes(s, end, i, j)
       /\ i > j => Precedes(s, end, j, i)

\* So a list that keeps the rules of a plan is safe to run in parallel: the rules
\* of the validator, which follow the list, hold of the clock.
LEMMA RulesSafe ==
  ASSUME NEW spec, spec.ecus \in Seq(Ecu), UniqueEcus(spec),
         NEW s \in Seq(Step), NEW n \in Nat, PlanRules(spec.ecus, s, n), Schedulable(s),
         NEW end, end = EarliestEnd(s)
  PROVE  SafeInParallel(spec, s, end)
<1> DEFINE Timely(k) == /\ end[k] \in Nat /\ s[k].estimated_seconds \in Nat
                        /\ \A d \in Range(s[k].depends_on) :
                             end[d] <= end[k] - s[k].estimated_seconds
<1>1. /\ Len(s) = n + 2
      /\ \A k \in 1 .. n + 2 : s[k].order = k
      /\ \A k \in 1 .. n : s[k].step_type # "fault_clear"
      /\ s[n + 1].step_type = "fault_clear" /\ s[n + 2].step_type = "validation"
      /\ Range(s[n + 1].depends_on) = 1 .. n /\ Range(s[n + 2].depends_on) = {n + 1}
  BY DEF PlanRules
<1>2. \A k \in 1 .. n + 2 : Timely(k)
  BY PlanTimes
<1>3. \A k \in 1 .. n + 2 : k \in 1 .. n \/ k = n + 1 \/ k = n + 2
  OBVIOUS
<1>4. \A i, j \in 1 .. n + 2 :
        Precedes(s, end, i, j) <=> end[i] <= end[j] - s[j].estimated_seconds
  BY <1>1 DEF Precedes
<1>5. ASSUME NEW j \in 1 .. n, NEW k \in 1 .. n, j < k, Chain(s, j, k)
      PROVE  Precedes(s, end, j, k)
  <2>1. \A q \in j .. k : Timely(q)
    <3>1. \A q \in j .. k : q \in 1 .. n + 2
      OBVIOUS
    <3> QED BY ONLY <1>2, <3>1
  <2>2. j \in Nat /\ k \in Nat /\ j \in 1 .. n + 2 /\ k \in 1 .. n + 2
    OBVIOUS
  <2>3. end[j] <= end[k] - s[k].estimated_seconds
    BY ONLY <1>5, <2>1, <2>2, ChainTimes
  <2> QED BY <1>4, <2>2, <2>3
<1>6. ASSUME NEW i \in 1 .. n
      PROVE  Precedes(s, end, i, n + 1) /\ Precedes(s, end, i, n + 2)
  <2>1. PICK c, f : c = n + 1 /\ f = n + 2
    OBVIOUS
  <2>2. i \in 1 .. n + 2 /\ c \in 1 .. n + 2 /\ f \in 1 .. n + 2
    BY <2>1
  <2>3. /\ i \in Range(s[c].depends_on) /\ c \in Range(s[f].depends_on)
    BY <1>1, <2>1
  <2>4. Timely(i) /\ Timely(c) /\ Timely(f)
    BY <1>2, <2>2
  <2>5. /\ end[i] <= end[c] - s[c].estimated_seconds
        /\ end[c] <= end[f] - s[f].estimated_seconds
        /\ end[i] \in Nat /\ end[c] \in Nat /\ end[f] \in Nat
        /\ s[c].estimated_seconds \in Nat /\ s[f].estimated_seconds \in Nat
    BY <2>3, <2>4
  <2>6. end[i] <= end[f] - s[f].estimated_seconds
    <3>1. PICK x, y, z, t, u : /\ x = end[i] /\ y = end[c] /\ z = end[f]
                              /\ t = s[c].estimated_seconds /\ u = s[f].estimated_seconds
      OBVIOUS
    <3>2. /\ x \in Nat /\ y \in Nat /\ z \in Nat /\ t \in Nat /\ u \in Nat
          /\ x <= y - t /\ y <= z - u
      BY ONLY <2>5, <3>1
    <3>3. x <= z - u
      BY ONLY <3>2
    <3> QED BY ONLY <3>1, <3>3
  <2> QED BY <1>4, <2>1, <2>2, <2>5, <2>6
<1>7. Precedes(s, end, n + 1, n + 2)
  <2>1. PICK c, f : c = n + 1 /\ f = n + 2
    OBVIOUS
  <2>2. c \in 1 .. n + 2 /\ f \in 1 .. n + 2 /\ c \in Range(s[f].depends_on)
    BY <1>1, <2>1
  <2>3. end[c] <= end[f] - s[f].estimated_seconds
    BY <1>2, <2>2
  <2> QED BY <1>4, <2>1, <2>2, <2>3
<1> HIDE DEF Timely
<1>8. \A k \in 1 .. n + 2 : s[k].step_type \in Gated => k \in 1 .. n
  BY <1>1, <1>3 DEF Gated
<1>9. ASSUME NEW j \in 1 .. n + 2, s[j].step_type \in Gated,
             "0x27" \in EcuOf(spec, s[j].ecu_id).supported
      PROVE  \E i \in 1 .. n + 2 : /\ s[i].step_type = "security_access"
                                   /\ s[i].ecu_id = s[j].ecu_id /\ Precedes(s, end, i, j)
  <2>1. PICK e \in DOMAIN spec.ecus : s[j].ecu_id = spec.ecus[e].ecu_id
    BY DEF PlanRules, Fits
  <2>2. "0x27" \in spec.ecus[e].supported
    BY <1>9, <2>1, EcuFound
  <2>3. j \in 1 .. n
    BY <1>8, <1>9
  <2>4. PICK i \in 1 .. n : /\ i < j /\ Chain(s, i, j)
                            /\ s[i].step_type = "security_access" /\ s[i].ecu_id = s[j].ecu_id
    BY <1>9, <2>1, <2>2, <2>3 DEF PlanRules
  <2>5. i \in 1 .. n + 2 /\ Precedes(s, end, i, j)
    BY <1>5, <2>3, <2>4
  <2> QED BY <2>4, <2>5
<1>10. ASSUME NEW i \in 1 .. n + 2, NEW j \in 1 .. n + 2, s[i].ecu_id = s[j].ecu_id,
              \/ s[i].step_type = "flash_software" /\ s[j].step_type = "write_parameter"
              \/ s[i].step_type \in Gated /\ s[j].step_type = "validation"
       PROVE  Precedes(s, end, i, j)
  <2>1. i \in 1 .. n
    BY <1>8, <1>10 DEF Gated
  <2>2. CASE j \in 1 .. n
    <3>1. i < j /\ Chain(s, i, j)
      BY <1>10, <2>1, <2>2 DEF PlanRules
    <3> QED BY <1>5, <2>1, <2>2, <3>1
  <2>3. CASE j = n + 1
    BY <1>6, <2>1, <2>3
  <2>4. CASE j = n + 2
    BY <1>6, <2>1, <2>4
  <2> QED BY <1>3, <2>2, <2>3, <2>4
<1>11. ASSUME NEW i \in 1 .. n + 2, NEW j \in 1 .. n + 2, s[j].step_type = "fault_clear"
       PROVE  /\ i < j => Precedes(s, end, i, j)
              /\ i > j => Precedes(s, end, j, i)
  <2>1. j = n + 1
    BY <1>1, <1>3, <1>11
  <2>2. i < j => i \in 1 .. n
    BY <2>1
  <2>3. i > j => i = n + 2
    BY <2>1
  <2> QED BY <1>6, <1>7, <2>1, <2>2, <2>3
<1> QED BY <1>1, <1>9, <1>10, <1>11 DEF SafeInParallel

-----------------------------------------------------------------------------
(* The planner's plans in the pipeline                                     *)

\* A plan that the pipeline carries stays the plan it was, but for its notes and
\* its durations: nobody repairs it.
PlanKeptInv ==
  pc \notin {"generate", "failed"} /\ provider_name \in PlanNames =>
    /\ program.vehicle_id = call.spec.vehicle_id
    /\ Alike(program.steps, MockPlan(call.spec).steps)

LEMMA PlanKeptStep ==
  ASSUME IInv, PlanKeptInv, [Next]_vars
  PROVE  PlanKeptInv'
<1>1. ASSUME NEW by, Plan(by), pc = "generate", UNCHANGED call
      PROVE  PlanKeptInv'
  <2>1. CASE SchemaValid(MockPlan(call.spec))
    <3>1. MockPlan(call.spec) \in Program
      BY PlanIsProgram, PipelineAssumption DEF IInv
    <3>2. program' = MockPlan(call.spec) /\ call' = call
      BY <1>1, <2>1 DEF Plan, Adopt
    <3>3. /\ MockPlan(call.spec).vehicle_id = call.spec.vehicle_id
          /\ Alike(MockPlan(call.spec).steps, MockPlan(call.spec).steps)
      BY <3>1 DEF MockPlan, Alike, Program
    <3> QED BY <3>2, <3>3 DEF PlanKeptInv
  <2>2. CASE ~SchemaValid(MockPlan(call.spec))
    BY <1>1, <2>2 DEF Plan, PlanKeptInv
  <2> QED BY <2>1, <2>2
<1>2. CASE GenerateMock
  BY <1>1, <1>2 DEF GenerateMock
<1>3. CASE GenerateFails
  BY <1>1, <1>3 DEF GenerateFails
<1>4. CASE GenerateOk
  <2>1. provider_name' = call.provider /\ call.provider \in Providers /\ call.provider # "mock"
    BY <1>4 DEF GenerateOk, Adopt, IInv, TypeOK
  <2>2. provider_name' \notin PlanNames
    BY <2>1 DEF Providers, PlanNames
  <2> QED BY <2>2 DEF PlanKeptInv
<1>5. CASE RepairOk \/ RepairFails
  <2>1. provider_name \notin PlanNames
    BY <1>5 DEF RepairOk, RepairFails, IInv, TypeOK
  <2>2. provider_name' = provider_name
    BY <1>5 DEF RepairOk, RepairFails, Repaired, Adopt
  <2> QED BY <2>1, <2>2 DEF PlanKeptInv
<1>6. CASE AppendNotes
  <2>1. PICK notes, claims : program' = [program EXCEPT !.notes = notes, !.claims = claims]
    BY <1>6 DEF AppendNotes
  <2>2. pc = "notes" /\ program \in Program /\ UNCHANGED <<provider_name, call>>
    BY <1>6 DEF AppendNotes, IInv
  <2>3. program'.vehicle_id = program.vehicle_id /\ program'.steps = program.steps
    BY <2>1, <2>2 DEF Program
  <2> QED BY <2>2, <2>3 DEF PlanKeptInv
<1>7. CASE ApplyDurations
  <2>1. /\ pc = "durations" /\ program \in Program /\ call \in Calls
        /\ UNCHANGED <<provider_name, call>>
    BY <1>7 DEF ApplyDurations, IInv
  <2>2. /\ program' \in Program /\ program'.vehicle_id = program.vehicle_id
        /\ Alike(program.steps, program'.steps)
    BY <1>7, <2>1, DurationsAlike
  <2>3. \A t : Alike(program.steps, t) => Alike(program'.steps, t)
    BY <2>2 DEF Alike
  <2> QED BY <2>1, <2>2, <2>3 DEF PlanKeptInv
<1>8. CASE Schedule \/ Export
  BY <1>8 DEF Schedule, Export, PlanKeptInv
<1>9. CASE UNCHANGED vars
  BY <1>9 DEF vars, PlanKeptInv
<1> QED BY <1>2, <1>3, <1>4, <1>5, <1>6, <1>7, <1>8, <1>9 DEF Next, Serve

\* What the plan in an answer is worth.
LEMMA PlanInAnswer ==
  ASSUME IInv, PlanKeptInv, pc = "answered", provider_name \in PlanNames,
         UniqueEcus(call.spec), PlanBody(call.spec.ecus) # <<>>
  PROVE  /\ IsValid(issues) /\ Schedulable(program.steps) /\ program.steps \in Seq(Step)
         /\ call.spec.ecus \in Seq(Ecu)
         /\ \E n \in Nat : PlanRules(call.spec.ecus, program.steps, n)
<1> DEFINE spec == call.spec
           s == program.steps
           n == Len(PlanBody(spec.ecus))
<1>1. spec \in VehicleSpec /\ program \in Program
  BY PipelineAssumption DEF IInv
<1>2. spec.ecus \in Seq(Ecu) /\ s \in Seq(Step)
  BY <1>1 DEF VehicleSpec, Program
<1>3. n \in Nat
  BY <1>2, BodyMeans
<1>4. PlanRules(spec.ecus, MockPlan(spec).steps, n)
  BY <1>2, PlanKeepsRules
<1>5. program.vehicle_id = spec.vehicle_id /\ Alike(s, MockPlan(spec).steps)
  BY DEF PlanKeptInv
<1> HIDE DEF n, s
<1>6. PlanRules(spec.ecus, s, n)
  BY ONLY <1>3, <1>4, <1>5, AlikeRules
<1> HIDE DEF spec
<1>7. ErrorFree(spec, s)
  BY <1>2, <1>3, <1>6, RulesErrorFree DEF spec
<1>8. s # <<>>
  <2>1. Len(s) = n + 2
    BY <1>6 DEF PlanRules
  <2> QED BY <1>2, <1>3, <2>1
<1>9. IsValid(ValidateProgram(spec, program))
  BY <1>5, <1>7, <1>8, ValidMeans DEF s
<1>10. DistinctOrders(s)
  <2>1. DOMAIN s = 1 .. n + 2 /\ \A k \in 1 .. n + 2 : s[k].order = k
    BY <1>2, <1>3, <1>6 DEF PlanRules
  <2> QED BY <2>1 DEF DistinctOrders
<1>11. Schedulable(s)
  BY <1>1, <1>9, <1>10, ValidSchedulable DEF s
<1>12. IsValid(issues)
  BY <1>9, <1>11 DEF IInv, VerdictInv, VerdictStillHolds, spec, s
<1> QED BY <1>2, <1>3, <1>6, <1>11, <1>12 DEF spec, s

\* The planner never produces an invalid program for a vehicle it can plan for
\* (llm_service.py:596), and its plans stay safe when the schedule runs their steps
\* in parallel, with learned durations or without.
THEOREM PlansSound == Spec => []MockPlansSound
<1>1. IInv /\ PlanKeptInv => MockPlansSound
  <2> SUFFICES ASSUME IInv, PlanKeptInv, pc = "answered", provider_name \in PlanNames,
                      UniqueEcus(call.spec)
               PROVE  MockPlansSound
    BY DEF MockPlansSound, MockNeverInvalid, MockScheduleSafe
  <2>1. call.spec.ecus \in Seq(Ecu)
    BY PipelineAssumption DEF IInv, VehicleSpec
  <2>2. MockNeverInvalid
    BY <2>1, PlannableHasBody, PlanInAnswer DEF MockNeverInvalid
  <2>3. CASE PlanBody(call.spec.ecus) = <<>>
    <3>1. Len(program.steps) = 0
      BY <2>1, <2>3, PlanShape DEF PlanKeptInv, Alike
    <3> QED BY <2>2, <3>1 DEF MockPlansSound, MockScheduleSafe
  <2>4. CASE PlanBody(call.spec.ecus) # <<>>
    <3>1. /\ Schedulable(program.steps) /\ program.steps \in Seq(Step)
          /\ \E n \in Nat : PlanRules(call.spec.ecus, program.steps, n)
      BY <2>4, PlanInAnswer
    <3>2. PICK n \in Nat : PlanRules(call.spec.ecus, program.steps, n)
      BY <3>1
    <3>3. PICK end : end = EarliestEnd(program.steps)
      OBVIOUS
    <3>4. program.steps # <<>>
      <4>1. Len(program.steps) = n + 2
        BY <3>2 DEF PlanRules
      <4> QED BY <4>1
    <3>5. Optimization.ends = end
      BY <3>1, <3>3, <3>4 DEF Optimization, ComputeOptimization
    <3>6. MockScheduleSafe
      <4>1. PICK spec, s : spec = call.spec /\ s = program.steps
        OBVIOUS
      <4>2. SafeInParallel(spec, s, end)
        BY <2>1, <3>1, <3>2, <3>3, <4>1, RulesSafe
      <4>3. SafeInParallel(spec, s, Optimization.ends)
        BY ONLY <3>5, <4>2
      <4> QED BY ONLY <4>1, <4>3 DEF MockScheduleSafe, SafeInParallel, Precedes
    <3> QED BY <2>2, <3>6 DEF MockPlansSound
  <2> QED BY <2>3, <2>4
<1>2. Init => PlanKeptInv
  BY DEF Init, PlanKeptInv
<1> QED BY <1>1, <1>2, Inductive, PlanKeptStep, PTL DEF Spec
==============================================================================
