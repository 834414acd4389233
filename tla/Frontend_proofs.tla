---------------------------- MODULE Frontend_proofs ----------------------------
(***************************************************************************)
(* For any specs and samples and any number of programs and of calls under *)
(* way: what the page sends fits together, typed text is kept, and only a  *)
(* late answer leaves a result beside another spec.                        *)
(***************************************************************************)
EXTENDS Frontend, TLAPS

\* The button is disabled exactly while a generate call is under way, which is
\* what keeps a second one from being sent.
OneGenerate ==
  /\ busy <=> generating # Nothing
  /\ generating # Nothing => generated < MaxGenerated

\* The page remembers the program of the last answer with the spec of its call.
Remembered == lastProgram # Nothing => lastProgram.of = lastSpec

\* The user is the author only after the input handler has set its flag.
FlagSet == author = "user" => edited

\* The last program is the latest that was generated; no call is about a later one.
LatestLast ==
  /\ lastProgram # Nothing => lastProgram.number = generated
  /\ \A c \in calls : c.program.number <= generated

IInv == TypeOK /\ OneGenerate /\ Remembered /\ FlagSet /\ LatestLast /\ ProgramFitsSpec

-----------------------------------------------------------------------------
\* null is neither a spec nor a program.
LEMMA NothingElse == Nothing \notin Specs /\ Nothing \notin Programs
  BY FrontendAssumption DEF Programs

LEMMA InitInv == Init => IInv
<1> SUFFICES ASSUME Init PROVE IInv
  OBVIOUS
<1>1. /\ editor \in Specs \cup {Broken} /\ generating \in Specs \cup {Nothing}
      /\ lastProgram \in Programs \cup {Nothing} /\ lastSpec \in Specs \cup {Nothing}
      /\ generated \in 0 .. MaxGenerated
      /\ panels \in [Panels -> Programs \cup {Nothing}]
  BY FrontendAssumption DEF Init
<1>2. TypeOK
  BY <1>1, Zenon DEF Init, TypeOK
<1>3. OneGenerate /\ Remembered /\ FlagSet /\ LatestLast /\ ProgramFitsSpec
  BY Zenon DEF Init, OneGenerate, Remembered, FlagSet, LatestLast, ProgramFitsSpec
<1> QED BY <1>2, <1>3 DEF IInv

-----------------------------------------------------------------------------
(* The steps *)

\* What is remembered does not depend on the samples being fetched nor on batch mode.
LEMMA Untouched ==
  ASSUME IInv,
         loads' \subseteq [file : Samples, asked : BOOLEAN],
         listing' \in {"asked", "shown", "failed"},
         batching' \in BOOLEAN,
         saved' \in {saved, Nothing},
         UNCHANGED <<editorVars, outputVars, generateVars, calls, panels>>
  PROVE  IInv'
<1>1. /\ UNCHANGED <<editor, author, edited, screen, timer, lastProgram, lastSpec>>
      /\ UNCHANGED <<exportShown, busy, generating, generated, calls, panels>>
  BY DEF outputVars, editorVars, generateVars
<1>2. TypeOK'
  BY <1>1 DEF IInv, TypeOK, Programs, Panels
<1>3. OneGenerate' /\ Remembered' /\ FlagSet' /\ LatestLast'
  BY <1>1 DEF IInv, OneGenerate, Remembered, FlagSet, LatestLast
<1>4. ProgramFitsSpec'
  BY <1>1 DEF IInv, ProgramFitsSpec
<1> QED BY <1>2, <1>3, <1>4 DEF IInv

\* Fetching samples writes the editor, and either forgets the program or leaves
\* all that is remembered alone.
LEMMA SamplesInv ==
  ASSUME IInv,
         \/ Fetched
         \/ \E f \in Samples : Choose(f)
         \/ \E l \in loads : Loaded(l) \/ LoadFails(l)
  PROVE  IInv'
<1> DEFINE Loads == [file : Samples, asked : BOOLEAN]
<1>0. /\ loads \subseteq Loads
      /\ \A f \in Samples, b \in BOOLEAN : [file |-> f, asked |-> b] \in Loads
      /\ listing \in {"asked", "shown", "failed"} /\ batching \in BOOLEAN
  BY DEF IInv, TypeOK
<1> HIDE DEF Loads
<1>1. CASE Fetched
  <2>1. loads' \subseteq Loads
    <3>1. loads' = loads \cup {[file |-> First, asked |-> FALSE]} \/ loads' = loads
      BY <1>1 DEF Fetched, ListSamples, ListFails
    <3>2. [file |-> First, asked |-> FALSE] \in Loads
      BY <1>0, FrontendAssumption
    <3> QED BY <1>0, <3>1, <3>2
  <2>2. /\ listing' \in {"asked", "shown", "failed"} /\ batching' \in BOOLEAN
        /\ saved' = Nothing
    BY <1>0, <1>1 DEF Fetched, ListSamples, ListFails, NoFile
  <2>3. UNCHANGED <<editorVars, outputVars, generateVars, calls, panels>>
    BY <1>1 DEF Fetched, ListSamples, ListFails
  <2> QED BY <2>1, <2>2, <2>3, Untouched DEF Loads
<1>2. ASSUME NEW f \in Samples, Choose(f)
      PROVE  IInv'
  <2>1. loads' \subseteq Loads
    BY <1>0, <1>2 DEF Choose
  <2>2. /\ listing' \in {"asked", "shown", "failed"} /\ batching' \in BOOLEAN
        /\ saved' = Nothing
    BY <1>0, <1>2 DEF Choose, NoFile
  <2>3. UNCHANGED <<editorVars, outputVars, generateVars, calls, panels>>
    BY <1>2 DEF Choose
  <2> QED BY <2>1, <2>2, <2>3, Untouched DEF Loads
<1>3. ASSUME NEW l \in loads, Loaded(l)
      PROVE  IInv'
  <2>1. l.file \in Specs /\ loads' \subseteq loads
    BY <1>0, <1>3, FrontendAssumption DEF Loads, Loaded
  <2>2. /\ UNCHANGED <<edited, busy, generating, generated, listing, calls, panels, batching>>
        /\ saved' = Nothing
    BY <1>3 DEF Loaded, generateVars, NoFile
  <2>3. CASE UNCHANGED <<editor, author, outputVars>>
    BY <1>0, <2>1, <2>2, <2>3, Untouched DEF Loads, editorVars, outputVars, generateVars
  <2>4. CASE /\ editor' = l.file /\ author' \in {"chosen", "auto"} /\ Forget
    <3>1. /\ screen' = "empty" /\ timer' = FALSE /\ exportShown' = FALSE
          /\ lastProgram' = Nothing /\ lastSpec' = Nothing
      BY <2>4 DEF Forget, ShowState, IInv, TypeOK
    <3>2. TypeOK'
      BY <2>1, <2>2, <2>4, <3>1 DEF IInv, TypeOK, Programs, Panels
    <3>3. OneGenerate' /\ Remembered' /\ FlagSet' /\ LatestLast' /\ ProgramFitsSpec'
      BY <2>2, <2>4, <3>1
      DEF IInv, OneGenerate, Remembered, FlagSet, LatestLast, ProgramFitsSpec
    <3> QED BY <3>2, <3>3 DEF IInv
  <2> QED BY <1>3, <2>3, <2>4 DEF Loaded
<1>4. ASSUME NEW l \in loads, LoadFails(l)
      PROVE  IInv'
  BY <1>0, <1>4, Untouched DEF LoadFails, Loads, NoFile
<1> QED BY <1>1, <1>2, <1>3, <1>4

LEMMA TypeInv ==
  ASSUME IInv, NEW text \in Specs \cup {Broken}, Type(text)
  PROVE  IInv'
  BY DEF Type, Forget, ShowState, NoFile, IInv, TypeOK, OneGenerate, Remembered, FlagSet,
         LatestLast, ProgramFitsSpec, outputVars, generateVars, Programs, Panels

\* The one step that makes a program, with the spec that was sent for it.
LEMMA GenerateInv ==
  ASSUME IInv, Generate \/ Settled
  PROVE  IInv'
<1> USE DEF IInv, TypeOK, OneGenerate, Remembered, FlagSet, LatestLast, ProgramFitsSpec,
            NoFile, outputVars, editorVars, generateVars, Programs, Panels
<1>1. CASE Generate
  BY <1>1, NothingElse DEF Generate
<1>2. CASE GenerateFails
  BY <1>2, NothingElse DEF GenerateFails, ShowState
<1>3. CASE Generated
  <2>1. generating \in Specs /\ generated' \in 1 .. MaxGenerated /\ generated' \in 0 .. MaxGenerated
    BY <1>3, FrontendAssumption DEF Generated
  <2>2. /\ lastProgram' \in Programs
        /\ lastProgram'.of = lastSpec'
        /\ lastSpec' \in Specs
    BY <1>3, <2>1 DEF Generated, Programs
  <2>3. \A c \in calls' : c.program.number <= generated'
    <3>1. PICK g \in Nat : g = generated
      BY FrontendAssumption
    <3>2. ASSUME NEW c \in calls PROVE c.program.number <= g + 1
      <4>1. c.program.number \in 1 .. MaxGenerated /\ c.program.number <= g
        BY <3>1
      <4>2. PICK k : k = c.program.number
        OBVIOUS
      <4>3. k \in Nat /\ k <= g
        BY <4>1, <4>2, FrontendAssumption
      <4>4. k <= g + 1
        BY ONLY <4>3, g \in Nat
      <4> QED BY <4>2, <4>4
    <3> QED BY <1>3, <3>1, <3>2 DEF Generated
  <2>4. lastProgram'.number = generated' /\ saved' = Nothing
    BY <1>3 DEF Generated
  <2> QED BY <1>3, <2>1, <2>2, <2>3, <2>4, NothingElse DEF Generated, ShowState
<1> QED BY <1>1, <1>2, <1>3 DEF Settled

\* A call takes along what is remembered at one moment.
LEMMA CallsInv ==
  ASSUME IInv,
         \/ Export
         \/ \E kind \in Panels : Ask(kind)
         \/ \E c \in calls : Answered(c) \/ CallFails(c)
  PROVE  IInv'
<1> USE DEF IInv, TypeOK, OneGenerate, Remembered, FlagSet, LatestLast, ProgramFitsSpec,
            NoFile, outputVars, editorVars, generateVars, Programs, Panels
<1>1. ASSUME NEW kind \in Panels \cup {"export"}, Send(kind),
             lastProgram # Nothing, lastSpec # Nothing
      PROVE  /\ calls' \subseteq [kind : Panels \cup {"export"}, program : Programs, spec : Specs]
             /\ \A c \in calls' : c.program.of = c.spec
             /\ \A c \in calls' : c.program.number <= generated
  <2>1. /\ calls' = calls \cup {[kind |-> kind, program |-> lastProgram, spec |-> lastSpec]}
        /\ lastProgram \in Programs /\ lastProgram.of = lastSpec /\ lastSpec \in Specs
    BY <1>1 DEF Send
  <2>2. lastProgram.number = generated /\ generated \in Nat /\ generated <= generated
    BY <1>1, FrontendAssumption
  <2> QED BY <2>1, <2>2
<1>2. CASE Export
  BY <1>1, <1>2 DEF Export
<1>3. ASSUME NEW kind \in Panels, Ask(kind)
      PROVE  IInv'
  BY <1>1, <1>3 DEF Ask
<1>4. ASSUME NEW c \in calls, Answered(c) \/ CallFails(c)
      PROVE  IInv'
  <2>1. c.program \in Programs
    OBVIOUS
  <2> QED BY <1>4, <2>1 DEF Answered, PanelsAfter, FileAfter, CallFails
<1> QED BY <1>2, <1>3, <1>4

LEMMA NextInv ==
  ASSUME IInv, [Next]_vars
  PROVE  IInv'
<1>1. CASE Batch \/ BatchEnds \/ UNCHANGED vars
  <2>1. /\ batching' \in BOOLEAN
        /\ saved' \in {saved, Nothing}
        /\ UNCHANGED <<editorVars, outputVars, generateVars, listing, loads, calls, panels>>
    BY <1>1 DEF Batch, BatchEnds, NoFile, vars, IInv, TypeOK
  <2>2. /\ loads' \subseteq [file : Samples, asked : BOOLEAN]
        /\ listing' \in {"asked", "shown", "failed"}
    BY <2>1 DEF IInv, TypeOK
  <2> QED BY <2>1, <2>2, Untouched
<1> QED BY <1>1, SamplesInv, TypeInv, GenerateInv, CallsInv DEF Next

-----------------------------------------------------------------------------
(* The theorems *)

\* The invariant holds in every state.
LEMMA Invariance == Spec => []IInv
<1>1. Init => IInv
  BY InitInv
<1>2. IInv /\ [Next]_vars => IInv'
  BY NextInv
<1> QED BY <1>1, <1>2, PTL DEF Spec

\* The page's state keeps its types; no broken text is ever sent as a spec.
THEOREM TypeCorrect == Spec => []TypeOK
<1>1. IInv => TypeOK
  BY DEF IInv
<1> QED BY <1>1, Invariance, PTL

\* Export and recovery always send a program with the spec it was generated from,
\* for any interleaving of answers, keys and loads, and the file that is saved is
\* never named after an older program.
THEOREM ProgramsFit == Spec => []ProgramFitsSpec
<1>1. IInv => ProgramFitsSpec
  BY DEF IInv
<1> QED BY <1>1, Invariance, PTL

\* The automatic load never overwrites what the user has typed.
THEOREM TypedKept == Spec => TypedTextKept
<1>1. IInv /\ [Next]_vars => [author = "user" => author' # "auto"]_vars
  <2> SUFFICES ASSUME IInv, Next, author = "user"
               PROVE  author' # "auto"
    BY DEF vars, editorVars
  <2>1. edited
    BY DEF IInv, FlagSet
  <2>2. ASSUME NEW l \in loads, Loaded(l)
        PROVE  author' # "auto"
    BY <2>1, <2>2 DEF Loaded
  <2> QED
    BY <2>2 DEF Next, Fetched, ListSamples, ListFails, Settled, Generated, GenerateFails,
       Generate, Export, Batch, BatchEnds, Choose, LoadFails, Type, Ask, Answered,
       CallFails, editorVars
<1> QED BY <1>1, Invariance, PTL DEF Spec, TypedTextKept

\* A result comes to stand beside another spec only with the answer to a generate
\* call; keys and samples clear it.
THEOREM OnlyLateAnswers == Spec => OnlyLateAnswersMismatch
<1> DEFINE Late == PanelsMatch /\ ~PanelsMatch' => generating # Nothing /\ generating' = Nothing
<1>1. [Next]_vars => [Late]_vars
  <2> SUFFICES ASSUME Next, PanelsMatch, ~PanelsMatch'
               PROVE  generating # Nothing /\ generating' = Nothing
    BY DEF vars, editorVars, outputVars
  <2>1. screen' = "result" /\ editor' # lastSpec'
    BY DEF PanelsMatch
  <2>2. ~UNCHANGED <<editorVars, outputVars>>
    BY <2>1 DEF PanelsMatch, editorVars, outputVars
  <2>3. ASSUME NEW l \in loads, Loaded(l)
        PROVE  FALSE
    BY <2>1, <2>3 DEF Loaded, Forget, ShowState, PanelsMatch, outputVars
  <2>4. ASSUME NEW text \in Specs \cup {Broken}, Type(text)
        PROVE  FALSE
    BY <2>1, <2>4 DEF Type, Forget, ShowState, PanelsMatch, outputVars
  <2>5. ~Generate
    BY <2>1 DEF Generate
  <2> QED
    BY <2>2, <2>3, <2>4, <2>5 DEF Next, Fetched, ListSamples, ListFails, Settled, Generated,
       GenerateFails, Export, Batch, BatchEnds, Choose, LoadFails, Ask, Answered, CallFails
<1> QED BY <1>1, PTL DEF Spec, OnlyLateAnswersMismatch
=============================================================================
