------------------------------- MODULE Frontend -------------------------------
(***************************************************************************)
(* The page (frontend/app.js) that loads sample vehicles, generates        *)
(* programs and exports, schedules and recovers what it last generated.    *)
(*                                                                         *)
(* JavaScript runs one handler at a time and up to its next await, so a    *)
(* click, a key and the answer to a fetch are the steps.  Answers come in  *)
(* any order, or as failures.  A specification and a program are told      *)
(* apart by what they were made of; the pictures are left out.             *)
(***************************************************************************)
EXTENDS Integers, FiniteSets

CONSTANTS
  Specs,          \* what can be in the editor
  Samples,        \* those that the server has as samples
  First,          \* the first sample of its list
  Broken,         \* text in the editor that is no JSON
  Nothing,        \* null
  MaxGenerated,   \* bound on the programs generated
  MaxCalls        \* bound on the calls about a program that are under way

ASSUME FrontendAssumption ==
  /\ First \in Samples /\ Samples \subseteq Specs
  /\ Broken \notin Specs
  /\ LET Numbered == [of : Specs, number : Nat]
     IN  Nothing \notin Specs \cup Numbered \cup [program : Numbered, name : Numbered]
  /\ {MaxGenerated, MaxCalls} \subseteq Nat

VARIABLES
  editor,        \* what specInput holds
  author,        \* history: who wrote that: nobody yet, the automatic load, a
                 \* sample the user chose, or the user
  edited,        \* userHasEditedSpec
  screen,        \* which of the three output states is shown
  timer,         \* progressTimer is running
  busy,          \* generateBtn is disabled
  generating,    \* the spec of the generate call under way
  generated,     \* how many programs were generated
  lastProgram,   \* the most recently generated program
  lastSpec,      \* and the spec it came from
  exportShown,   \* exportOtxBtn is there
  listing,       \* the list of samples: "asked", "shown" or "failed"
  loads,         \* samples that are being fetched
  calls,         \* calls about a program that are under way
  panels,        \* the program each panel of the result tells about
  saved,         \* the file saved by the last step, if any: the program in it and
                 \* the one it is named after
  batching       \* batchBtn is disabled

editorVars == <<editor, author, edited>>
outputVars == <<screen, timer, lastProgram, lastSpec, exportShown>>
generateVars == <<busy, generating, generated>>
vars == <<editorVars, outputVars, generateVars, listing, loads, calls, panels, saved,
          batching>>

Programs == [of : Specs, number : 1 .. MaxGenerated]
Panels == {"channels", "sweep", "recovery"}

Init ==
  /\ editor = Broken /\ author = "nobody" /\ edited = FALSE
  /\ screen = "empty" /\ timer = FALSE
  /\ lastProgram = Nothing /\ lastSpec = Nothing /\ exportShown = FALSE
  /\ busy = FALSE /\ generating = Nothing /\ generated = 0
  /\ listing = "asked" /\ loads = {}
  /\ calls = {} /\ panels = [k \in Panels |-> Nothing] /\ saved = Nothing
  /\ batching = FALSE

\* The progress timer never outlives the loading state.
ShowState(name) == screen' = name /\ timer' = (timer /\ name = "loading")

\* Nothing but the answer to an export saves a file.
NoFile == saved' = Nothing

\* What loadSample and the editor's input handler do about a program that no
\* longer belongs to the editor.
Forget ==
  /\ ShowState("empty")
  /\ exportShown' = FALSE
  /\ lastProgram' = Nothing /\ lastSpec' = Nothing

-----------------------------------------------------------------------------
(* Samples *)

\* loadSampleList: the dropdown is filled and the first sample asked for.
ListSamples ==
  /\ listing = "asked"
  /\ listing' = "shown"
  /\ loads' = loads \cup {[file |-> First, asked |-> FALSE]}
  /\ NoFile
  /\ UNCHANGED <<editorVars, outputVars, generateVars, calls, panels, batching>>

ListFails ==
  /\ listing = "asked"
  /\ listing' = "failed"
  /\ NoFile
  /\ UNCHANGED <<editorVars, outputVars, generateVars, loads, calls, panels, batching>>

\* The user chooses another sample; bounded to one load of a sample at a time.
Choose(f) ==
  /\ listing = "shown"
  /\ [file |-> f, asked |-> TRUE] \notin loads
  /\ loads' = loads \cup {[file |-> f, asked |-> TRUE]}
  /\ NoFile
  /\ UNCHANGED <<editorVars, outputVars, generateVars, listing, calls, panels, batching>>

\* A slip: whether the user has typed is not looked at again after the fetch.
LoadedUnchecked(l) ==
  /\ l \in loads /\ loads' = loads \ {l}
  /\ editor' = l.file
  /\ author' = IF l.asked THEN "chosen" ELSE "auto"
  /\ Forget
  /\ NoFile
  /\ UNCHANGED <<edited, generateVars, listing, calls, panels, batching>>

\* The sample is there.  It replaces what the editor holds, unless nobody asked for
\* it and the user has typed meanwhile.
Loaded(l) ==
  /\ l \in loads /\ loads' = loads \ {l}
  /\ IF ~l.asked /\ edited THEN UNCHANGED <<editor, author, outputVars>>
     ELSE /\ editor' = l.file
          /\ author' = IF l.asked THEN "chosen" ELSE "auto"
          /\ Forget
  /\ NoFile
  /\ UNCHANGED <<edited, generateVars, listing, calls, panels, batching>>

LoadFails(l) ==
  /\ l \in loads /\ loads' = loads \ {l}
  /\ NoFile
  /\ UNCHANGED <<editorVars, outputVars, generateVars, listing, calls, panels, batching>>

\* A slip: only the user's first key is a change of the spec.
TypeFirst(text) ==
  /\ editor' = text /\ author' = "user" /\ edited' = TRUE
  /\ IF screen = "result" /\ ~edited THEN Forget ELSE UNCHANGED outputVars
  /\ NoFile
  /\ UNCHANGED <<generateVars, listing, loads, calls, panels, batching>>

\* The user types.  The program is forgotten only when it is shown.
Type(text) ==
  /\ editor' = text /\ author' = "user" /\ edited' = TRUE
  /\ IF screen = "result" THEN Forget ELSE UNCHANGED outputVars
  /\ NoFile
  /\ UNCHANGED <<generateVars, listing, loads, calls, panels, batching>>

-----------------------------------------------------------------------------
(* Generate *)

\* A slip: the editor's text is sent as it is.
GenerateUnparsed ==
  /\ ~busy /\ generated < MaxGenerated
  /\ busy' = TRUE /\ generating' = editor
  /\ screen' = "loading" /\ timer' = TRUE
  /\ NoFile
  /\ UNCHANGED <<editorVars, lastProgram, lastSpec, exportShown, generated, listing,
                 loads, calls, panels, batching>>

\* A slip: the spec is remembered when it is sent, not when its program is there.
GenerateRemembered ==
  /\ ~busy /\ generated < MaxGenerated /\ editor # Broken
  /\ busy' = TRUE /\ generating' = editor
  /\ screen' = "loading" /\ timer' = TRUE
  /\ lastSpec' = editor
  /\ NoFile
  /\ UNCHANGED <<editorVars, lastProgram, exportShown, generated, listing, loads,
                 calls, panels, batching>>

\* generate up to its await.  Broken text only makes an error message.  An older
\* program stays, and with it the export button.
Generate ==
  /\ ~busy /\ generated < MaxGenerated /\ editor # Broken
  /\ busy' = TRUE /\ generating' = editor
  /\ screen' = "loading" /\ timer' = TRUE
  /\ NoFile
  /\ UNCHANGED <<editorVars, lastProgram, lastSpec, exportShown, generated, listing,
                 loads, calls, panels, batching>>

\* The answer is rendered, whatever the editor holds by now; the panels about the
\* previous program are emptied.
Generated ==
  /\ generating # Nothing
  /\ generated' = generated + 1
  /\ lastSpec' = generating
  /\ lastProgram' = [of |-> generating, number |-> generated']
  /\ exportShown' = TRUE
  /\ panels' = [k \in Panels |-> Nothing]
  /\ ShowState("result")
  /\ busy' = FALSE /\ generating' = Nothing
  /\ NoFile
  /\ UNCHANGED <<editorVars, listing, loads, calls, batching>>

\* A slip: only a good answer gives the button back.
GenerateFailsBusy ==
  /\ generating # Nothing
  /\ ShowState("empty")
  /\ generating' = Nothing
  /\ NoFile
  /\ UNCHANGED <<editorVars, lastProgram, lastSpec, exportShown, busy, generated,
                 listing, loads, calls, panels, batching>>

\* An error keeps the older program, its spec and the export button.
GenerateFails ==
  /\ generating # Nothing
  /\ ShowState("empty")
  /\ busy' = FALSE /\ generating' = Nothing
  /\ NoFile
  /\ UNCHANGED <<editorVars, lastProgram, lastSpec, exportShown, generated, listing,
                 loads, calls, panels, batching>>

-----------------------------------------------------------------------------
(* Calls about the last program *)

Send(kind) ==
  /\ Cardinality(calls) < MaxCalls
  /\ calls' = calls \cup {[kind |-> kind, program |-> lastProgram, spec |-> lastSpec]}

\* The export button is outside the result and may be there without it.
Export ==
  /\ exportShown /\ lastProgram # Nothing /\ lastSpec # Nothing
  /\ Send("export")
  /\ NoFile
  /\ UNCHANGED <<editorVars, outputVars, generateVars, listing, loads, panels, batching>>

\* Schedule, sweep and recover are inside it; only recovery sends the spec.
Ask(kind) ==
  /\ screen = "result" /\ lastProgram # Nothing
  /\ kind = "recovery" => lastSpec # Nothing
  /\ Send(kind)
  /\ panels' = IF kind = "recovery" THEN [panels EXCEPT ![kind] = Nothing] ELSE panels
  /\ NoFile
  /\ UNCHANGED <<editorVars, outputVars, generateVars, listing, loads, batching>>

\* A panel is filled for whatever program the call was about; the chart of the
\* channels is drawn from the steps of the last program and not without one.
PanelsAfter(c) ==
  IF c.kind = "export" \/ (c.kind = "channels" /\ lastProgram = Nothing) THEN panels
  ELSE [panels EXCEPT ![c.kind] = c.program]

\* The file of the program that was sent is named after the vehicle of the last one;
\* without one that raises, and there is no file.
FileAfter(c) ==
  IF c.kind = "export" /\ lastProgram # Nothing
    THEN [program |-> c.program, name |-> lastProgram] ELSE Nothing

Answered(c) ==
  /\ c \in calls /\ calls' = calls \ {c}
  /\ panels' = PanelsAfter(c)
  /\ saved' = FileAfter(c)
  /\ UNCHANGED <<editorVars, outputVars, generateVars, listing, loads, batching>>

CallFails(c) ==
  /\ c \in calls /\ calls' = calls \ {c}
  /\ panels' = IF c.kind = "recovery" THEN [panels EXCEPT ![c.kind] = Nothing] ELSE panels
  /\ NoFile
  /\ UNCHANGED <<editorVars, outputVars, generateVars, listing, loads, batching>>

\* Batch mode has a button and a panel of its own.
Batch ==
  /\ ~batching /\ batching' = TRUE
  /\ NoFile
  /\ UNCHANGED <<editorVars, outputVars, generateVars, listing, loads, calls, panels>>
BatchEnds ==
  /\ batching /\ batching' = FALSE
  /\ NoFile
  /\ UNCHANGED <<editorVars, outputVars, generateVars, listing, loads, calls, panels>>

-----------------------------------------------------------------------------
Fetched == ListSamples \/ ListFails
Settled == Generated \/ GenerateFails

Next ==
  \/ Fetched \/ Settled \/ Generate \/ Export \/ Batch \/ BatchEnds
  \/ \E f \in Samples : Choose(f)
  \/ \E l \in loads : Loaded(l) \/ LoadFails(l)
  \/ \E text \in Specs \cup {Broken} : Type(text)
  \/ \E kind \in Panels : Ask(kind)
  \/ \E c \in calls : Answered(c) \/ CallFails(c)

\* A fetch ends, with an answer or an error; the user may do anything or nothing.
Fairness == WF_vars(Fetched) /\ WF_vars(Settled) /\ WF_vars(BatchEnds)

Spec == Init /\ [][Next]_vars /\ Fairness

-----------------------------------------------------------------------------
TypeOK ==
  /\ editor \in Specs \cup {Broken} /\ edited \in BOOLEAN
  /\ author \in {"nobody", "auto", "chosen", "user"}
  /\ screen \in {"empty", "loading", "result"} /\ timer \in BOOLEAN
  /\ busy \in BOOLEAN /\ generating \in Specs \cup {Nothing}
  /\ generated \in 0 .. MaxGenerated
  /\ lastProgram \in Programs \cup {Nothing} /\ lastSpec \in Specs \cup {Nothing}
  /\ exportShown \in BOOLEAN
  /\ listing \in {"asked", "shown", "failed"}
  /\ loads \subseteq [file : Samples, asked : BOOLEAN]
  /\ calls \subseteq [kind : Panels \cup {"export"}, program : Programs, spec : Specs]
  /\ panels \in [Panels -> Programs \cup {Nothing}]
  /\ saved \in [program : Programs, name : Programs] \cup {Nothing}
  /\ batching \in BOOLEAN

\* However answers, keys and loads are interleaved, export and recovery send a
\* program with the very spec it was generated from; the program, its spec and the
\* export button come and go together; no result is shown without a program; and a
\* file, named after whatever program is the last when it comes, may get the name of
\* a later one, but never that of an earlier one.
ProgramFitsSpec ==
  /\ \A c \in calls : c.program.of = c.spec
  /\ lastProgram = Nothing <=> lastSpec = Nothing
  /\ exportShown <=> lastProgram # Nothing
  /\ screen = "result" => lastProgram # Nothing
  /\ saved # Nothing => saved.program.number <= saved.name.number

\* What the user has typed is overwritten by samples the user chose, never by the
\* automatic load, however late its answer (the race userHasEditedSpec is for).
TypedTextKept == [][author = "user" => author' # "auto"]_vars

\* The result that is shown belongs to the spec in the editor.
PanelsMatch == screen = "result" => editor = lastSpec

\* Neither a key nor a sample ever leaves a result beside another spec; only the
\* answer to a generate call that was sent before the spec changed can.
OnlyLateAnswersMismatch ==
  [][PanelsMatch /\ ~PanelsMatch' => generating # Nothing /\ generating' = Nothing]_vars

\* The generate and batch buttons are given back and the loading state ends,
\* whatever is typed, loaded and answered meanwhile; its timer ends with it.
ButtonsComeBack ==
  /\ busy ~> ~busy
  /\ batching ~> ~batching
  /\ timer ~> ~timer /\ screen # "loading"
=============================================================================
