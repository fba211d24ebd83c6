------------------------------- MODULE ProbeApp -------------------------------
(***************************************************************************)
(* The probe app: ProbeActivity.onCreate stages the DSP libraries of the   *)
(* package on disk, runs the probe, stages the models, runs each on the    *)
(* NPU and on the CPU (OrtBenchmark), saves the report and shows it.       *)
(*                                                                         *)
(* A process may be killed between any two of its steps, and what is on    *)
(* disk stays; the activity may be created again in a process that lives;  *)
(* another build of the app may be installed over this one.  The contents  *)
(* of a file are the version of the app it was copied from and whether all *)
(* of it was.                                                              *)
(***************************************************************************)
EXTENDS Probe, Sequences

CONSTANTS
  Libs,        (* The DSP libraries a package may carry.                   *)
  ModelSeq,    (* The models onCreate names, in its order.                 *)
  Packages,    (* What a build may have bundled: [dsp, models].            *)
  MaxLaunches, (* Bound: the launches of a run.                            *)
  MaxVersion   (* Bound: the installations of a run.                       *)

ModelFiles == {ModelSeq[j] : j \in DOMAIN ModelSeq}

Files == Libs \cup ModelFiles
NoFile == "none"

ASSUME AppAssumption ==
  /\ ModelSeq \in Seq(ModelFiles)
  /\ Packages \subseteq [dsp : SUBSET Libs, models : SUBSET ModelFiles]
  /\ Libs \cap ModelFiles = {} /\ NoFile \notin Files
  /\ MaxLaunches \in Nat
  /\ MaxVersion \in Nat \ {0}

VARIABLES
  package,  (* What is installed.                                          *)
  version,  (* Its number.                                                 *)
  disk,     (* Per file under getFilesDir(), what is in it.                *)
  txt,      (* What is in probe.txt.                                       *)
  at,       (* Where the process is in onCreate, or that there is none.    *)
  todo,     (* DSP libraries still to be staged.                           *)
  copying,  (* The file being copied.                                      *)
  i, on,    (* The model, and the processor it is timed on.                *)
  report,   (* The report so far.                                          *)
  screen,   (* The report shown.                                           *)
  unstaged, (* In this launch a file was not staged, or ORT not started.   *)
  unsaved,  (* In this launch probe.txt could not be written.              *)
  launches  (* Launches so far.                                            *)

storeVars == <<package, version, disk, txt>>
localVars == <<todo, copying, i, on, report, screen, unstaged, unsaved>>
vars == <<probeVars, storeVars, at, localVars, launches>>

Content(v, w) == [of |-> v, whole |-> w]
Absent == Content(0, FALSE)
NoReport == <<>>

(* A report: the section of the probe, a line for each model and processor.*)
ProbeSection == <<"probe">>
Timing(f, p) == <<f, p>>
Threw == <<"probe threw">>

Init ==
  /\ ProbeInit
  /\ package \in Packages /\ version = 1
  /\ disk = [f \in Files |-> Absent]
  /\ txt = [report |-> NoReport, whole |-> FALSE]
  /\ at = "off"
  /\ todo = {} /\ copying = NoFile /\ i = 1 /\ on = "npu"
  /\ report = NoReport /\ screen = NoReport
  /\ unstaged = FALSE /\ unsaved = FALSE
  /\ launches = 0

-----------------------------------------------------------------------------
(* What happens to the app *)

(* onCreate, in a new process or in one that has shown a report.           *)
Launch ==
  /\ at \in {"off", "shown"}
  /\ launches < MaxLaunches
  /\ at' = "list"
  /\ launches' = launches + 1
  /\ todo' = {} /\ copying' = NoFile /\ i' = 1 /\ on' = "npu"
  /\ report' = NoReport /\ screen' = NoReport
  /\ unstaged' = FALSE /\ unsaved' = FALSE
  /\ UNCHANGED <<probeVars, storeVars>>

(* What dies with the process. *)
ProcessGone ==
  /\ at' = "off"
  /\ FrameGone /\ ProcessEnds
  /\ todo' = {} /\ copying' = NoFile /\ i' = 1 /\ on' = "npu"
  /\ report' = NoReport /\ screen' = NoReport
  /\ unstaged' = FALSE /\ unsaved' = FALSE
  /\ UNCHANGED <<disk, txt, launches>>

(* Killed by the system, by the user or by a fault in native code. *)
Kill ==
  /\ at # "off"
  /\ ProcessGone
  /\ UNCHANGED <<package, version>>

(* adb install -r: the files of the app stay. *)
Install ==
  /\ version < MaxVersion
  /\ package' \in Packages
  /\ version' = version + 1
  /\ ProcessGone

-----------------------------------------------------------------------------
(* onCreate *)

(* A Throwable caught in onCreate replaces the report. *)
Throw ==
  /\ at' = "save"
  /\ report' = Threw
  /\ UNCHANGED <<probeVars, storeVars, todo, copying, i, on, screen, unsaved, launches>>

ListLibs ==
  /\ at = "list"
  /\ at' = "libs"
  /\ todo' = package.dsp
  /\ UNCHANGED <<probeVars, storeVars, copying, i, on, report, screen, unstaged, unsaved,
                 launches>>

(* The file to stage next: any library, then the models in order. *)
Staged(f) ==
  \/ at = "libs" /\ f \in todo
  \/ at = "models" /\ i <= Len(ModelSeq) /\ f = ModelSeq[i] /\ f \in package.models

(* A FileOutputStream truncates what it opens. *)
Bug_OpenCopy(f) ==
  IF disk[f] = Absent
    THEN /\ disk' = [disk EXCEPT ![f] = Content(version, FALSE)]
         /\ copying' = f
         /\ at' = IF at = "libs" THEN "lib copy" ELSE "model copy"
         /\ UNCHANGED <<todo, i>>
    ELSE /\ todo' = todo \ {f}
         /\ i' = IF at = "libs" THEN i ELSE i + 1
         /\ UNCHANGED <<at, disk, copying>>
OpenCopy(f) ==
  /\ disk' = [disk EXCEPT ![f] = Content(version, FALSE)]
  /\ copying' = f
  /\ at' = IF at = "libs" THEN "lib copy" ELSE "model copy"
  /\ UNCHANGED <<todo, i>>

Stage ==
  /\ \E f \in Files : Staged(f) /\ OpenCopy(f)
  /\ UNCHANGED <<probeVars, package, version, txt, on, report, screen, unstaged, unsaved,
                 launches>>

Copying == at \in {"lib copy", "model copy"}

EndCopy ==
  /\ Copying
  /\ disk' = [disk EXCEPT ![copying] = Content(version, TRUE)]
  /\ IF at = "lib copy"
       THEN at' = "libs" /\ todo' = todo \ {copying} /\ UNCHANGED i
       ELSE at' = "models" /\ i' = i + 1 /\ UNCHANGED todo
  /\ copying' = NoFile
  /\ UNCHANGED <<probeVars, package, version, txt, on, report, screen, unstaged, unsaved,
                 launches>>

(* The asset is not in the package, or reading or writing fails. *)
AssetMissing == at = "models" /\ i <= Len(ModelSeq) /\ ModelSeq[i] \notin package.models
StagingThrows ==
  /\ Copying \/ AssetMissing \/ \E f \in Files : Staged(f)
  /\ unstaged' = TRUE
  /\ Throw

SetEnv ==
  /\ at = "libs"
  /\ todo = {}
  /\ at' = "call"
  /\ env' = TRUE
  /\ UNCHANGED <<device, step, node, sinkVars, pd, handles, storeVars, localVars, launches>>

RunProbe ==
  /\ at = "call"
  /\ CallProbe
  /\ at' = "probe"
  /\ UNCHANGED <<storeVars, localVars, launches>>

InProbe ==
  /\ at = "probe"
  /\ ProbeStep
  /\ UNCHANGED <<storeVars, at, localVars, launches>>

ProbeReturns ==
  /\ at = "probe"
  /\ ReturnFromProbe
  /\ at' = "models"
  /\ report' = ProbeSection
  /\ UNCHANGED <<storeVars, todo, copying, i, on, screen, unstaged, unsaved, launches>>

(* OrtBenchmark.run; its first call may already throw. *)
AllStaged == at = "models" /\ i > Len(ModelSeq)
StartBenchmark ==
  /\ AllStaged
  /\ at' = "bench"
  /\ i' = 1 /\ on' = "npu"
  /\ UNCHANGED <<probeVars, storeVars, todo, copying, report, screen, unstaged, unsaved,
                 launches>>
NoRuntime == AllStaged /\ unstaged' = TRUE /\ Throw

(* time(): sessions and tensors are closed whatever happens; one line is   *)
(* appended, with the times or with what was thrown.                       *)
Timed(next) ==
  /\ at = "bench"
  /\ i <= Len(ModelSeq)
  /\ report' = Append(report, Timing(ModelSeq[i], on))
  /\ i' = next.i /\ on' = next.on
  /\ UNCHANGED <<probeVars, storeVars, at, todo, copying, screen, unstaged, unsaved,
                 launches>>

NextTiming ==
  IF on = "npu" THEN [i |-> i, on |-> "cpu"] ELSE [i |-> i + 1, on |-> "npu"]

TimeModel == Timed(NextTiming)

(* What time() throws it catches itself. *)
Bug_TimingFails ==
  /\ at = "bench"
  /\ i <= Len(ModelSeq)
  /\ UNCHANGED unstaged
  /\ Throw
TimingFails == Timed(NextTiming)

EndBenchmark ==
  /\ at = "bench"
  /\ i > Len(ModelSeq)
  /\ at' = "save"
  /\ UNCHANGED <<probeVars, storeVars, localVars, launches>>

(* FileWriter truncates, too, and writes what follows behind the rest. *)
Bug_Truncated == [txt EXCEPT !.whole = FALSE]
Truncated == [report |-> NoReport, whole |-> FALSE]

OpenTxt ==
  /\ at = "save"
  /\ at' = "write"
  /\ txt' = Truncated
  /\ UNCHANGED <<probeVars, package, version, disk, localVars, launches>>

WriteTxt ==
  /\ at = "write"
  /\ at' = "show"
  /\ txt' = [report |-> txt.report \o report, whole |-> TRUE]
  /\ UNCHANGED <<probeVars, package, version, disk, localVars, launches>>

(* An exception is logged, and the report is shown all the same. *)
SaveFails ==
  /\ at \in {"save", "write"}
  /\ at' = "show"
  /\ unsaved' = TRUE
  /\ UNCHANGED <<probeVars, storeVars, todo, copying, i, on, report, screen, unstaged,
                 launches>>

Show ==
  /\ at = "show"
  /\ at' = "shown"
  /\ screen' = report
  /\ UNCHANGED <<probeVars, storeVars, todo, copying, i, on, report, unstaged, unsaved,
                 launches>>

OnCreate ==
  \/ ListLibs \/ Stage \/ EndCopy \/ StagingThrows \/ SetEnv
  \/ RunProbe \/ InProbe \/ ProbeReturns
  \/ StartBenchmark \/ NoRuntime \/ TimeModel \/ TimingFails \/ EndBenchmark
  \/ OpenTxt \/ WriteTxt \/ SaveFails \/ Show

Next == Launch \/ OnCreate \/ Kill \/ Install

Spec == Init /\ [][Next]_vars

-----------------------------------------------------------------------------
(* Properties *)

Contents == {Absent} \cup [of : 1 .. version, whole : BOOLEAN]
Sections == {"probe", "probe threw"} \cup (ModelFiles \X {"npu", "cpu"})

(* Every variable keeps the type the code gives it; in particular no node  *)
(* and no model is taken beyond the last, and the sink stays in its buffer.*)
TypeOK ==
  /\ ProbeTypes
  /\ package \in Packages /\ version \in 1 .. MaxVersion
  /\ disk \in [Files -> Contents]
  /\ txt.report \in Seq(Sections) /\ txt.whole \in BOOLEAN
  /\ at \in {"off", "list", "libs", "lib copy", "call", "probe", "models", "model copy",
             "bench", "save", "write", "show", "shown"}
  /\ todo \subseteq Libs /\ copying \in Files \cup {NoFile}
  /\ i \in 1 .. Len(ModelSeq) + 1 /\ on \in {"npu", "cpu"}
  /\ report \in Seq(Sections) /\ screen \in Seq(Sections)
  /\ unstaged \in BOOLEAN /\ unsaved \in BOOLEAN
  /\ launches \in 0 .. MaxLaunches

Current(f) == disk[f] = Content(version, TRUE)

(* A copy may be cut short by a kill and an older one left by an earlier   *)
(* build.  When the probe opens its handle or a session is created, every  *)
(* library of the package and every model is on disk nevertheless, whole   *)
(* and of this build, and the loader has been told where.                  *)
LoadsStagedFiles ==
  /\ (at = "probe" /\ step = "open") \/ at = "bench" =>
       env /\ \A f \in package.dsp : Current(f)
  /\ at = "bench" => \A f \in ModelFiles : Current(f)

(* A model that cannot be run costs its own line of the report only: a     *)
(* report is lost when something could not be staged or ORT not started,   *)
(* and otherwise has the probe and every model on both processors.         *)
FullReport ==
  ProbeSection \o
    [j \in 1 .. 2 * Len(ModelSeq) |->
       Timing(ModelSeq[(j + 1) \div 2], IF j % 2 = 1 THEN "npu" ELSE "cpu")]
FailureContained ==
  at \in {"save", "write", "show", "shown"} =>
    report = IF unstaged THEN Threw ELSE FullReport

(* What a reader of probe.txt sees is what is on the screen: nothing of an *)
(* earlier launch, whatever became of that one, unless the file could not  *)
(* be written.                                                             *)
SavedIsShown ==
  at = "shown" /\ ~unsaved => txt = [report |-> screen, whole |-> TRUE]
=============================================================================
