--------------------------- MODULE ModelPipeline ---------------------------
(***************************************************************************)
(* tools/export_nss.py and tools/quantize_nss.py: from Arm's checkpoint to *)
(* the int8 network.  One tool runs at a time, started by hand, and may be *)
(* killed between any two steps or end with an exception; what it leaves   *)
(* on disk is what the next run finds.  Files are written in place, so a   *)
(* file is absent, torn, or whole.                                         *)
(*                                                                         *)
(* A parameter of the network is <<layer, part>>.  Tensors of the scenario *)
(* are names with a size; what is computed from them is left out, except   *)
(* for what a comparison with the reference can tell.                      *)
(***************************************************************************)
EXTENDS Naturals, Sequences, FiniteSets, Functions

CONSTANTS
  Checkpoints, (* The files --weights may name.                            *)
  Arm,         (* The weights the reference tensors were computed with.    *)
  ShapeOf,     (* Per layer, the shape of its tensors.                     *)
  Sizes,       (* What --height and --width may be.                        *)
  Dirs,        (* The number of directories of the scenario, in path order.*)
  RefDir,      (* Which of them is out_high.                               *)
  Inputs,      (* The input tensors a directory may ship.                  *)
  RefInput,    (* The one the outputs in out_high were computed from.      *)
  SizeOf,      (* The size of each input tensor.                           *)
  NoTensor,    (* In a directory without out_input_tensor.npy.             *)
  NoFile, Torn,(* What a path may hold besides a whole file.               *)
  MaxRuns      (* Bound on the number of runs of the two tools.            *)

(* Which source files are downloaded; the others are empty __init__.py.    *)
SOURCES == <<"empty", "empty", "empty", "empty", "url", "empty", "empty",
             "empty", "url">>

Layers == {"conv2d_0", "conv2d_1", "conv2d_2", "conv2d_3", "conv2d_4",
           "conv2d_5", "conv2d_6", "conv2d_7", "conv2d_8", "conv2d_9",
           "conv2d_10", "conv2d_11", "kpn_params", "temporal_params_out_conv"}

(* The order in which the code takes the layers of a traced checkpoint to  *)
(* have been run.                                                          *)
EXEC_ORDER ==
  <<"conv2d_0", "conv2d_1", "conv2d_2", "conv2d_3", "conv2d_4", "conv2d_5",
    "conv2d_6", "conv2d_7", "conv2d_8", "kpn_params", "conv2d_9", "conv2d_10",
    "conv2d_11", "temporal_params_out_conv">>

Params == Layers \X {"weight", "bias"}

(* The layers the temporal output passes through.                          *)
Trunk == Layers \ {"kpn_params"}

(* A checkpoint: whose weights, traced or not, the order in which its      *)
(* network ran its layers when it was traced, which tensors it has.        *)
Checkpoint == [weights : STRING, traced : BOOLEAN, has : SUBSET Params,
               trace : [DOMAIN EXEC_ORDER -> Layers]]

(* The options of an export, its `state`, the files the two tools write.   *)
Option == [ckpt : Checkpoints, validate : BOOLEAN, size : Sizes]
State == [Params -> Params]
Model == [ckpt : Checkpoints, state : State, size : Sizes, validate : BOOLEAN]
QuantisedModel == [from : Model, frames : Seq(Inputs), checked : BOOLEAN]

ASSUME PipelineAssumption ==
  /\ Checkpoints \subseteq Checkpoint /\ Checkpoints # {}
  /\ \A c \in Checkpoints : Layers \subseteq Range(c.trace)
  /\ Arm \in STRING
  /\ Layers \subseteq DOMAIN ShapeOf
  /\ Dirs \in Nat /\ RefDir \in 1 .. Dirs
  /\ RefInput \in Inputs /\ NoTensor \notin Inputs
  /\ SizeOf \in [Inputs -> Sizes]
  /\ {NoFile, Torn} \cap (Model \cup QuantisedModel) = {}
  /\ NoFile # Torn
  /\ MaxRuns \in Nat

VARIABLES
  scenario,   (* Per directory, its input tensor.                          *)
  reference,  (* Whether out_high has the two outputs.                     *)
  cache,      (* The cached source files.                                  *)
  fp32,       (* --out of the export, --model of the quantiser.            *)
  prepared,   (* <out>.prepared.onnx of the quantiser.                     *)
  int8,       (* --out of the quantiser.                                   *)
  pc,         (* Where the run under way is, "idle" between two runs.      *)
  i,          (* The loop counter of the loop under way.                   *)
  opts,       (* The options of the export under way.                      *)
  state,      (* state of build_model, and the model it is loaded into.    *)
  frames,     (* The calibration frames.                                   *)
  fed,        (* Those the calibration has been given.                     *)
  src,        (* Which graph is quantised, the prepared one or the model.  *)
  runs,       (* How many runs there were.                                 *)
  torn,       (* Cache files under the pen of a run that was killed.       *)
  stopped     (* Whether the last run of the quantiser ended early.        *)

given == <<scenario, reference>>
disk == <<cache, fp32, prepared, int8>>
local == <<opts, state, frames, fed, src>>
history == <<runs, torn, stopped>>
vars == <<given, disk, pc, i, local, history>>

Whole(file) == file \notin {NoFile, Torn}

Exporting == {"fetch", "store", "import", "load", "validate", "export",
              "exporting"}
Quantising == {"frames", "preprocess", "preparing", "calibrate", "writing",
               "check", "cleanup"}

NoOpts == [ckpt |-> CHOOSE c \in Checkpoints : TRUE, validate |-> FALSE,
           size |-> CHOOSE s \in Sizes : TRUE]
NoState == [p \in Params |-> p]

Init ==
  /\ scenario \in [1 .. Dirs -> Inputs \cup {NoTensor}]
  /\ scenario[RefDir] \in {RefInput, NoTensor}
  /\ reference \in BOOLEAN
  /\ cache = [n \in DOMAIN SOURCES |-> "absent"]
  /\ fp32 = NoFile /\ prepared = NoFile /\ int8 = NoFile
  /\ pc = "idle" /\ i = 1
  /\ opts = NoOpts /\ state = NoState /\ frames = <<>> /\ fed = <<>>
  /\ src = "model"
  /\ runs = 0 /\ torn = {} /\ stopped = FALSE

(* The process is gone, and its memory with it.                            *)
Gone ==
  /\ pc' = "idle" /\ i' = 1
  /\ opts' = NoOpts /\ state' = NoState /\ frames' = <<>> /\ fed' = <<>>
  /\ src' = "model"
  /\ UNCHANGED <<given, runs>>

(* An exception, or SystemExit.                                            *)
Raise ==
  /\ Gone
  /\ stopped' = (stopped \/ pc \in Quantising)
  /\ UNCHANGED torn

Goto(label) == pc' = label /\ i' = 1

-----------------------------------------------------------------------------
(* export_nss.py *)

StartExport ==
  /\ pc = "idle" /\ runs < MaxRuns
  /\ Goto("fetch")
  /\ opts' \in [ckpt : Checkpoints, validate : BOOLEAN, size : Sizes]
  /\ runs' = runs + 1
  /\ UNCHANGED <<given, disk, state, frames, fed, src, torn, stopped>>

(* fetch_gym takes the files in order and leaves one that exists alone.    *)
Fetching(state_of_file) ==
  /\ pc = "fetch" /\ i \in DOMAIN SOURCES
  /\ cache[i] \in state_of_file

Cached ==
  /\ Fetching({"part", "whole"})
  /\ i' = i + 1
  /\ UNCHANGED <<given, disk, pc, local, history>>

WriteEmpty ==
  /\ Fetching({"absent"}) /\ SOURCES[i] = "empty"
  /\ cache' = [cache EXCEPT ![i] = "whole"]
  /\ i' = i + 1
  /\ UNCHANGED <<given, fp32, prepared, int8, pc, local, history>>

(* The whole body is read before the file is opened for writing.           *)
Download ==
  /\ Fetching({"absent"}) /\ SOURCES[i] = "url"
  /\ cache' = [cache EXCEPT ![i] = "part"]
  /\ pc' = "store"
  /\ UNCHANGED <<given, fp32, prepared, int8, i, local, history>>

Stored ==
  /\ pc = "store"
  /\ cache' = [cache EXCEPT ![i] = "whole"]
  /\ pc' = "fetch" /\ i' = i + 1
  /\ UNCHANGED <<given, fp32, prepared, int8, local, history>>

(* No network, an HTTP error, or the timeout.                              *)
Bug_LeftInCache == [cache EXCEPT ![i] = "part"]
LeftInCache == cache

DownloadFails ==
  /\ Fetching({"absent"}) /\ SOURCES[i] = "url"
  /\ cache' = LeftInCache
  /\ UNCHANGED <<fp32, prepared, int8>>
  /\ Raise

Fetched ==
  /\ pc = "fetch" /\ i \notin DOMAIN SOURCES
  /\ Goto("import")
  /\ UNCHANGED <<given, disk, local, history>>

(* A truncated source does not compile, or lacks what is imported or       *)
(* constructed from it.                                                    *)
Importable == \A n \in DOMAIN SOURCES : cache[n] = "whole"

Import ==
  /\ pc = "import" /\ Importable
  /\ Goto("load")
  /\ UNCHANGED <<given, disk, local, history>>

ImportFails ==
  /\ pc = "import" /\ ~Importable
  /\ UNCHANGED disk
  /\ Raise

(* _param_constant<k> of a traced checkpoint is the k-th tensor its trace  *)
(* used.                                                                   *)
ParamConstant(ckpt, k) ==
  <<ckpt.trace[k \div 2 + 1], IF k % 2 = 0 THEN "weight" ELSE "bias">>

(* build_model: by execution order for a traced checkpoint, else by name.  *)
Mapped(ckpt) ==
  IF ckpt.traced
    THEN [p \in Params |->
            LET n == CHOOSE n \in DOMAIN EXEC_ORDER : EXEC_ORDER[n] = p[1]
            IN  ParamConstant(ckpt,
                              2 * (n - 1) + (IF p[2] = "weight" THEN 0 ELSE 1))]
    ELSE [p \in ckpt.has |-> p]

(* No constant is missing, and load_state_dict(strict=True) takes the      *)
(* result: every parameter is there and has the shape of its layer.        *)
Bug_Loadable(ckpt) ==
  LET s == Mapped(ckpt)
  IN  \A p \in DOMAIN s : s[p] \in ckpt.has /\ s[p][2] = p[2]
Bug_ShapesIgnored(ckpt) ==
  LET s == Mapped(ckpt)
  IN  DOMAIN s = Params /\ \A p \in Params : s[p] \in ckpt.has
Loadable(ckpt) ==
  LET s == Mapped(ckpt)
  IN  /\ DOMAIN s = Params
      /\ \A p \in Params : /\ s[p] \in ckpt.has
                           /\ s[p][2] = p[2]
                           /\ ShapeOf[s[p][1]] = ShapeOf[p[1]]

BuildModel ==
  /\ pc = "load" /\ Loadable(opts.ckpt)
  /\ state' = Mapped(opts.ckpt)
  /\ Goto(IF opts.validate THEN "validate" ELSE "export")
  /\ UNCHANGED <<given, disk, opts, frames, fed, src, history>>

BuildFails ==
  /\ pc = "load" /\ ~Loadable(opts.ckpt)
  /\ UNCHANGED disk
  /\ Raise

(* What comparing an output with the reference may yield.                  *)
Comparison == [shape : BOOLEAN, corr : {"none", "negative", "some", "high"}]

TrunkRight(ckpt, s) ==
  ckpt.weights = Arm /\ \A p \in Params : p[1] \in Trunk => s[p] = p

(* The temporal output passes through the whole trunk: it agrees with the  *)
(* reference only if the trunk is the one the reference ran.               *)
Comparisons ==
  {r \in [{"kpn", "temporal"} -> Comparison] :
     r["temporal"].corr = "high" => TrunkRight(opts.ckpt, state)}

(* validate: above 0.99 for the temporal output, above 0 for the other.    *)
Bug_Passes(r) == r["kpn"].shape /\ r["kpn"].corr \in {"some", "high"}
Passes(r) ==
  /\ \A o \in {"kpn", "temporal"} : r[o].shape
  /\ r["temporal"].corr = "high"
  /\ r["kpn"].corr \in {"some", "high"}

HasReference == reference /\ scenario[RefDir] # NoTensor

Validated ==
  /\ pc = "validate" /\ HasReference
  /\ \E r \in Comparisons : Passes(r)
  /\ Goto("export")
  /\ UNCHANGED <<given, disk, local, history>>

(* A tensor is missing, or the comparison fails: nothing is exported.      *)
NotValidated ==
  /\ pc = "validate"
  /\ HasReference => \E r \in Comparisons : ~Passes(r)
  /\ UNCHANGED disk
  /\ Raise

(* torch.onnx.export opens --out and writes it in place.                   *)
Export ==
  /\ pc = "export"
  /\ fp32' = Torn
  /\ Goto("exporting")
  /\ UNCHANGED <<given, cache, prepared, int8, local, history>>

Exported ==
  /\ pc = "exporting"
  /\ fp32' = [ckpt |-> opts.ckpt, state |-> state, size |-> opts.size,
              validate |-> opts.validate]
  /\ UNCHANGED <<cache, prepared, int8, torn, stopped>>
  /\ Gone

-----------------------------------------------------------------------------
(* quantize_nss.py *)

StartQuantise ==
  /\ pc = "idle" /\ runs < MaxRuns
  /\ Goto("frames")
  /\ runs' = runs + 1
  /\ UNCHANGED <<given, disk, local, torn, stopped>>

(* load_frames: a tensor some earlier directory had is left out.           *)
Bug_NewFrame(t) == t # NoTensor
NewFrame(t) == t # NoTensor /\ t \notin Range(frames)

LoadFrame ==
  /\ pc = "frames" /\ i \in 1 .. Dirs
  /\ frames' = IF NewFrame(scenario[i]) THEN Append(frames, scenario[i])
                                        ELSE frames
  /\ i' = i + 1
  /\ UNCHANGED <<given, disk, pc, opts, state, fed, src, history>>

FramesLoaded ==
  /\ pc = "frames" /\ i > Dirs
  /\ frames # <<>>
  /\ Goto("preprocess")
  /\ UNCHANGED <<given, disk, local, history>>

NoFrames ==
  /\ pc = "frames" /\ i > Dirs
  /\ frames = <<>>
  /\ UNCHANGED disk
  /\ Raise

(* onnx.load takes the file apart; a torn one raises.                      *)
Readable == Whole(fp32)

(* qnn_preprocess_model writes its result only if it changed the graph.    *)
Changed ==
  /\ pc = "preprocess" /\ Readable
  /\ prepared' = Torn
  /\ Goto("preparing")
  /\ UNCHANGED <<given, cache, fp32, int8, local, history>>

Prepared ==
  /\ pc = "preparing"
  /\ prepared' = fp32
  /\ src' = "prepared"
  /\ Goto("calibrate")
  /\ UNCHANGED <<given, cache, fp32, int8, opts, state, frames, fed, history>>

Bug_UnchangedSource == IF Whole(prepared) THEN "prepared" ELSE "model"
UnchangedSource == "model"

Unchanged ==
  /\ pc = "preprocess" /\ Readable
  /\ src' = UnchangedSource
  /\ Goto("calibrate")
  /\ UNCHANGED <<given, disk, opts, state, frames, fed, history>>

(* --model is not there, or not a model.                                   *)
Unreadable ==
  /\ pc = "preprocess" /\ ~Readable
  /\ UNCHANGED disk
  /\ Raise

(* get_next hands out each frame once; the graph takes one size only.      *)
Fits == SizeOf[frames[i]] = fp32.size

Calibrate ==
  /\ pc = "calibrate" /\ i \in DOMAIN frames
  /\ Fits
  /\ fed' = Append(fed, frames[i])
  /\ i' = i + 1
  /\ UNCHANGED <<given, disk, pc, opts, state, frames, src, history>>

CalibrationFails ==
  /\ pc = "calibrate" /\ i \in DOMAIN frames
  /\ ~Fits
  /\ UNCHANGED disk
  /\ Raise

Quantise ==
  /\ pc = "calibrate" /\ i \notin DOMAIN frames
  /\ int8' = Torn
  /\ Goto("writing")
  /\ UNCHANGED <<given, cache, fp32, prepared, local, history>>

(* Whether and with what the result was compared is history, not content.  *)
Quantised ==
  /\ pc = "writing"
  /\ int8' = [from |-> IF src = "prepared" THEN prepared ELSE fp32,
              frames |-> fed, checked |-> FALSE]
  /\ Goto("check")
  /\ UNCHANGED <<given, cache, fp32, prepared, local, history>>

(* check, of the model first and of the result second, on the first frame. *)
(* Whatever the correlation is, it is printed and the run goes on.         *)
Bug_FirstFrame == frames[Len(frames)]
FirstFrame == frames[1]
Comparable == reference /\ SizeOf[FirstFrame] = SizeOf[RefInput]

Check ==
  /\ pc = "check" /\ Comparable
  /\ int8' = [int8 EXCEPT !.checked = (i = 2)]
  /\ IF i = 2 THEN Goto("cleanup") ELSE pc' = pc /\ i' = i + 1
  /\ UNCHANGED <<given, cache, fp32, prepared, local, history>>

(* No outputs in out_high, or outputs of another size.                     *)
CheckFails ==
  /\ pc = "check" /\ ~Comparable
  /\ UNCHANGED disk
  /\ Raise

Bug_AfterCleanup == IF src = "prepared" THEN NoFile ELSE prepared
AfterCleanup == NoFile

Cleanup ==
  /\ pc = "cleanup"
  /\ prepared' = AfterCleanup
  /\ stopped' = FALSE
  /\ UNCHANGED <<cache, fp32, int8, torn>>
  /\ Gone

-----------------------------------------------------------------------------

(* The user, or a full disk, ends the run.                                 *)
Kill ==
  /\ pc # "idle"
  /\ torn' = IF pc = "store" THEN torn \cup {i} ELSE torn
  /\ stopped' = (stopped \/ pc \in Quantising)
  /\ UNCHANGED disk
  /\ Gone

Next ==
  \/ StartExport \/ Cached \/ WriteEmpty \/ Download \/ Stored \/ DownloadFails
  \/ Fetched \/ Import \/ ImportFails \/ BuildModel \/ BuildFails
  \/ Validated \/ NotValidated \/ Export \/ Exported
  \/ StartQuantise \/ LoadFrame \/ FramesLoaded \/ NoFrames \/ Changed \/ Prepared
  \/ Unchanged \/ Unreadable \/ Calibrate \/ CalibrationFails \/ Quantise
  \/ Quantised \/ Check \/ CheckFails \/ Cleanup \/ Kill

Spec == Init /\ [][Next]_vars

-----------------------------------------------------------------------------
(* Properties *)

(* Every variable keeps its type: in particular a network has all of its   *)
(* parameters, and the one that is quantised is whole, whichever path it   *)
(* was read from.                                                          *)
TypeOK ==
  /\ scenario \in [1 .. Dirs -> Inputs \cup {NoTensor}]
  /\ reference \in BOOLEAN
  /\ cache \in [DOMAIN SOURCES -> {"absent", "part", "whole"}]
  /\ fp32 \in Model \cup {NoFile, Torn}
  /\ prepared \in Model \cup {NoFile, Torn}
  /\ int8 \in QuantisedModel \cup {NoFile, Torn}
  /\ pc \in {"idle"} \cup Exporting \cup Quantising
  /\ i \in Nat
  /\ opts \in Option /\ state \in State
  /\ frames \in Seq(Inputs) /\ fed \in Seq(Inputs)
  /\ src \in {"model", "prepared"}
  /\ runs \in Nat /\ torn \subseteq DOMAIN SOURCES /\ stopped \in BOOLEAN

(* The cache takes a file that exists for a good one, so a truncated file  *)
(* would break every later export.  Only a run killed while it writes      *)
(* leaves one: a download that fails or times out does not.                *)
TornOnlyByKill ==
  \A n \in DOMAIN SOURCES :
    cache[n] = "part" => n \in torn \/ (pc = "store" /\ n = i)

(* A parameter is given the tensor it was trained with, but for one case:  *)
(* a traced checkpoint that was run in another order than EXEC_ORDER, and  *)
(* exported without --validate.  Even then only tensors of one shape can   *)
(* have been exchanged.                                                    *)
ExchangedOnlyFor ==
  Whole(fp32) => \A p \in Params : fp32.state[p] # p =>
    /\ fp32.ckpt.traced /\ fp32.ckpt.trace # EXEC_ORDER /\ ~fp32.validate
    /\ ShapeOf[fp32.state[p][1]] = ShapeOf[p[1]]

(* What --validate lets through has the trunk the reference tensors were   *)
(* computed with, whatever was on disk before and however runs ended.      *)
ValidatedTrunk ==
  Whole(fp32) /\ fp32.validate => TrunkRight(fp32.ckpt, fp32.state)

(* The int8 network is made from the model the run was given, never from   *)
(* the intermediate file an earlier run left beside it.                    *)
QuantisedFromModel == pc \in {"check", "cleanup"} => int8.from = fp32

(* The calibration sees every tensor of the scenario, and each once, in    *)
(* however many directories it is.                                         *)
EveryFrameOnce ==
  Whole(int8) =>
    /\ Range(int8.frames) = Range(scenario) \ {NoTensor}
    /\ \A m, n \in DOMAIN int8.frames :
         int8.frames[m] = int8.frames[n] => m = n

(* The frame that is compared with the outputs in out_high is the one they *)
(* belong to, unless a directory before out_high has another one, or       *)
(* out_high has none.                                                      *)
WrongReferenceOnlyFor ==
  pc \in {"check", "cleanup"} =>
    \/ FirstFrame = RefInput
    \/ scenario[RefDir] = NoTensor
    \/ \E d \in 1 .. RefDir - 1 : scenario[d] \notin {NoTensor, RefInput}

(* Between two runs, an intermediate file, a torn network or one that was  *)
(* not compared means that the last run of the quantiser ended early.      *)
FinishedRunIsClean ==
  pc = "idle" /\ ~stopped =>
    /\ prepared = NoFile
    /\ int8 # NoFile => Whole(int8) /\ int8.checked

(* No network is on disk that was not compared with the reference.         *)
CheckedBeforeWritten == Whole(int8) => int8.checked
=============================================================================
