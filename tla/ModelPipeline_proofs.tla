------------------------ MODULE ModelPipeline_proofs ------------------------
(***************************************************************************)
(* Proofs about ModelPipeline, for any checkpoints, scenarios and sizes,   *)
(* and any number of runs, killed or failing anywhere.                     *)
(***************************************************************************)
EXTENDS ModelPipeline, TLAPS

-----------------------------------------------------------------------------
(* What build_model makes of a checkpoint *)

(* The table of execution order has every layer once.                      *)
LEMMA OrderOnce ==
  /\ DOMAIN EXEC_ORDER = 1 .. 14
  /\ \A n \in 1 .. 14 : EXEC_ORDER[n] \in Layers
  /\ \A l \in Layers : \E n \in 1 .. 14 : EXEC_ORDER[n] = l
  /\ \A m, n \in 1 .. 14 : EXEC_ORDER[m] = EXEC_ORDER[n] => m = n
<1>1. DOMAIN EXEC_ORDER = 1 .. 14
  BY DEF EXEC_ORDER
<1>2. ASSUME NEW l \in Layers PROVE \E n \in 1 .. 14 : EXEC_ORDER[n] = l
  BY DEF Layers, EXEC_ORDER
<1>3. ASSUME NEW n \in 1 .. 14 PROVE EXEC_ORDER[n] \in Layers
  BY DEF Layers, EXEC_ORDER
<1>4. ASSUME NEW m \in 1 .. 14, NEW n \in 1 .. 14, EXEC_ORDER[m] = EXEC_ORDER[n]
      PROVE  m = n
  BY <1>4 DEF EXEC_ORDER
<1>5. QED
  BY <1>1, <1>2, <1>3, <1>4

(* The two constants of the n-th layer of a trace.                         *)
LEMMA ConstantsOfLayer ==
  ASSUME NEW c, NEW n \in Nat \ {0}
  PROVE  /\ ParamConstant(c, 2 * (n - 1) + 0) = <<c.trace[n], "weight">>
         /\ ParamConstant(c, 2 * (n - 1) + 1) = <<c.trace[n], "bias">>
<1>1. /\ (2 * (n - 1) + 0) \div 2 + 1 = n /\ (2 * (n - 1) + 0) % 2 = 0
      /\ (2 * (n - 1) + 1) \div 2 + 1 = n /\ (2 * (n - 1) + 1) % 2 = 1
  OBVIOUS
<1>2. QED
  BY <1>1 DEF ParamConstant

(* From a traced checkpoint a parameter is given the tensor of the layer   *)
(* that ran where the table has its own.                                   *)
LEMMA MappedByTrace ==
  ASSUME NEW c, c.traced, NEW p \in Params, NEW n \in 1 .. 14, EXEC_ORDER[n] = p[1]
  PROVE  Mapped(c)[p] = <<c.trace[n], p[2]>>
<1> DEFINE k == CHOOSE k \in DOMAIN EXEC_ORDER : EXEC_ORDER[k] = p[1]
<1>1. k \in 1 .. 14 /\ EXEC_ORDER[k] = p[1]
  <2>1. \E j \in DOMAIN EXEC_ORDER : EXEC_ORDER[j] = p[1]
    BY OrderOnce
  <2>2. QED
    BY <2>1, OrderOnce
<1>2. k = n
  BY <1>1, OrderOnce
<1>a. /\ ParamConstant(c, 2 * (n - 1) + 0) = <<c.trace[n], "weight">>
      /\ ParamConstant(c, 2 * (n - 1) + 1) = <<c.trace[n], "bias">>
  <2>1. n \in Nat \ {0}
    OBVIOUS
  <2>2. QED
    BY <2>1, ConstantsOfLayer
<1>3. Mapped(c)[p] = ParamConstant(c, 2 * (k - 1) + (IF p[2] = "weight" THEN 0 ELSE 1))
  BY DEF Mapped
<1>4. p[2] \in {"weight", "bias"}
  BY DEF Params
<1> HIDE DEF k
<1>5. CASE p[2] = "weight"
  <2>1. Mapped(c)[p] = ParamConstant(c, 2 * (n - 1) + 0)
    BY <1>2, <1>3, <1>5
  <2>2. QED
    BY <1>5, <1>a, <2>1
<1>6. CASE p[2] = "bias"
  <2>1. Mapped(c)[p] = ParamConstant(c, 2 * (n - 1) + 1)
    BY <1>2, <1>3, <1>6
  <2>2. QED
    BY <1>6, <1>a, <2>1
<1>7. QED
  BY <1>4, <1>5, <1>6

(* A checkpoint by name that loads gives every parameter its own tensor.   *)
LEMMA LoadedByName ==
  ASSUME NEW c, Loadable(c), ~c.traced
  PROVE  Mapped(c) = [p \in Params |-> p]
<1>1. Mapped(c) = [p \in c.has |-> p]
  BY DEF Mapped
<1>2. DOMAIN Mapped(c) = Params
  BY DEF Loadable
<1>3. c.has = Params
  BY <1>1, <1>2
<1>4. QED
  BY <1>1, <1>3

LEMMA MappedTyped ==
  ASSUME NEW c \in Checkpoint, Loadable(c)
  PROVE  Mapped(c) \in State
<1>1. Mapped(c) = [p \in Params |-> Mapped(c)[p]]
  <2>1. CASE c.traced
    BY <2>1 DEF Mapped
  <2>2. CASE ~c.traced
    BY <2>2, LoadedByName
  <2>3. QED
    BY <2>1, <2>2
<1>2. ASSUME NEW p \in Params PROVE Mapped(c)[p] \in Params
  BY DEF Loadable, Checkpoint
<1>3. QED
  BY <1>1, <1>2 DEF State

(* The tensors of a checkpoint that loads are exchanged only if its trace  *)
(* disagrees with the table, and only within a shape.                      *)
LEMMA ExchangedByTrace ==
  ASSUME NEW c, Loadable(c), NEW p \in Params, Mapped(c)[p] # p
  PROVE  /\ c.traced /\ c.trace # EXEC_ORDER
         /\ ShapeOf[Mapped(c)[p][1]] = ShapeOf[p[1]]
<1>1. c.traced
  BY LoadedByName
<1>2. p[1] \in Layers /\ p = <<p[1], p[2]>>
  BY DEF Params
<1>3. PICK n \in 1 .. 14 : EXEC_ORDER[n] = p[1]
  BY <1>2, OrderOnce
<1>4. Mapped(c)[p] = <<c.trace[n], p[2]>>
  BY <1>1, <1>3, MappedByTrace
<1>5. c.trace # EXEC_ORDER
  BY <1>2, <1>3, <1>4
<1>6. QED
  BY <1>1, <1>5 DEF Loadable

(* If every layer of the trunk has its own tensors, so has the head: it is *)
(* the only layer left, and the only place left in the trace.              *)
LEMMA RightTrunkRightHead ==
  ASSUME NEW c, Loadable(c), Layers \subseteq Range(c.trace), DOMAIN c.trace = 1 .. 14,
         TrunkRight(c, Mapped(c))
  PROVE  Mapped(c) = [p \in Params |-> p]
<1>1. CASE ~c.traced
  BY <1>1, LoadedByName
<1>2. CASE c.traced
  <2>1. ASSUME NEW n \in 1 .. 14, EXEC_ORDER[n] \in Trunk
        PROVE  c.trace[n] = EXEC_ORDER[n]
    <3> DEFINE q == <<EXEC_ORDER[n], "weight">>
    <3>1. q \in Params /\ q[1] = EXEC_ORDER[n] /\ q[1] \in Trunk
      BY <2>1, OrderOnce DEF Params
    <3>2. Mapped(c)[q] = q
      BY <3>1 DEF TrunkRight
    <3>3. Mapped(c)[q] = <<c.trace[n], q[2]>>
      BY <1>2, <3>1, MappedByTrace
    <3>4. QED
      BY <3>2, <3>3
  <2>2. "kpn_params" \in Layers
    BY DEF Layers
  <2>3. PICK m \in 1 .. 14 : c.trace[m] = "kpn_params"
    BY <2>2 DEF Range
  <2>4. EXEC_ORDER[m] = "kpn_params"
    BY <2>1, <2>3, OrderOnce DEF Trunk
  <2>5. ASSUME NEW p \in Params PROVE Mapped(c)[p] = p
    <3>1. p[1] \in Layers /\ p = <<p[1], p[2]>>
      BY DEF Params
    <3>2. CASE p[1] \in Trunk
      BY <3>2 DEF TrunkRight
    <3>3. CASE p[1] = "kpn_params"
      <4>1. Mapped(c)[p] = <<c.trace[m], p[2]>>
        BY <1>2, <2>4, <3>3, MappedByTrace
      <4>2. QED
        BY <2>3, <3>1, <3>3, <4>1
    <3>4. QED
      BY <3>1, <3>2, <3>3 DEF Trunk
  <2>6. Mapped(c) = [p \in Params |-> Mapped(c)[p]]
    BY <1>2 DEF Mapped
  <2>7. QED
    BY <2>5, <2>6
<1>3. QED
  BY <1>1, <1>2

-----------------------------------------------------------------------------
(* Types, and where the quantiser's graph comes from *)

SourceInv ==
  /\ pc = "store" => i \in DOMAIN SOURCES
  /\ pc \in {"preparing", "calibrate", "writing", "check", "cleanup"} => fp32 \in Model
  /\ pc \in {"calibrate", "writing"} /\ src = "prepared" => prepared = fp32
  /\ pc \in {"check", "cleanup"} => int8 \in QuantisedModel /\ int8.from = fp32

LEMMA NoneTyped == NoOpts \in Option /\ NoState \in State /\ <<>> \in Seq(Inputs)
<1>1. \E c \in Checkpoints : TRUE
  BY PipelineAssumption
<1>2. \E s \in Sizes : TRUE
  BY PipelineAssumption
<1>3. QED
  BY <1>1, <1>2 DEF NoOpts, Option, NoState, State

LEMMA TypeInit == Init => TypeOK /\ SourceInv
<1> SUFFICES ASSUME Init PROVE TypeOK /\ SourceInv
  OBVIOUS
<1> USE NoneTyped DEF Init
<1>1. cache \in [DOMAIN SOURCES -> {"absent", "part", "whole"}]
  OBVIOUS
<1>2. /\ scenario \in [1 .. Dirs -> Inputs \cup {NoTensor}] /\ reference \in BOOLEAN
      /\ torn \subseteq DOMAIN SOURCES /\ stopped \in BOOLEAN
  OBVIOUS
<1>3. /\ fp32 \in {NoFile, Torn} /\ prepared \in {NoFile, Torn} /\ int8 \in {NoFile, Torn}
      /\ pc = "idle" /\ i \in Nat /\ runs \in Nat /\ src = "model"
      /\ opts \in Option /\ state \in State /\ frames \in Seq(Inputs) /\ fed \in Seq(Inputs)
  OBVIOUS
<1>4. QED
  BY <1>1, <1>2, <1>3 DEF TypeOK, SourceInv

LEMMA TypeStep ==
  ASSUME TypeOK, SourceInv, [Next]_vars
  PROVE  TypeOK' /\ SourceInv'
<1> USE NoneTyped
<1>1. CASE StartExport
  BY <1>1 DEF StartExport, Goto, Option, TypeOK, SourceInv, Exporting,
       Quantising, given, disk, local, history
<1>2. CASE Cached
  BY <1>2 DEF Cached, Fetching, TypeOK, SourceInv, Exporting, Quantising, given,
       disk, local, history
<1>3. CASE WriteEmpty
  BY <1>3 DEF WriteEmpty, Fetching, TypeOK, SourceInv, Exporting, Quantising,
       given, disk, local, history
<1>4. CASE Download
  BY <1>4 DEF Download, Fetching, TypeOK, SourceInv, Exporting, Quantising,
       given, disk, local, history
<1>5. CASE Stored
  BY <1>5 DEF Stored, TypeOK, SourceInv, Exporting, Quantising, given, disk,
       local, history
<1>6. CASE DownloadFails
  BY <1>6 DEF DownloadFails, Fetching, LeftInCache, Raise, Gone, TypeOK,
       SourceInv, Exporting, Quantising, given, disk, local, history
<1>7. CASE Fetched
  BY <1>7 DEF Fetched, Goto, TypeOK, SourceInv, Exporting, Quantising, given,
       disk, local, history
<1>8. CASE Import
  BY <1>8 DEF Import, Goto, TypeOK, SourceInv, Exporting, Quantising, given,
       disk, local, history
<1>9. CASE ImportFails
  BY <1>9 DEF ImportFails, Raise, Gone, TypeOK, SourceInv, Exporting,
       Quantising, given, disk, local, history
<1>10. CASE BuildModel
  <2>1. opts.ckpt \in Checkpoint
    BY PipelineAssumption DEF TypeOK, Option
  <2>2. Mapped(opts.ckpt) \in State
    BY <1>10, <2>1, MappedTyped DEF BuildModel
  <2>3. QED
    BY <1>10, <2>2 DEF BuildModel, Goto, TypeOK, SourceInv, Exporting,
         Quantising, given, disk, local, history
<1>11. CASE BuildFails
  BY <1>11 DEF BuildFails, Raise, Gone, TypeOK, SourceInv, Exporting,
       Quantising, given, disk, local, history
<1>12. CASE Validated
  BY <1>12 DEF Validated, Goto, TypeOK, SourceInv, Exporting, Quantising, given,
       disk, local, history
<1>13. CASE NotValidated
  BY <1>13 DEF NotValidated, Raise, Gone, TypeOK, SourceInv, Exporting,
       Quantising, given, disk, local, history
<1>14. CASE Export
  BY <1>14 DEF Export, Goto, TypeOK, SourceInv, Exporting, Quantising, given,
       disk, local, history
<1>15. CASE Exported
  BY <1>15 DEF Exported, Gone, Model, Option, TypeOK, SourceInv, Exporting,
       Quantising, given, disk, local, history
<1>16. CASE StartQuantise
  BY <1>16 DEF StartQuantise, Goto, TypeOK, SourceInv, Exporting, Quantising,
       given, disk, local, history
<1>17. CASE LoadFrame
  BY <1>17 DEF LoadFrame, NewFrame, TypeOK, SourceInv, Exporting, Quantising,
       given, disk, local, history
<1>18. CASE FramesLoaded
  BY <1>18 DEF FramesLoaded, Goto, TypeOK, SourceInv, Exporting, Quantising,
       given, disk, local, history
<1>19. CASE NoFrames
  BY <1>19 DEF NoFrames, Raise, Gone, TypeOK, SourceInv, Exporting, Quantising,
       given, disk, local, history
<1>20. CASE Changed
  BY <1>20 DEF Changed, Readable, Goto, Whole, TypeOK, SourceInv, Exporting,
       Quantising, given, disk, local, history
<1>21. CASE Prepared
  BY <1>21 DEF Prepared, Goto, TypeOK, SourceInv, Exporting, Quantising, given,
       disk, local, history
<1>22. CASE Unchanged
  BY <1>22 DEF Unchanged, Readable, UnchangedSource, Goto, Whole, TypeOK,
       SourceInv, Exporting, Quantising, given, disk, local, history
<1>23. CASE Unreadable
  BY <1>23 DEF Unreadable, Raise, Gone, TypeOK, SourceInv, Exporting,
       Quantising, given, disk, local, history
<1>24. CASE Calibrate
  BY <1>24 DEF Calibrate, TypeOK, SourceInv, Exporting, Quantising, given, disk,
       local, history
<1>25. CASE CalibrationFails
  BY <1>25 DEF CalibrationFails, Raise, Gone, TypeOK, SourceInv, Exporting,
       Quantising, given, disk, local, history
<1>26. CASE Quantise
  BY <1>26 DEF Quantise, Goto, TypeOK, SourceInv, Exporting, Quantising, given,
       disk, local, history
<1>27. CASE Quantised
  BY <1>27 DEF Quantised, Goto, QuantisedModel, TypeOK, SourceInv, Exporting,
       Quantising, given, disk, local, history
<1>28. CASE Check
  <2>1. int8 \in [from : Model, frames : Seq(Inputs), checked : BOOLEAN] /\ int8.from = fp32
    BY <1>28 DEF Check, SourceInv, QuantisedModel
  <2>2. (i = 2) \in BOOLEAN
    OBVIOUS
  <2> DEFINE checked == i = 2
  <2>3. int8' = [int8 EXCEPT !.checked = checked]
    BY <1>28 DEF Check
  <2> HIDE DEF checked
  <2>4. int8' \in QuantisedModel /\ int8'.from = fp32
    BY <2>1, <2>2, <2>3 DEF QuantisedModel, checked
  <2>5. QED
    BY <1>28, <2>4 DEF Check, Goto, TypeOK, SourceInv, Exporting, Quantising,
         given, disk, local, history
<1>29. CASE CheckFails
  BY <1>29 DEF CheckFails, Raise, Gone, TypeOK, SourceInv, Exporting,
       Quantising, given, disk, local, history
<1>30. CASE Cleanup
  BY <1>30 DEF Cleanup, AfterCleanup, Gone, TypeOK, SourceInv, Exporting,
       Quantising, given, disk, local, history
<1>31. CASE Kill
  BY <1>31 DEF Kill, Gone, TypeOK, SourceInv, Exporting, Quantising, given,
       disk, local, history
<1>32. CASE UNCHANGED vars
  BY <1>32 DEF vars, TypeOK, SourceInv, Exporting, Quantising, given, disk,
       local, history
<1>33. QED
  BY <1>1, <1>2, <1>3, <1>4, <1>5, <1>6, <1>7, <1>8, <1>9, <1>10, <1>11, <1>12,
       <1>13, <1>14, <1>15, <1>16, <1>17, <1>18, <1>19, <1>20, <1>21, <1>22,
       <1>23, <1>24, <1>25, <1>26, <1>27, <1>28, <1>29, <1>30, <1>31, <1>32 DEF
       Next

(* Types hold, and the network that is quantised is always a whole one,    *)
(* for any checkpoints and scenarios, however often runs are killed.       *)
THEOREM TypeCorrect == Spec => []TypeOK
<1> QED
  BY TypeInit, TypeStep, PTL DEF Spec

(* quantize_nss.py makes the int8 network from --model and never from what *)
(* an earlier run left at the path of its intermediate file.               *)
THEOREM QuantisesTheModel == Spec => []QuantisedFromModel
<1>1. SourceInv => QuantisedFromModel
  BY DEF SourceInv, QuantisedFromModel
<1>2. QED
  BY <1>1, TypeInit, TypeStep, PTL DEF Spec

-----------------------------------------------------------------------------
(* What an export leaves behind *)

LEMMA TornStep ==
  ASSUME TypeOK, SourceInv, TornOnlyByKill, [Next]_vars
  PROVE  TornOnlyByKill'
<1>1. CASE WriteEmpty
  BY <1>1 DEF WriteEmpty, Fetching, TypeOK, SourceInv, TornOnlyByKill,
       Exporting, Quantising, given, disk, local, history
<1>2. CASE Download
  BY <1>2 DEF Download, Fetching, TypeOK, SourceInv, TornOnlyByKill, Exporting,
       Quantising, given, disk, local, history
<1>3. CASE Stored
  BY <1>3 DEF Stored, TypeOK, SourceInv, TornOnlyByKill, Exporting, Quantising,
       given, disk, local, history
<1>4. CASE DownloadFails
  BY <1>4 DEF DownloadFails, Fetching, LeftInCache, Raise, Gone, TypeOK,
       SourceInv, TornOnlyByKill, Exporting, Quantising, given, disk, local,
       history
<1>5. CASE Kill
  BY <1>5 DEF Kill, Gone, TypeOK, SourceInv, TornOnlyByKill, Exporting,
       Quantising, given, disk, local, history
<1>6. CASE StartExport \/ Cached \/ Fetched \/ Import \/ ImportFails
     \/ BuildModel \/ BuildFails \/ Validated \/ NotValidated \/ Export
     \/ Exported
  BY <1>6 DEF StartExport, Goto, Cached, Fetching, Fetched, Import, ImportFails,
       Raise, Gone, BuildModel, BuildFails, Validated, NotValidated, Export,
       Exported, TypeOK, SourceInv, TornOnlyByKill, Exporting, Quantising,
       given, disk, local, history
<1>7. CASE StartQuantise \/ LoadFrame \/ FramesLoaded \/ NoFrames \/ Changed
     \/ Prepared \/ Unchanged \/ Unreadable \/ Calibrate \/ CalibrationFails
     \/ Quantise \/ Quantised \/ Check \/ CheckFails \/ Cleanup
  BY <1>7 DEF StartQuantise, Goto, LoadFrame, FramesLoaded, NoFrames, Raise,
       Gone, Changed, Readable, Prepared, Unchanged, UnchangedSource,
       Unreadable, Calibrate, CalibrationFails, Quantise, Quantised, Check,
       CheckFails, Cleanup, AfterCleanup, TypeOK, SourceInv, TornOnlyByKill,
       Exporting, Quantising, given, disk, local, history
<1>8. CASE UNCHANGED vars
  BY <1>8 DEF vars, TypeOK, SourceInv, TornOnlyByKill, Exporting, Quantising,
       given, disk, local, history
<1>9. QED
  BY <1>1, <1>2, <1>3, <1>4, <1>5, <1>6, <1>7, <1>8 DEF Next

(* The download cache: whatever fails, whichever exception ends the tool,  *)
(* a truncated source is there only after a kill inside its write.         *)
THEOREM CacheTornOnlyByKill == Spec => []TornOnlyByKill
<1>1. Init => TornOnlyByKill
  BY DEF Init, TornOnlyByKill
<1>2. QED
  BY <1>1, TypeInit, TypeStep, TornStep, PTL DEF Spec

(* The state of an export under way, and the file of a finished one.       *)
ExportInv ==
  /\ pc \in {"validate", "export", "exporting"} =>
       Loadable(opts.ckpt) /\ state = Mapped(opts.ckpt)
  /\ pc \in {"export", "exporting"} /\ opts.validate => TrunkRight(opts.ckpt, state)
  /\ Whole(fp32) => Loadable(fp32.ckpt) /\ fp32.state = Mapped(fp32.ckpt)
  /\ ValidatedTrunk

LEMMA ExportStep ==
  ASSUME TypeOK, ExportInv, [Next]_vars
  PROVE  ExportInv'
<1>1. CASE BuildModel
  <2>1. Loadable(opts.ckpt) /\ state' = Mapped(opts.ckpt) /\ opts' = opts
    BY <1>1 DEF BuildModel
  <2>2. pc' = IF opts.validate THEN "validate" ELSE "export"
    BY <1>1 DEF BuildModel, Goto
  <2>3. QED
    BY <1>1, <2>1, <2>2 DEF BuildModel, ExportInv, ValidatedTrunk, Whole, disk
<1>2. CASE Validated
  <2>1. TrunkRight(opts.ckpt, state)
    BY <1>2 DEF Validated, Comparisons, Passes
  <2>2. QED
    BY <1>2, <2>1 DEF Validated, Goto, ExportInv, ValidatedTrunk, Whole, disk,
         local
<1>3. CASE Export
  BY <1>3 DEF Export, Goto, ExportInv, ValidatedTrunk, Whole, disk, local
<1>4. CASE Exported
  BY <1>4 DEF Exported, Gone, ExportInv, ValidatedTrunk, Whole
<1>5. CASE StartExport \/ Cached \/ WriteEmpty \/ Download \/ Stored
     \/ DownloadFails \/ Fetched \/ Import \/ ImportFails \/ BuildFails
     \/ NotValidated
  BY <1>5 DEF StartExport, Goto, Cached, Fetching, WriteEmpty, Download, Stored,
       DownloadFails, LeftInCache, Raise, Gone, Fetched, Import, ImportFails,
       BuildFails, NotValidated, ExportInv, ValidatedTrunk, Whole, given, disk,
       local, history
<1>6. CASE StartQuantise \/ LoadFrame \/ FramesLoaded \/ NoFrames \/ Changed
     \/ Prepared \/ Unchanged \/ Unreadable \/ Calibrate \/ CalibrationFails
     \/ Quantise \/ Quantised \/ Check \/ CheckFails \/ Cleanup \/ Kill
  BY <1>6 DEF StartQuantise, Goto, LoadFrame, FramesLoaded, NoFrames, Raise,
       Gone, Changed, Readable, Prepared, Unchanged, UnchangedSource,
       Unreadable, Calibrate, CalibrationFails, Quantise, Quantised, Check,
       CheckFails, Cleanup, AfterCleanup, Kill, ExportInv, ValidatedTrunk,
       Whole, given, disk, local, history
<1>7. CASE UNCHANGED vars
  BY <1>7 DEF vars, ExportInv, ValidatedTrunk, Whole, given, disk, local,
       history
<1>8. QED
  BY <1>1, <1>2, <1>3, <1>4, <1>5, <1>6, <1>7 DEF Next

LEMMA ExportSafe == Spec => []ExportInv
<1>1. Init => ExportInv
  BY DEF Init, ExportInv, ValidatedTrunk, Whole
<1>2. QED
  BY <1>1, TypeInit, TypeStep, ExportStep, PTL DEF Spec

(* build_model and validate: tensors are exchanged only in an export that  *)
(* was not validated, of a checkpoint whose trace disagrees with the table,*)
(* and only within a shape.                                                *)
THEOREM ExchangedForNothingElse == Spec => []ExchangedOnlyFor
<1>1. TypeOK /\ ExportInv => ExchangedOnlyFor
  <2> SUFFICES ASSUME TypeOK, ExportInv, Whole(fp32), NEW p \in Params,
                      fp32.state[p] # p
               PROVE  /\ fp32.ckpt.traced /\ fp32.ckpt.trace # EXEC_ORDER
                      /\ ~fp32.validate
                      /\ ShapeOf[fp32.state[p][1]] = ShapeOf[p[1]]
    BY DEF ExchangedOnlyFor
  <2>1. fp32.ckpt \in Checkpoints
    BY DEF TypeOK, Model, Whole
  <2>2. Loadable(fp32.ckpt) /\ fp32.state = Mapped(fp32.ckpt)
    BY DEF ExportInv
  <2>3. /\ Layers \subseteq Range(fp32.ckpt.trace)
        /\ DOMAIN fp32.ckpt.trace = 1 .. 14
    BY <2>1, PipelineAssumption, OrderOnce DEF Checkpoint
  <2>4. ~fp32.validate
    <3>1. fp32.validate => TrunkRight(fp32.ckpt, Mapped(fp32.ckpt))
      BY <2>2 DEF ExportInv, ValidatedTrunk
    <3>2. QED
      BY <2>2, <2>3, <3>1, RightTrunkRightHead
  <2>5. QED
    BY <2>2, <2>4, ExchangedByTrace
<1>2. Init => ExportInv
  BY DEF Init, ExportInv, ValidatedTrunk, Whole
<1>3. QED
  BY <1>1, <1>2, TypeInit, TypeStep, ExportStep, PTL DEF Spec

(* validate: what an export with --validate leaves on disk has the trunk   *)
(* the reference tensors were computed with.                               *)
THEOREM ValidationHolds == Spec => []ValidatedTrunk
<1>1. ExportInv => ValidatedTrunk
  BY DEF ExportInv
<1>2. QED
  BY <1>1, ExportSafe, PTL

-----------------------------------------------------------------------------
(* What a run of the quantiser leaves behind *)

CleanInv ==
  /\ pc = "cleanup" => Whole(int8) /\ int8.checked
  /\ pc \notin Quantising /\ ~stopped =>
       prepared = NoFile /\ (int8 # NoFile => Whole(int8) /\ int8.checked)

LEMMA CleanStep ==
  ASSUME TypeOK, SourceInv, CleanInv, [Next]_vars
  PROVE  CleanInv'
<1>1. CASE Check
  <2>1. int8 \in QuantisedModel /\ fp32 \in Model
    BY <1>1 DEF Check, SourceInv
  <2>2. int8' = [int8 EXCEPT !.checked = (i = 2)]
    BY <1>1 DEF Check
  <2>3. int8' \in QuantisedModel /\ (i = 2 => int8'.checked)
    BY <2>1, <2>2 DEF QuantisedModel
  <2>4. Whole(int8')
    BY <2>3, PipelineAssumption DEF Whole
  <2>5. pc' \in {"check", "cleanup"} /\ (pc' = "cleanup" => i = 2)
    BY <1>1 DEF Check, Goto
  <2>6. QED
    BY <2>3, <2>4, <2>5 DEF CleanInv, Quantising, Whole
<1>2. CASE Cleanup
  BY <1>2 DEF Cleanup, AfterCleanup, Gone, CleanInv, Whole
<1>3. CASE Kill
  BY <1>3 DEF Kill, Gone, CleanInv, Quantising, Whole, given, disk, local,
       history
<1>4. CASE StartExport \/ Cached \/ WriteEmpty \/ Download \/ Stored
     \/ DownloadFails \/ Fetched \/ Import \/ ImportFails \/ BuildModel
     \/ BuildFails \/ Validated \/ NotValidated \/ Export \/ Exported
  BY <1>4 DEF StartExport, Goto, Cached, Fetching, WriteEmpty, Download, Stored,
       DownloadFails, LeftInCache, Raise, Gone, Fetched, Import, ImportFails,
       BuildModel, BuildFails, Validated, NotValidated, Export, Exported,
       CleanInv, Quantising, Whole, given, disk, local, history
<1>5. CASE StartQuantise \/ LoadFrame \/ FramesLoaded \/ NoFrames \/ Changed
     \/ Prepared \/ Unchanged \/ Unreadable \/ Calibrate \/ CalibrationFails
     \/ Quantise \/ Quantised \/ CheckFails
  BY <1>5 DEF StartQuantise, Goto, LoadFrame, FramesLoaded, NoFrames, Raise,
       Gone, Changed, Readable, Prepared, Unchanged, UnchangedSource,
       Unreadable, Calibrate, CalibrationFails, Quantise, Quantised, CheckFails,
       CleanInv, Quantising, Whole, given, disk, local, history
<1>6. CASE UNCHANGED vars
  BY <1>6 DEF vars, CleanInv, Quantising, Whole, given, disk, local, history
<1>7. QED
  BY <1>1, <1>2, <1>3, <1>4, <1>5, <1>6 DEF Next

(* quantize_nss.py: after a run that was not cut short there is no         *)
(* intermediate file, and the network was compared with the reference.     *)
THEOREM FinishedIsClean == Spec => []FinishedRunIsClean
<1>1. Init => CleanInv
  BY DEF Init, CleanInv
<1>2. CleanInv => FinishedRunIsClean
  BY DEF CleanInv, FinishedRunIsClean, Quantising
<1>3. QED
  BY <1>1, <1>2, TypeInit, TypeStep, CleanStep, PTL DEF Spec

-----------------------------------------------------------------------------
(* The calibration frames *)

(* No two frames are the same tensor.                                      *)
Distinct(s) == \A m, n \in DOMAIN s : s[m] = s[n] => m = n

(* The tensors of the first k directories.                                 *)
TensorsOf(sc, k) == {sc[d] : d \in 1 .. k} \ {NoTensor}

(* The first tensor of the first k directories, if there is one.           *)
FirstOf(sc, k, s) ==
  IF s = <<>> THEN \A d \in 1 .. k : sc[d] = NoTensor
              ELSE \E d \in 1 .. k : /\ s[1] = sc[d]
                                     /\ \A e \in 1 .. d - 1 : sc[e] = NoTensor

AllFrames(sc, s) == Range(s) = TensorsOf(sc, Dirs) /\ Distinct(s)

AfterFrames == Quantising \ {"frames"}

FramesInv ==
  /\ scenario[RefDir] \in {RefInput, NoTensor}
  /\ pc \notin Quantising => frames = <<>> /\ fed = <<>>
  /\ pc = "frames" => /\ i \in 1 .. Dirs + 1 /\ fed = <<>>
                      /\ Range(frames) = TensorsOf(scenario, i - 1) /\ Distinct(frames)
                      /\ FirstOf(scenario, i - 1, frames)
  /\ pc \in AfterFrames => /\ AllFrames(scenario, frames) /\ frames # <<>>
                           /\ FirstOf(scenario, Dirs, frames)
  /\ pc \in {"preprocess", "preparing"} => fed = <<>>
  /\ pc = "calibrate" => /\ i \in 1 .. Len(frames) + 1 /\ Len(fed) = i - 1
                         /\ \A n \in 1 .. i - 1 : fed[n] = frames[n]
  /\ pc = "writing" => fed = frames
  /\ Whole(int8) => AllFrames(scenario, int8.frames)

(* One more directory: its tensor is added unless it is there already.     *)
LEMMA OneMoreFrame ==
  ASSUME TypeOK, FramesInv, LoadFrame
  PROVE  /\ Range(frames') = TensorsOf(scenario, i)
         /\ Distinct(frames') /\ FirstOf(scenario, i, frames')
<1>1. /\ i \in 1 .. Dirs /\ frames \in Seq(Inputs) /\ Distinct(frames)
      /\ Range(frames) = TensorsOf(scenario, i - 1) /\ FirstOf(scenario, i - 1, frames)
      /\ scenario \in [1 .. Dirs -> Inputs \cup {NoTensor}]
  BY DEF LoadFrame, TypeOK, FramesInv
<1>2. TensorsOf(scenario, i) = TensorsOf(scenario, i - 1) \cup ({scenario[i]} \ {NoTensor})
  BY <1>1, PipelineAssumption DEF TensorsOf
<1>3. CASE ~NewFrame(scenario[i])
  <2>1. frames' = frames
    BY <1>3 DEF LoadFrame
  <2>2. scenario[i] \in Range(frames) \cup {NoTensor}
    BY <1>3 DEF NewFrame
  <2>3. FirstOf(scenario, i, frames)
    <3>1. CASE frames = <<>>
      <4>1. Range(frames) = {}
        BY <3>1 DEF Range
      <4>2. scenario[i] = NoTensor
        BY <4>1, <2>2
      <4>3. QED
        BY <1>1, <3>1, <4>2, PipelineAssumption DEF FirstOf
    <3>2. CASE frames # <<>>
      BY <1>1, <3>2, PipelineAssumption DEF FirstOf
    <3>3. QED
      BY <3>1, <3>2
  <2>4. QED
    BY <1>1, <1>2, <2>1, <2>2, <2>3
<1>4. CASE NewFrame(scenario[i])
  <2>1. /\ frames' = Append(frames, scenario[i]) /\ scenario[i] \in Inputs
        /\ scenario[i] # NoTensor /\ scenario[i] \notin Range(frames)
    BY <1>1, <1>4 DEF LoadFrame, NewFrame
  <2>2. /\ DOMAIN frames' = 1 .. Len(frames) + 1 /\ Len(frames) \in Nat
        /\ \A n \in 1 .. Len(frames) : frames'[n] = frames[n] /\ frames[n] \in Range(frames)
        /\ frames'[Len(frames) + 1] = scenario[i]
    BY <1>1, <2>1 DEF Range
  <2>3. Range(frames') = Range(frames) \cup {scenario[i]}
    BY <1>1, <2>2 DEF Range
  <2>4. Distinct(frames')
    BY <1>1, <2>1, <2>2 DEF Distinct
  <2>5. FirstOf(scenario, i, frames')
    <3>1. frames' # <<>>
      BY <2>2
    <3>2. CASE frames = <<>>
      <4>1. frames'[1] = scenario[i]
        BY <2>2, <3>2
      <4>2. \A e \in 1 .. i - 1 : scenario[e] = NoTensor
        BY <1>1, <3>2 DEF FirstOf
      <4>3. QED
        BY <1>1, <3>1, <4>1, <4>2 DEF FirstOf
    <3>3. CASE frames # <<>>
      <4>1. frames'[1] = frames[1]
        BY <1>1, <2>2, <3>3
      <4>2. PICK d \in 1 .. i - 1 : /\ frames[1] = scenario[d]
                                    /\ \A e \in 1 .. d - 1 : scenario[e] = NoTensor
        BY <1>1, <3>3 DEF FirstOf
      <4>3. d \in 1 .. i
        BY <1>1, PipelineAssumption
      <4>4. QED
        BY <3>1, <4>1, <4>2, <4>3 DEF FirstOf
    <3>4. QED
      BY <3>2, <3>3
  <2>6. QED
    BY <1>1, <1>2, <2>1, <2>3, <2>4, <2>5
<1>5. QED
  BY <1>3, <1>4

LEMMA FramesStep ==
  ASSUME TypeOK, SourceInv, FramesInv, [Next]_vars
  PROVE  FramesInv'
<1>1. CASE LoadFrame
  <2>1. /\ Range(frames') = TensorsOf(scenario, i)
        /\ Distinct(frames') /\ FirstOf(scenario, i, frames')
    BY <1>1, OneMoreFrame
  <2>2. pc' = "frames" /\ i' = i + 1 /\ i \in 1 .. Dirs /\ Dirs \in Nat
    BY <1>1, PipelineAssumption DEF LoadFrame
  <2>3. i' - 1 = i /\ i' \in 1 .. Dirs + 1
    BY <2>2
  <2>4. QED
    BY <1>1, <2>1, <2>2, <2>3 DEF LoadFrame, FramesInv, AfterFrames, Quantising,
         Whole, given, disk, history
<1>2. CASE FramesLoaded
  <2>1. i = Dirs + 1 /\ i - 1 = Dirs
    BY <1>2, PipelineAssumption DEF FramesLoaded, FramesInv
  <2>2. QED
    BY <1>2, <2>1 DEF FramesLoaded, Goto, FramesInv, AfterFrames, AllFrames,
         Quantising, Whole, given, disk, local, history
<1>3. CASE Calibrate
  <2>1. /\ fed \in Seq(Inputs) /\ frames \in Seq(Inputs) /\ Len(fed) = i - 1
        /\ i \in 1 .. Len(frames) /\ fed' = Append(fed, frames[i]) /\ i' = i + 1
        /\ \A n \in 1 .. i - 1 : fed[n] = frames[n]
    BY <1>3 DEF Calibrate, FramesInv, TypeOK
  <2>2. /\ i' \in 1 .. Len(frames) + 1 /\ Len(fed') = i' - 1
        /\ \A n \in 1 .. i' - 1 : fed'[n] = frames[n]
    BY <2>1
  <2>3. QED
    BY <1>3, <2>2 DEF Calibrate, FramesInv, AfterFrames, Quantising, Whole,
         given, disk, history
<1>4. CASE Quantise
  <2>1. /\ fed \in Seq(Inputs) /\ frames \in Seq(Inputs) /\ Len(fed) = Len(frames)
        /\ \A n \in 1 .. Len(frames) : fed[n] = frames[n]
    BY <1>4 DEF Quantise, FramesInv, TypeOK
  <2>2. fed = frames
    BY <2>1
  <2>3. QED
    BY <1>4, <2>2 DEF Quantise, Goto, FramesInv, AfterFrames, Quantising, Whole,
         given, disk, local, history
<1>5. CASE Quantised
  <2>1. fed = frames /\ int8'.frames = fed
    BY <1>5 DEF Quantised, FramesInv
  <2>2. QED
    BY <1>5, <2>1 DEF Quantised, Goto, FramesInv, AfterFrames, Quantising,
         Whole, given, disk, local, history
<1>6. CASE Check
  <2>1. int8 \in QuantisedModel /\ Whole(int8)
    BY <1>6, PipelineAssumption DEF Check, SourceInv, Whole
  <2>2. int8'.frames = int8.frames
    BY <1>6, <2>1 DEF Check, QuantisedModel
  <2>3. QED
    BY <1>6, <2>1, <2>2 DEF Check, Goto, FramesInv, AfterFrames, Quantising,
         given, disk, local, history
<1>7. CASE StartQuantise
  <2>1. /\ Range(<<>>) = TensorsOf(scenario, 0)
        /\ Distinct(<<>>) /\ FirstOf(scenario, 0, <<>>)
    BY DEF Range, TensorsOf, Distinct, FirstOf
  <2>2. frames = <<>> /\ fed = <<>> /\ pc' = "frames" /\ i' = 1 /\ i' \in 1 .. Dirs + 1
        /\ i' - 1 = 0
    BY <1>7, PipelineAssumption DEF StartQuantise, Goto, FramesInv, Quantising
  <2>3. QED
    BY <1>7, <2>1, <2>2 DEF StartQuantise, FramesInv, AfterFrames, Quantising,
         Whole, given, disk, local
<1>8. CASE Unchanged \/ Prepared
  BY <1>8 DEF Unchanged, Readable, UnchangedSource, Prepared, Goto, FramesInv,
       AfterFrames, Quantising, Whole, given, disk, history
<1>9. CASE StartExport \/ Cached \/ WriteEmpty \/ Download \/ Stored
     \/ DownloadFails \/ Fetched \/ Import \/ ImportFails \/ BuildFails
     \/ NotValidated \/ BuildModel \/ Validated \/ Export \/ Exported \/ Kill
  BY <1>9 DEF StartExport, Goto, Cached, Fetching, WriteEmpty, Download, Stored,
       DownloadFails, LeftInCache, Raise, Gone, Fetched, Import, ImportFails,
       BuildFails, NotValidated, BuildModel, Validated, Export, Exported, Kill,
       FramesInv, AfterFrames, Quantising, Whole, given, disk, local, history
<1>10. CASE NoFrames \/ Changed \/ Unreadable \/ CalibrationFails \/ CheckFails
     \/ Cleanup
  BY <1>10 DEF NoFrames, Raise, Gone, Changed, Readable, Goto, Unreadable,
       CalibrationFails, CheckFails, Cleanup, AfterCleanup, FramesInv,
       AfterFrames, Quantising, Whole, given, disk, local, history
<1>11. CASE UNCHANGED vars
  BY <1>11 DEF vars, FramesInv, AfterFrames, Quantising, Whole, given, disk,
       local, history
<1>12. QED
  BY <1>1, <1>2, <1>3, <1>4, <1>5, <1>6, <1>7, <1>8, <1>9, <1>10, <1>11 DEF Next

LEMMA FramesSafe == Spec => []FramesInv
<1>1. Init => FramesInv
  BY DEF Init, FramesInv, AfterFrames, Quantising, Whole
<1>2. QED
  BY <1>1, TypeInit, TypeStep, FramesStep, PTL DEF Spec

(* load_frames and FrameReader: whatever directories the scenario has, the *)
(* calibration sees each of its tensors, and each once.                    *)
THEOREM CalibratesOnEveryFrame == Spec => []EveryFrameOnce
<1>1. ASSUME TypeOK, FramesInv PROVE EveryFrameOnce
  <2>1. TensorsOf(scenario, Dirs) = Range(scenario) \ {NoTensor}
    BY <1>1 DEF TypeOK, TensorsOf, Range
  <2>2. QED
    BY <1>1, <2>1 DEF FramesInv, AllFrames, Distinct, EveryFrameOnce
<1>2. QED
  BY <1>1, TypeInit, TypeStep, FramesSafe, PTL DEF Spec

(* check: the first frame is the one the reference outputs belong to, but  *)
(* for the two shapes of scenario the property names.                      *)
THEOREM ComparesItsReference == Spec => []WrongReferenceOnlyFor
<1>1. ASSUME TypeOK, FramesInv PROVE WrongReferenceOnlyFor
  <2> SUFFICES ASSUME pc \in {"check", "cleanup"}, scenario[RefDir] # NoTensor,
                      FirstFrame # RefInput
               PROVE  \E d \in 1 .. RefDir - 1 : scenario[d] \notin {NoTensor, RefInput}
    BY DEF WrongReferenceOnlyFor
  <2>1. frames # <<>> /\ FirstOf(scenario, Dirs, frames) /\ scenario[RefDir] = RefInput
    BY <1>1 DEF FramesInv, AfterFrames, Quantising
  <2>2. PICK d \in 1 .. Dirs : /\ frames[1] = scenario[d]
                               /\ \A e \in 1 .. d - 1 : scenario[e] = NoTensor
    BY <2>1 DEF FirstOf
  <2>3. frames[1] \in Inputs /\ frames[1] # NoTensor
    BY <1>1, <2>1, PipelineAssumption DEF TypeOK
  <2>4. d # RefDir
    BY <2>1, <2>2 DEF FirstFrame
  <2>5. ~ (RefDir < d)
    BY <2>2, PipelineAssumption
  <2>6. d \in 1 .. RefDir - 1
    BY <2>2, <2>4, <2>5, PipelineAssumption
  <2>7. QED
    BY <2>2, <2>3, <2>6 DEF FirstFrame
<1>2. QED
  BY <1>1, TypeInit, TypeStep, FramesSafe, PTL DEF Spec
=============================================================================
