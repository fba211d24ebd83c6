----------------------------- MODULE GraphTools -----------------------------
(***************************************************************************)
(* The tools that rewrite a graph: tools/prepare_model.py,                 *)
(* tools/prepare_style.py, tools/strip_io_quant.py, tools/nhwc_io.py.      *)
(* Each loads a file, changes the graph in memory step by step, has it     *)
(* checked and saves it in place.  They are run by hand, one at a time, in *)
(* any order and on any file, and may be killed anywhere.                  *)
(***************************************************************************)
EXTENDS OnnxGraph, FiniteSets

CONSTANTS
  Sources, (* The graphs that come from elsewhere.                         *)
  Paths,   (* Where files are.                                             *)
  First,   (* Where the graph from elsewhere is.                           *)
  Heights, (* What --height of prepare_style may be.                       *)
  Widths,  (* What its --width may be.                                     *)
  Batch,   (* --batch of prepare_model.                                    *)
  Rounds,  (* Rounds of the freezing and of the pruning loop; the code: 8. *)
  NoFile, Torn,
  MaxRuns  (* Bound on the number of runs.                                 *)

TARGET_OPSET == 13
Tools == {"prepare_model", "prepare_style", "strip_io_quant", "nhwc_io"}

ASSUME GraphToolsAssumption ==
  /\ {"_nhwc", "_scales"} \subseteq Words
  /\ First \in Paths
  /\ Heights \subseteq Nat \ {0} /\ Widths \subseteq Nat \ {0}
  /\ Batch \in Nat \ {0}
  /\ Rounds \in Nat \ {0} /\ MaxRuns \in Nat
  /\ NoFile # Torn

VARIABLES
  files, (* Per path, what is there.                                       *)
  pc,    (* Where the run is, "idle" between two runs.                     *)
  job,   (* Which tool, from where, to where, for which size.              *)
  model, (* The graph in memory.                                           *)
  k,     (* The round, or the output, of the loop under way.               *)
  new,   (* `replacements`, and the Transposes of nhwc_io.                 *)
  was,   (* The graph as it was loaded.                                    *)
  runs   (* How many runs there were.                                      *)

vars == <<files, pc, job, model, k, new, was, runs>>

Whole(file) == file \notin {NoFile, Torn}

NoGraph == [nodes |-> <<>>, ins |-> <<>>, outs |-> <<>>, inits |-> <<>>, opset |-> 0]
NoJob == [tool |-> "none", src |-> First, dst |-> First, height |-> 0, width |-> 0]
Nobody == [values |-> <<>>, nodes |-> <<>>]

(* A file is its graph; for the properties, what it was made from and how. *)
Init ==
  /\ files \in [Paths -> {NoFile} \cup {[graph |-> g, was |-> g, job |-> NoJob] : g \in Sources}]
  /\ \A p \in Paths : Whole(files[p]) <=> p = First
  /\ pc = "idle" /\ job = NoJob /\ model = NoGraph /\ k = 0 /\ new = Nobody
  /\ was = NoGraph /\ runs = 0

(* The process ends; SystemExit and exceptions come here before the save.  *)
Gone ==
  /\ pc' = "idle" /\ job' = NoJob /\ model' = NoGraph /\ k' = 0 /\ new' = Nobody
  /\ was' = NoGraph /\ UNCHANGED runs

Raise == Gone /\ UNCHANGED files

(* A step of the run that leaves `rewritten` in memory.                    *)
Step(from, to, rewritten) ==
  /\ pc = from /\ pc' = to /\ k' = 0
  /\ model' = rewritten
  /\ UNCHANGED <<files, job, new, was, runs>>

(* The command lines; only prepare_style takes a size.                     *)
Jobs ==
  [tool : Tools \ {"prepare_style"}, src : Paths, dst : Paths, height : {0}, width : {0}]
    \cup [tool : {"prepare_style"}, src : Paths, dst : Paths,
          height : Heights, width : Widths]

Start ==
  /\ pc = "idle" /\ runs < MaxRuns
  /\ job' \in Jobs
  /\ pc' = "load" /\ runs' = runs + 1
  /\ UNCHANGED <<files, model, k, new, was>>

Load ==
  /\ pc = "load" /\ Whole(files[job.src])
  /\ pc' = job.tool
  /\ model' = files[job.src].graph /\ was' = model'
  /\ UNCHANGED <<files, job, k, new, runs>>

LoadFails == pc = "load" /\ ~Whole(files[job.src]) /\ Raise

-----------------------------------------------------------------------------
(* prepare_model.py, and retarget of prepare_style.py *)

(* Weights that are initializers do not belong in graph.input.             *)
RealInputs(g) == Kept(g.ins, {v \in ToSet(g.ins) : v.name \notin DOMAIN g.inits})

(* Every symbolic dimension becomes the batch size.                        *)
PinSymbols(values) ==
  [j \in DOMAIN values |->
     [values[j] EXCEPT !.dims = [d \in DOMAIN @ |-> IF @[d] = Symbol THEN Batch ELSE @[d]]]]

PrepareModel ==
  Step("prepare_model", "convert",
       [model EXCEPT !.ins = PinSymbols(RealInputs(model)), !.outs = PinSymbols(@)])

Converted ==
  Step("convert", "check",
       IF model.opset < TARGET_OPSET THEN ConvertVersion(model, TARGET_OPSET)
                                     ELSE model)

(* Four dimensions: one image of the new size.  Others stay.               *)
Resized(values, height, width) ==
  [j \in DOMAIN values |->
     [values[j] EXCEPT
        !.dims = IF Len(@) = 4 THEN <<1, @[2], height, width>> ELSE @]]

Bug_Retargeted(g, height, width) ==
  [g EXCEPT !.ins = Resized(RealInputs(g), height, width),
            !.outs = Resized(@, width, height)]
Retargeted(g, height, width) ==
  [g EXCEPT !.ins = Resized(RealInputs(g), height, width),
            !.outs = Resized(@, height, width)]

Retarget == Step("prepare_style", "upgrade", Retargeted(model, job.height, job.width))

Upgrade == Step("upgrade", "freeze", ConvertVersion(model, 13))

(* The converter does not take every graph.                                *)
ConversionFails == pc \in {"convert", "upgrade"} /\ Raise

-----------------------------------------------------------------------------
(* prepare_style.py: freeze, then prune *)

(* Taken for frozen by the name of its third input.                        *)
Frozen(n) == Len(n.ins) > 2 /\ n.ins[3] # NoName /\ Last(n.ins[3]) = "_scales"

Bug_Freezable(g) ==
  {n \in NodesOf(g) : n.op = "Resize" /\ Len(n.ins) < 3}
Freezable(g) ==
  {n \in NodesOf(g) : n.op = "Resize" /\ ~Frozen(n) /\ n.ins[1] \in KnownShapes(g)}

Scales(n) == Append(n.out, "_scales")

Bug_MoreRounds == k <= Rounds
MoreRounds == k < Rounds

(* The factors become a constant: a doubling.                              *)
AsFrozen(n) == [n EXCEPT !.ins = <<@[1], NoName, Scales(n)>>]

Freeze(g, now) ==
  LET scales == {Scales(n) : n \in now}
  IN  [g EXCEPT
         !.nodes = [j \in DOMAIN @ |-> IF @[j] \in now THEN AsFrozen(@[j]) ELSE @[j]],
         !.inits = [n \in DOMAIN @ \cup scales |->
                      IF n \in scales THEN [elem |-> "float", num |-> 2] ELSE @[n]]]

(* A round freezes every Resize whose input shape was known when it began. *)
FreezeRound ==
  /\ pc = "freeze" /\ MoreRounds
  /\ Freezable(model) # {}
  /\ model' = Freeze(model, Freezable(model))
  /\ k' = k + 1
  /\ UNCHANGED <<files, pc, job, new, was, runs>>

FreezeEnds ==
  /\ ~MoreRounds \/ Freezable(model) = {}
  /\ Step("freeze", "prune", model)

(* A node is dead if nobody uses its output.                               *)
Bug_Dead(g) == {n \in NodesOf(g) : n.out \notin Consumed(g)}
Dead(g) == {n \in NodesOf(g) : n.out \notin Consumed(g) \cup NamesOf(g.outs)}

PruneRound ==
  /\ pc = "prune" /\ MoreRounds
  /\ Dead(model) # {}
  /\ model' = [model EXCEPT !.nodes = Kept(@, NodesOf(model) \ Dead(model))]
  /\ k' = k + 1
  /\ UNCHANGED <<files, pc, job, new, was, runs>>

PruneEnds ==
  /\ ~MoreRounds \/ Dead(model) = {}
  /\ Step("prune", "check", model)

-----------------------------------------------------------------------------
(* strip_io_quant.py, and `dims` of nhwc_io.py *)

(* What `dims` reads of dimensions: 0 of a symbol and of one that is not   *)
(* set.  make_tensor_value_info declares it, a size of zero.               *)
DimValues(dims) == [d \in DOMAIN dims |-> IF dims[d] < 0 THEN 0 ELSE dims[d]]

ZP_TO_ELEM == {"int8", "uint8", "int16", "uint16"}

(* Its zero-point operand decides what a quantisation node yields.         *)
HasElemType(n) ==
  Len(n.ins) > 2 /\ n.ins[3] \in DOMAIN model.inits /\ model.inits[n.ins[3]].elem \in ZP_TO_ELEM

Bug_ElemType(n) == "int8"
ElemType(n) == model.inits[n.ins[3]].elem

Quantizers == {n \in NodesOf(model) : n.op = "QuantizeLinear" /\ n.ins[1] = model.ins[1].name}
Dequantizers(out) == {n \in NodesOf(model) : n.op = "DequantizeLinear" /\ n.out = out.name}

(* Exactly one node, and one whose type is known.                          *)
TheOnly(nodes) == Cardinality(nodes) = 1 /\ \A n \in nodes : HasElemType(n)

Without(n) == Kept(model.nodes, NodesOf(model) \ {n})

StripInput ==
  /\ model.ins # <<>> /\ TheOnly(Quantizers)
  /\ \E q \in Quantizers :
       Step("strip_io_quant", "outputs",
            [model EXCEPT !.nodes = Without(q),
               !.ins[1] = [name |-> q.out, elem |-> ElemType(q), dims |-> DimValues(@.dims)]])

StripInputFails ==
  pc = "strip_io_quant" /\ (model.ins # <<>> => ~TheOnly(Quantizers)) /\ Raise

Bug_Replacements(v) == <<v>> \o new.values
Replacements(v) == Append(new.values, v)

StripOutput ==
  /\ pc = "outputs" /\ k < Len(model.outs)
  /\ LET out == model.outs[k + 1] IN
       /\ TheOnly(Dequantizers(out))
       /\ \E d \in Dequantizers(out) :
            /\ new' = [new EXCEPT !.values = Replacements(
                         [name |-> d.ins[1], elem |-> ElemType(d), dims |-> DimValues(out.dims)])]
            /\ model' = [model EXCEPT !.nodes = Without(d)]
  /\ k' = k + 1
  /\ UNCHANGED <<files, pc, job, was, runs>>

StripOutputFails ==
  /\ pc = "outputs" /\ k < Len(model.outs)
  /\ ~TheOnly(Dequantizers(model.outs[k + 1]))
  /\ Raise

Stripped ==
  /\ k = Len(model.outs)
  /\ Step("outputs", "check", [model EXCEPT !.outs = new.values])

-----------------------------------------------------------------------------
(* nhwc_io.py *)

NHWC(dims) == <<dims[1], dims[3], dims[4], dims[2]>>
Nhwc(v) ==
  [name |-> Append(v.name, "_nhwc"), elem |-> v.elem, dims |-> NHWC(DimValues(v.dims))]

(* The input becomes NHWC and is transposed first.                         *)
WrapInput ==
  /\ pc = "nhwc_io" /\ model.ins # <<>> /\ Len(model.ins[1].dims) = 4
  /\ LET src == model.ins[1] IN
       /\ model' = [model EXCEPT !.ins[1] = Nhwc(src)]
       /\ new' = [new EXCEPT !.nodes =
                    <<[op |-> "ToNCHW", ins |-> <<Nhwc(src).name>>, out |-> src.name]>>]
  /\ pc' = "wrap" /\ k' = 0
  /\ UNCHANGED <<files, job, was, runs>>

Wrapped == model.outs[k + 1]

WrapOutput ==
  /\ pc = "wrap" /\ k < Len(model.outs) /\ Len(Wrapped.dims) = 4
  /\ new' = [values |-> Append(new.values, Nhwc(Wrapped)),
             nodes |-> Append(new.nodes, [op |-> "ToNHWC", ins |-> <<Wrapped.name>>,
                                          out |-> Nhwc(Wrapped).name])]
  /\ k' = k + 1
  /\ UNCHANGED <<files, pc, job, model, was, runs>>

(* graph.input[0] wants an input, `n, c, h, w = dims(...)` four dimensions. *)
WrapFails ==
  /\ \/ pc = "nhwc_io" /\ (model.ins # <<>> => Len(model.ins[1].dims) # 4)
     \/ pc = "wrap" /\ k < Len(model.outs) /\ Len(Wrapped.dims) # 4
  /\ Raise

(* The input's Transpose, the nodes as they were, those of the outputs.    *)
WrapEnds ==
  /\ k = Len(model.outs)
  /\ Step("wrap", "check",
          [model EXCEPT !.outs = new.values,
                        !.nodes = <<Head(new.nodes)>> \o @ \o Tail(new.nodes)])

-----------------------------------------------------------------------------
(* All tools *)

Check == CheckModel(model) /\ Step("check", "save", model)
CheckFails == pc = "check" /\ ~CheckModel(model) /\ Raise

(* onnx.save opens the file and writes it in place.                        *)
Save ==
  /\ files' = [files EXCEPT ![job.dst] = Torn]
  /\ pc = "save" /\ pc' = "saving"
  /\ UNCHANGED <<job, model, k, new, was, runs>>

Saved ==
  /\ pc = "saving"
  /\ files' = [files EXCEPT ![job.dst] = [graph |-> model, was |-> was, job |-> job]]
  /\ Gone

Kill == pc # "idle" /\ Raise

-----------------------------------------------------------------------------
Next ==
  \/ Start \/ Load \/ LoadFails
  \/ PrepareModel \/ Converted \/ Retarget \/ Upgrade \/ ConversionFails
  \/ FreezeRound \/ FreezeEnds \/ PruneRound \/ PruneEnds
  \/ StripInput \/ StripInputFails \/ StripOutput \/ StripOutputFails \/ Stripped
  \/ WrapInput \/ WrapOutput \/ WrapFails \/ WrapEnds
  \/ Check \/ CheckFails \/ Save \/ Saved \/ Kill

Spec == Init /\ [][Next]_vars

-----------------------------------------------------------------------------
(* Properties *)

(* What the tools count on.  A tensor of integers is not quantised, nor one *)
(* of floats dequantised; a size goes nowhere but into other sizes and     *)
(* factors; what is to hold frozen factors is not there yet, nor a weight  *)
(* that is called what an input in NHWC is.                                *)
Sizes(g) == {n.out : n \in {m \in NodesOf(g) : m.op \in {"Shape", "Floor"}}}

Typed(g) ==
  /\ \A m, n \in NodesOf(g) :
       /\ m.op = "DequantizeLinear" /\ n.op = "DequantizeLinear" => m.out # n.ins[1]
       /\ m.op = "QuantizeLinear" /\ n.op = "DequantizeLinear" => m.ins[1] # n.ins[1]
  /\ \A n \in NodesOf(g) :
       n.op \notin {"Floor", "Ratio2", "Ratio3"} => ToSet(n.ins) \cap Sizes(g) = {}
  /\ NamesOf(g.outs) \cap Sizes(g) = {}

NamesFree(g) ==
  /\ \A n \in NodesOf(g) :
       n.op \in {"Resize", "Upsample"} /\ ~Frozen(n) => Scales(n) \notin Tensors(g)
  /\ \A m \in DOMAIN g.inits : Last(m) # "_nhwc"

Usable(g) ==
  /\ IsGraph(g) /\ CheckModel(g)
  /\ NamesOf(g.outs) \subseteq Tensors(g)
  /\ Typed(g) /\ NamesFree(g)

ASSUME SourcesAssumption == \A g \in Sources : Usable(g)

Job == Jobs \cup {NoJob}

IsFile(file) ==
  Whole(file) =>
    /\ DOMAIN file = {"graph", "was", "job"}
    /\ IsGraph(file.graph) /\ IsGraph(file.was) /\ file.job \in Job

(* Every variable keeps its type, a graph stays one, and no loop goes past *)
(* its last round or the last output.                                      *)
TypeOK ==
  /\ DOMAIN files = Paths /\ \A p \in Paths : IsFile(files[p])
  /\ pc \in {"idle", "load", "convert", "upgrade", "freeze", "prune", "outputs",
              "wrap", "check", "save", "saving"} \cup Tools
  /\ job \in Job
  /\ IsGraph(model) /\ IsGraph(was)
  /\ k \in Nat /\ runs \in Nat
  /\ pc \in {"freeze", "prune"} => k <= Rounds
  /\ pc \in {"outputs", "wrap"} => k <= Len(model.outs)
  /\ new \in [values : Seq(ValueInfo), nodes : Seq(Node)]

(* The files some tool has written.                                        *)
Written(tools) == {f \in {files[p] : p \in Paths} : Whole(f) /\ f.job.tool \in tools}

(* What is saved is a graph that runs: in order, with every input of a     *)
(* node and every output of the graph there, also where several passes     *)
(* and several tools have removed nodes.  The checker does not look at the *)
(* outputs of the graph.                                                   *)
WellFormed ==
  \A f \in Written(Tools) :
    /\ CheckModel(f.graph)
    /\ NamesOf(f.graph.outs) \subseteq Tensors(f.graph)

Enlarging(g) == {n \in NodesOf(g) : n.op \in {"Resize", "Upsample"}}
Doubles(g) == \A n \in Enlarging(g) : RunFree(g)[Last(n.ins)].num = 2

Results(g, env) == [j \in DOMAIN g.outs |-> env[g.outs[j].name].term]

(* The graph computes what it computed before.                             *)
SameResults(f) ==
  Results(f.graph, RunFree(f.graph)) = Results(f.was, RunFree(f.was))

(* Its input is what the quantisation of the input was, and its outputs    *)
(* are, in their order, what was turned to float before.                   *)
SameBehindQuantisation(f) ==
  LET before == RunFree(f.was)
      x == f.graph.ins[1].name
      after == Run(f.graph, [n \in DOMAIN Free(f.graph) |-> before[n]])
  IN  /\ before[x].term.op = "QuantizeLinear"
      /\ before[x].term.args[1] = before[f.was.ins[1].name].term
      /\ before[x].elem = f.graph.ins[1].elem
      /\ Len(f.graph.outs) = Len(f.was.outs)
      /\ \A j \in DOMAIN f.graph.outs :
           LET y == before[f.was.outs[j].name].term
           IN  y.op = "DequantizeLinear" /\ y.args[1] = after[f.graph.outs[j].name].term

(* Given an input in NHWC it yields, in NHWC, what the graph yields for    *)
(* that input in NCHW.                                                     *)
SameInNHWC(f) ==
  LET x == Free(f.graph)[f.graph.ins[1].name]
      before == Run(f.was, [n \in DOMAIN Free(f.was) |->
                  IF n = f.was.ins[1].name THEN Apply("ToNCHW", <<x>>) ELSE Free(f.was)[n]])
  IN  Results(f.graph, RunFree(f.graph)) =
        [j \in DOMAIN f.was.outs |->
           Apply("ToNHWC", <<before[f.was.outs[j].name]>>).term]

(* No tool changes what the network computes, whatever it was run on and   *)
(* behind; except that freezing takes every Resize for a doubling one.     *)
SameNetwork ==
  /\ \A f \in Written({"prepare_model"}) : SameResults(f)
  /\ \A f \in Written({"prepare_style"}) : Doubles(f.was) => SameResults(f)
  /\ \A f \in Written({"strip_io_quant"}) : SameBehindQuantisation(f)
  /\ \A f \in Written({"nhwc_io"}) : SameInNHWC(f)

(* What the graph says of its tensors is what they are: that the first of  *)
(* its inputs is one and no weight; that its inputs and outputs have a     *)
(* size; what its outputs are, where it gives a number; and of what type   *)
(* is what it dequantises.  A symbol, like a dimension that is not set,    *)
(* leaves the size open.                                                   *)
Honest(g) ==
  LET env == RunFree(g)
  IN  /\ g.ins # <<>> => g.ins[1].name \notin DOMAIN g.inits
      /\ \A v \in ToSet(g.ins) \cup ToSet(g.outs) : 0 \notin ToSet(v.dims)
      /\ \A j \in DOMAIN g.outs :
           LET v == env[g.outs[j].name]
               dims == g.outs[j].dims
           IN  /\ v.elem = g.outs[j].elem /\ DOMAIN v.dims = DOMAIN dims
               /\ \A d \in DOMAIN dims : dims[d] \in {Symbol, Unset, v.dims[d]}
      /\ \A n \in NodesOf(g) :
           n.op = "DequantizeLinear" /\ Len(n.ins) > 2 /\ n.ins[3] \in DOMAIN g.inits =>
             env[n.ins[1]].elem = g.inits[n.ins[3]].elem

(* A symbol an output is declared with is one of an input, unchanged.      *)
SymbolsPass(g) ==
  \A j \in DOMAIN g.outs : \A d \in DOMAIN g.outs[j].dims :
    g.outs[j].dims[d] = Symbol => RunFree(g)[g.outs[j].name].dims[d] = Symbol

(* The dimensions of the first input and of the outputs are numbers.       *)
FixedBoundary(g) ==
  \A v \in ToSet(g.outs) \cup {g.ins[1]} : \A d \in DOMAIN v.dims : v.dims[d] >= 0

(* From pictures to pictures of their size, by doubling what strides have  *)
(* halved without a remainder.                                             *)
Strides(g) == {n \in NodesOf(g) : n.op = "Half"}
Power(n) == LET p[j \in 0 .. n] == IF j = 0 THEN 1 ELSE 2 * p[j - 1] IN p[n]
Divides(g, size) == \E q \in 1 .. size : size = Power(Cardinality(Strides(g))) * q
ImageToImage(g) ==
  LET image == g.ins[1].dims
  IN  /\ g.ins # <<>> /\ Len(image) = 4 /\ Divides(g, image[3]) /\ Divides(g, image[4])
      /\ Doubles(g) /\ \A n \in NodesOf(g) : n.op \notin {"ToNHWC", "ToNCHW"}
      /\ \A v \in ToSet(g.ins) : v.name \in DOMAIN g.inits \/ v.dims = image
      /\ \A j \in DOMAIN g.outs : g.outs[j].dims = image

(* Types and shapes declared at the boundary stay those of the tensors     *)
(* behind it, but in three cases.  prepare_model gives every symbol the    *)
(* batch size, also one of an output that is another size than that of an  *)
(* input: behind a stride, say.  prepare_style declares the size of the    *)
(* output to be that of the input: true of an image-to-image network at a  *)
(* size its strides divide.  The other two declare zero for what is not a  *)
(* number.                                                                 *)
DeclaredIsActual ==
  \A f \in Written(Tools) : Honest(f.was) =>
    \/ Honest(f.graph)
    \/ f.job.tool = "prepare_model" /\ ~SymbolsPass(f.was)
    \/ /\ f.job.tool = "prepare_style"
       /\ ImageToImage(f.was) =>
            ~(Divides(f.was, f.job.height) /\ Divides(f.was, f.job.width))
    \/ f.job.tool \in {"strip_io_quant", "nhwc_io"} /\ ~FixedBoundary(f.was)

(* How many of the nodes `counted` are on the ways to each tensor.         *)
Chains(g, counted) ==
  LET chains[j \in 0 .. Len(g.nodes)] ==
        IF j = 0 THEN [m \in Given(g) |-> {0}]
        ELSE LET c == chains[j - 1]
                 n == g.nodes[j]
                 before == UNION {c[m] : m \in ToSet(n.ins) \ {NoName}}
                 after == {IF n \in counted THEN l + 1 ELSE l : l \in before}
             IN  [m \in DOMAIN c \cup {n.out} |-> IF m = n.out THEN after ELSE c[m]]
  IN  chains[Len(g.nodes)]

WithinRounds(g, counted) ==
  \A m \in Tensors(g) : \A l \in Chains(g, counted)[m] : l <= Rounds

(* The nodes that enlarge by a factor that is computed, and those which    *)
(* compute such factors.                                                   *)
Dynamic(g) == {n \in Enlarging(g) : Last(n.ins) \notin DOMAIN g.inits}
Computing(g) == {n \in NodesOf(g) : n.op \in SizeOps}

(* What has a known shape, at some size, if all factors are constants.     *)
Pictures(g, height, width) ==
  KnownShapes([Retargeted(g, height, width) EXCEPT
    !.nodes = [j \in DOMAIN @ |-> IF @[j] \in Enlarging(g) THEN [@[j] EXCEPT !.op = "Half"] ELSE @[j]]])

(* Sizes and factors are used for sizes and factors only.                  *)
SizesForFactors(g) ==
  LET sizes == {n.out : n \in Computing(g)}
  IN  /\ NamesOf(g.outs) \cap sizes = {}
      /\ \A n \in NodesOf(g) \ Computing(g) : \A j \in DOMAIN n.ins :
           n.ins[j] \in sizes => n \in Enlarging(g) /\ j = Len(n.ins)

(* A factor may have the name of a frozen one.                             *)
LooksFrozen(n) == \E j \in 2 .. Len(n.ins) : n.ins[j] # NoName /\ Last(n.ins[j]) = "_scales"

(* No size is computed when the graph runs.                                *)
Static(g) == Computing(g) = {} /\ Dynamic(g) = {}

(* prepare_style leaves no computed size in a graph, however many Resizes  *)
(* wait for each other, unless there are more in a chain, or more nodes to *)
(* compute one, than it has rounds; a Resize is not of a picture whose     *)
(* channels are known, or has factors with the name of frozen ones; or     *)
(* sizes are computed for something else.                                  *)
StaticUnless ==
  \A f \in Written({"prepare_style"}) :
    LET w == f.was
    IN  \/ Static(f.graph)
        \/ ~WithinRounds(w, Dynamic(w)) \/ ~WithinRounds(w, Computing(w))
        \/ \E n \in Dynamic(w) : \/ n.ins[1] \notin Pictures(w, f.job.height, f.job.width)
                             \/ LooksFrozen(n)
        \/ ~SizesForFactors(w)
=============================================================================
