----------------------------- MODULE OnnxGraph -----------------------------
(***************************************************************************)
(* ONNX graphs as far as the tools of this repository touch them, and what *)
(* they use of the onnx package: its checker, its shape inference, its     *)
(* version converter, and what a graph computes.  All of this is external  *)
(* to the repository.                                                      *)
(*                                                                         *)
(* A name is a sequence of words, so that name + "_nhwc" is Append; the    *)
(* empty one stands for an input that is left out.  A node has one output  *)
(* and is given its first input: constants are initializers.               *)
(* Its operator stands for its attributes too: "Half" is a convolution of  *)
(* stride 2, "ToNHWC" and "ToNCHW" are the two Transposes, "Ratio2" ends a *)
(* computation of sizes that comes to a factor of 2.                       *)
(***************************************************************************)
EXTENDS Integers, Sequences, SequencesExt

CONSTANTS
  Words,   (* What the names in graphs are made of.                        *)
  Layers   (* The operators that keep the shape of their first input.      *)

Name == Seq(Words)
NoName == <<>>
GivenName == Name \ {NoName}

(* A dimension is a number, possibly zero, a symbol, or not set at all.    *)
Symbol == -1
Unset == -2
Dim == {d \in Int : d >= Unset}

SizeOps == {"Shape", "Floor", "Ratio2", "Ratio3"}
Op == Layers \cup SizeOps
        \cup {"Resize", "Upsample", "Half", "Mean", "QuantizeLinear", "DequantizeLinear",
              "ToNHWC", "ToNCHW"}
Elem == {"float", "int8", "uint8", "int16", "uint16", "int32", "int64"}

(* An Upsample is given its factors second, a Resize second or later.      *)
Node ==
  {n \in [op : Op, ins : Seq(Name), out : GivenName] :
     /\ n.ins # <<>> /\ n.ins[1] # NoName
     /\ n.op = "Upsample" => Len(n.ins) = 2
     /\ n.op \in {"Resize", "Upsample"} => Len(n.ins) > 1 /\ Last(n.ins) # NoName}
ValueInfo == [name : GivenName, elem : Elem, dims : Seq(Dim)]
Init_ == [elem : Elem, num : Nat]

IsGraph(g) ==
  /\ DOMAIN g = {"nodes", "ins", "outs", "inits", "opset"}
  /\ g.nodes \in Seq(Node)
  /\ g.ins \in Seq(ValueInfo) /\ g.outs \in Seq(ValueInfo)
  /\ \A n \in DOMAIN g.inits : n \in GivenName /\ g.inits[n] \in Init_
  /\ g.opset \in Nat

NamesOf(values) == {values[k].name : k \in DOMAIN values}
NodesOf(g) == ToSet(g.nodes)
Produced(g) == {n.out : n \in NodesOf(g)}
Consumed(g) == UNION {ToSet(n.ins) : n \in NodesOf(g)}
Given(g) == NamesOf(g.ins) \cup DOMAIN g.inits
Tensors(g) == Produced(g) \cup Given(g)

(* A size shape inference goes on with; the code takes a zero for unknown. *)
Known(d) == d > 0

(* The elements of a sequence that are in a set, in their order.           *)
Kept(s, S) ==
  LET kept[j \in 0 .. Len(s)] ==
        IF j = 0 THEN <<>>
        ELSE IF s[j] \in S THEN Append(kept[j - 1], s[j]) ELSE kept[j - 1]
  IN  kept[Len(s)]

-----------------------------------------------------------------------------
(* onnx.checker.check_model: every input of a node is an input of the      *)
(* graph, an initializer or the output of an earlier node, no name is      *)
(* produced twice, and no two inputs of the graph have one name.  It does  *)
(* not ask who produces the outputs of the graph.                          *)
Before(g, k) == {g.nodes[j].out : j \in 1 .. k - 1} \cup Given(g)

CheckModel(g) ==
  /\ \A i, j \in DOMAIN g.ins : g.ins[i].name = g.ins[j].name => i = j
  /\ \A k \in DOMAIN g.nodes :
       /\ ToSet(g.nodes[k].ins) \subseteq Before(g, k) \cup {NoName}
       /\ g.nodes[k].out \notin Before(g, k)

(* onnx.shape_inference.infer_shapes: the tensors of four known dimensions.*)
(* The output of a Resize is known if its factors are a constant.          *)
KnownShapes(g) ==
  LET declared == {v.name : v \in {w \in ToSet(g.ins \o g.outs) :
                      Len(w.dims) = 4 /\ \A k \in 1 .. 4 : Known(w.dims[k])}}
      inferred[k \in 0 .. Len(g.nodes)] ==
        IF k = 0 THEN declared
        ELSE LET n == g.nodes[k]
                 so_far == inferred[k - 1]
             IN  IF /\ n.ins[1] \in so_far
                    /\ n.op # "Shape"
                    /\ n.op \in {"Resize", "Upsample"} => Last(n.ins) \in DOMAIN g.inits
                   THEN so_far \cup {n.out} ELSE so_far
  IN  inferred[Len(g.nodes)]

(* version_converter.convert_version: the old Upsample becomes a Resize.   *)
ConvertVersion(g, version) ==
  [g EXCEPT !.opset = version,
            !.nodes = [k \in DOMAIN g.nodes |->
              LET n == g.nodes[k]
              IN  IF n.op = "Upsample"
                    THEN [op |-> "Resize", ins |-> <<n.ins[1], NoName, n.ins[2]>>, out |-> n.out]
                    ELSE n]]

-----------------------------------------------------------------------------
(* What a graph computes: per tensor a term over the inputs and            *)
(* initializers, its element type and its dimensions.  num is the number   *)
(* in a tensor that holds a size or a factor.                              *)

Term(op, of, args, num) == [op |-> op, of |-> of, args |-> args, num |-> num]
Value(term, elem, dims, num) ==
  [term |-> term, elem |-> elem, dims |-> dims, num |-> num]

Number(n) == Value(Term("Number", NoName, <<>>, n), "int64", <<>>, n)
Nothing == Number(0)

(* What is not a number stays unknown when it is computed with.            *)
Halved(d) == IF Known(d) THEN (d + 1) \div 2 ELSE Unset
Times(factor, d) == IF Known(d) THEN factor * d ELSE Unset

(* The dimensions an operator yields for those of its first operand; they  *)
(* are batch, channels and then the size of the picture.                   *)
DimsOf(op, d, factor) ==
  CASE op \in SizeOps -> <<>>
    [] op \in {"Resize", "Upsample"} ->
         [i \in DOMAIN d |-> IF i > 2 THEN Times(factor, d[i]) ELSE d[i]]
    [] op = "Half" -> [i \in DOMAIN d |-> IF i > 2 THEN Halved(d[i]) ELSE d[i]]
    [] op = "Mean" -> [i \in DOMAIN d \cap {1, 2} |-> d[i]]
    [] op = "ToNHWC" /\ DOMAIN d = 1 .. 4 -> <<d[1], d[3], d[4], d[2]>>
    [] op = "ToNCHW" /\ DOMAIN d = 1 .. 4 -> <<d[1], d[4], d[2], d[3]>>
    [] OTHER -> d

Apply(op, a) ==
  LET args == [k \in DOMAIN a |-> a[k].term]
      d == a[1].dims
      with(elem) == Value(Term(op, NoName, args, 0), elem, DimsOf(op, d, 0), 0)
  IN  CASE op = "Shape" -> Number(d[3])
        [] op = "Floor" -> Number(a[1].num)
        [] op = "Ratio2" -> Number(2)
        [] op = "Ratio3" -> Number(3)
        [] op \in {"Resize", "Upsample"} ->
             LET f == Last(a).num
             IN  Value(Term("Resize", NoName, <<args[1]>>, f), a[1].elem, DimsOf(op, d, f), 0)
        [] op = "QuantizeLinear" -> with(IF Len(a) > 2 THEN a[3].elem ELSE "uint8")
        [] op = "DequantizeLinear" -> with("float")
        [] OTHER -> with(a[1].elem)

(* What a graph starts from that is given these values for its inputs.     *)
Feed(g, inputs) ==
  [n \in DOMAIN g.inits \cup DOMAIN inputs |->
     IF n \in DOMAIN inputs THEN inputs[n]
     ELSE Value(Term("Initializer", n, <<>>, g.inits[n].num),
                g.inits[n].elem, <<>>, g.inits[n].num)]

(* Every tensor of the graph.                                              *)
Run(g, inputs) ==
  LET env[k \in 0 .. Len(g.nodes)] ==
        IF k = 0 THEN Feed(g, inputs)
        ELSE LET e == env[k - 1]
                 n == g.nodes[k]
                 v == Apply(n.op, [j \in DOMAIN n.ins |->
                                     IF n.ins[j] = NoName THEN Nothing ELSE e[n.ins[j]]])
             IN  [m \in DOMAIN e \cup {n.out} |-> IF m = n.out THEN v ELSE e[m]]
  IN  env[Len(g.nodes)]

(* The inputs a caller chooses: those that are not weights.                *)
Free(g) ==
  [n \in NamesOf(g.ins) \ DOMAIN g.inits |->
     LET v == CHOOSE v \in ToSet(g.ins) : v.name = n
     IN  Value(Term("Input", n, <<>>, 0), v.elem, v.dims, 0)]

RunFree(g) == Run(g, Free(g))
=============================================================================
