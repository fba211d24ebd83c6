-------------------------- MODULE GraphTools_proofs --------------------------
(***************************************************************************)
(* Proofs about GraphTools, for graphs of any size, any number of files,   *)
(* rounds and runs.  First the types; then that what is saved runs, which  *)
(* takes what the tools count on (Usable) through every step of them; then *)
(* that it computes the same, by the equations of its nodes (Solves).      *)
(***************************************************************************)
EXTENDS GraphTools, OnnxGraph_proofs, FiniteSetTheorems

-----------------------------------------------------------------------------
(* Types *)

(* Whatever is changed of a graph, it stays one if what is new is of the   *)
(* right kind.                                                             *)
LEMMA GraphParts ==
  ASSUME NEW g, IsGraph(g)
  PROVE  /\ g.nodes \in Seq(Node) /\ g.ins \in Seq(ValueInfo) /\ g.outs \in Seq(ValueInfo)
         /\ \A nodes \in Seq(Node) : IsGraph([g EXCEPT !.nodes = nodes])
         /\ \A outs \in Seq(ValueInfo) : IsGraph([g EXCEPT !.outs = outs])
         /\ \A ins \in Seq(ValueInfo) : IsGraph([g EXCEPT !.ins = ins])
BY DEF IsGraph

LEMMA ValueInfoFacts ==
  ASSUME NEW v \in ValueInfo
  PROVE  /\ v = [name |-> v.name, elem |-> v.elem, dims |-> v.dims]
         /\ v.name \in GivenName /\ v.elem \in Elem /\ v.dims \in Seq(Dim)
         /\ \A d \in Seq(Dim) : [v EXCEPT !.dims = d] \in ValueInfo
BY DEF ValueInfo

LEMMA MappedDims ==
  ASSUME NEW dims \in Seq(Dim), NEW f, DOMAIN f = DOMAIN dims, \A d \in DOMAIN f : f[d] \in Dim,
         f = [d \in DOMAIN f |-> f[d]]
  PROVE  f \in Seq(Dim)
<1>1. f \in [1 .. Len(dims) -> Dim]
  OBVIOUS
<1>2. QED
  BY <1>1

LEMMA PinTypes ==
  ASSUME NEW values \in Seq(ValueInfo)
  PROVE  PinSymbols(values) \in Seq(ValueInfo)
<1>1. \A j \in DOMAIN values : values[j] \in ValueInfo
  OBVIOUS
<1>2. ASSUME NEW j \in DOMAIN values
      PROVE  [d \in DOMAIN values[j].dims |-> IF values[j].dims[d] = Symbol THEN Batch ELSE values[j].dims[d]]
               \in Seq(Dim)
  <2>1. values[j].dims \in Seq(Dim)
    BY <1>1 DEF ValueInfo
  <2>2. Batch \in Dim
    BY GraphToolsAssumption DEF Dim, Unset
  <2>3. \A d \in DOMAIN values[j].dims : values[j].dims[d] \in Dim
    BY <2>1
  <2>4. QED
    BY <2>1, <2>2, <2>3, MappedDims
<1>3. \A j \in DOMAIN values : PinSymbols(values)[j] \in ValueInfo
  BY <1>1, <1>2, ValueInfoFacts DEF PinSymbols
<1>4. DOMAIN PinSymbols(values) = 1 .. Len(values) /\ Len(values) \in Nat
  BY DEF PinSymbols
<1>5. PinSymbols(values) \in [1 .. Len(values) -> ValueInfo]
  BY <1>3, <1>4 DEF PinSymbols
<1>6. QED
  BY <1>4, <1>5

LEMMA ResizedTypes ==
  ASSUME NEW values \in Seq(ValueInfo), NEW height \in Nat, NEW width \in Nat
  PROVE  Resized(values, height, width) \in Seq(ValueInfo)
<1>1. \A j \in DOMAIN values : values[j] \in ValueInfo
  OBVIOUS
<1>2. ASSUME NEW j \in DOMAIN values, Len(values[j].dims) = 4
      PROVE  <<1, values[j].dims[2], height, width>> \in Seq(Dim)
  <2>1. values[j].dims \in Seq(Dim)
    BY <1>1 DEF ValueInfo
  <2>2. values[j].dims[2] \in Dim
    BY <1>2, <2>1
  <2>3. height \in Dim /\ width \in Dim /\ 1 \in Dim
    BY DEF Dim, Unset
  <2>4. QED
    BY <2>2, <2>3
<1>3. \A j \in DOMAIN values : Resized(values, height, width)[j] \in ValueInfo
  BY <1>1, <1>2, ValueInfoFacts DEF Resized
<1>4. DOMAIN Resized(values, height, width) = 1 .. Len(values) /\ Len(values) \in Nat
  BY DEF Resized
<1>5. Resized(values, height, width) \in [1 .. Len(values) -> ValueInfo]
  BY <1>3, <1>4 DEF Resized
<1>6. QED
  BY <1>4, <1>5

LEMMA RealInputsTypes ==
  ASSUME NEW g, IsGraph(g)
  PROVE  /\ RealInputs(g) \in Seq(ValueInfo)
         /\ ToSet(RealInputs(g)) = {v \in ToSet(g.ins) : v.name \notin DOMAIN g.inits}
<1>1. g.ins \in Seq(ValueInfo)
  BY GraphParts
<1>2. QED
  BY <1>1, KeptElements DEF RealInputs

LEMMA DimValuesTypes ==
  ASSUME NEW dims \in Seq(Dim)
  PROVE  DimValues(dims) \in Seq(Dim) /\ Len(DimValues(dims)) = Len(dims)
<1>1. \A d \in DOMAIN dims : dims[d] \in Dim
  OBVIOUS
<1>2. 0 \in Dim
  BY DEF Unset, Dim
<1>3. \A d \in DOMAIN dims : DimValues(dims)[d] \in Dim
  BY <1>1, <1>2 DEF DimValues
<1>4. DOMAIN DimValues(dims) = 1 .. Len(dims) /\ Len(dims) \in Nat
  BY DEF DimValues
<1>5. DimValues(dims) \in [1 .. Len(dims) -> Dim]
  BY <1>3, <1>4 DEF DimValues
<1>6. QED
  BY <1>4, <1>5

LEMMA AppendFacts ==
  ASSUME NEW T, NEW s \in Seq(T), NEW x \in T
  PROVE  /\ Append(s, x) \in Seq(T) /\ Append(s, x) # <<>>
         /\ Last(Append(s, x)) = x
         /\ \A t \in Seq(T), y \in T : Append(s, x) = Append(t, y) => s = t /\ x = y
<1>1. Append(s, x) \in Seq(T) /\ Len(Append(s, x)) = Len(s) + 1 /\ Len(s) \in Nat
      /\ Append(s, x)[Len(s) + 1] = x
  OBVIOUS
<1>2. Append(s, x) # <<>>
  BY <1>1
<1>3. ASSUME NEW t \in Seq(T), NEW y \in T, Append(s, x) = Append(t, y)
      PROVE  s = t /\ x = y
  <2>1. Len(t) \in Nat /\ Len(Append(t, y)) = Len(t) + 1 /\ Append(t, y)[Len(t) + 1] = y
    OBVIOUS
  <2>2. Len(s) = Len(t) /\ x = y
    BY <1>1, <1>3, <2>1
  <2>3. \A j \in 1 .. Len(s) : s[j] = Append(s, x)[j] /\ t[j] = Append(t, y)[j]
    BY <2>2
  <2>4. \A j \in 1 .. Len(s) : s[j] = t[j]
    BY <1>3, <2>3
  <2>5. QED
    BY <2>2, <2>4
<1>4. QED
  BY <1>1, <1>2, <1>3 DEF Last

LEMMA ConcatElements ==
  ASSUME NEW T, NEW s \in Seq(T), NEW t \in Seq(T)
  PROVE  ToSet(s \o t) = ToSet(s) \cup ToSet(t)
<1>1. /\ Len(s) \in Nat /\ Len(t) \in Nat /\ DOMAIN s = 1 .. Len(s) /\ DOMAIN t = 1 .. Len(t)
      /\ DOMAIN (s \o t) = 1 .. Len(s) + Len(t)
      /\ \A j \in 1 .. Len(s) + Len(t) :
           (s \o t)[j] = IF j <= Len(s) THEN s[j] ELSE t[j - Len(s)]
  OBVIOUS
<1>2. \A j \in 1 .. Len(s) + Len(t) : j \in 1 .. Len(s) \/ j - Len(s) \in 1 .. Len(t)
  BY <1>1
<1>3. ToSet(s \o t) \subseteq ToSet(s) \cup ToSet(t)
  <2>1. ASSUME NEW j \in 1 .. Len(s) + Len(t) PROVE (s \o t)[j] \in ToSet(s) \cup ToSet(t)
    <3>1. CASE j \in 1 .. Len(s)
      BY <1>1, <3>1 DEF ToSet
    <3>2. CASE j \notin 1 .. Len(s)
      <4>1. j - Len(s) \in 1 .. Len(t) /\ ~(j <= Len(s))
        BY <1>1, <1>2, <3>2
      <4>2. QED
        BY <1>1, <4>1 DEF ToSet
    <3>3. QED
      BY <3>1, <3>2
  <2>2. QED
    BY <1>1, <2>1 DEF ToSet
<1>4. ToSet(s) \subseteq ToSet(s \o t)
  <2>1. \A j \in 1 .. Len(s) : j \in 1 .. Len(s) + Len(t) /\ j <= Len(s)
    BY <1>1
  <2>2. QED
    BY <1>1, <2>1 DEF ToSet
<1>5. ToSet(t) \subseteq ToSet(s \o t)
  <2>1. ASSUME NEW j \in 1 .. Len(t) PROVE t[j] \in ToSet(s \o t)
    <3>1. Len(s) + j \in 1 .. Len(s) + Len(t) /\ ~(Len(s) + j <= Len(s)) /\ (Len(s) + j) - Len(s) = j
      BY <1>1
    <3>2. (s \o t)[Len(s) + j] = t[j]
      BY <1>1, <3>1
    <3>3. QED
      BY <1>1, <3>1, <3>2 DEF ToSet
  <2>2. QED
    BY <1>1, <2>1 DEF ToSet
<1>6. QED
  BY <1>3, <1>4, <1>5

LEMMA HeadTailElements ==
  ASSUME NEW T, NEW s \in Seq(T), s # <<>>
  PROVE  ToSet(<<Head(s)>>) \cup ToSet(Tail(s)) = ToSet(s)
<1>1. Head(s) \in T /\ Tail(s) \in Seq(T) /\ <<Head(s)>> \in Seq(T)
  OBVIOUS
<1>2. <<Head(s)>> \o Tail(s) = s
  OBVIOUS
<1>3. QED
  BY <1>1, <1>2, ConcatElements

(* The names the tools make are names.                                     *)
LEMMA NameEnds ==
  ASSUME NEW name \in Name, NEW end \in Words
  PROVE  /\ Append(name, end) \in GivenName
         /\ Last(Append(name, end)) = end
BY AppendFacts DEF Name, GivenName, NoName

LEMMA NhwcTypes ==
  ASSUME NEW v \in ValueInfo, Len(v.dims) = 4
  PROVE  /\ Nhwc(v) \in ValueInfo
         /\ Nhwc(v).name = Append(v.name, "_nhwc")
         /\ Nhwc(v).elem = v.elem
<1>1. v.name \in Name /\ v.dims \in Seq(Dim)
  BY ValueInfoFacts DEF GivenName
<1>2. Append(v.name, "_nhwc") \in GivenName
  <2>1. "_nhwc" \in Words
    BY GraphToolsAssumption
  <2>2. QED
    BY <1>1, <2>1, NameEnds
<1>3. NHWC(DimValues(v.dims)) \in Seq(Dim)
  <2>1. DimValues(v.dims) \in Seq(Dim) /\ Len(DimValues(v.dims)) = 4
    BY <1>1, DimValuesTypes
  <2>2. \A d \in 1 .. 4 : DimValues(v.dims)[d] \in Dim
    BY <2>1
  <2>3. QED
    BY <2>2 DEF NHWC
<1>4. QED
  BY <1>2, <1>3, ValueInfoFacts DEF ValueInfo, Nhwc

(* Nodes of one input, which the tools add.                                *)
LEMMA TransposeTypes ==
  ASSUME NEW from \in GivenName, NEW to \in GivenName, NEW op \in {"ToNHWC", "ToNCHW"}
  PROVE  [op |-> op, ins |-> <<from>>, out |-> to] \in Node
<1>1. <<from>> \in Seq(Name) /\ <<from>> # <<>> /\ <<from>>[1] # NoName
  BY DEF GivenName
<1>2. op \in Op /\ op \notin {"Resize", "Upsample"}
  BY DEF Op
<1>3. QED
  BY <1>1, <1>2 DEF Node

LEMMA ThreeOperands ==
  ASSUME NEW x \in GivenName, NEW f \in GivenName
  PROVE  LET ins == <<x, NoName, f>>
         IN  /\ ins \in Seq(Name) /\ ins # <<>> /\ ins[1] # NoName /\ Len(ins) = 3
             /\ Last(ins) # NoName /\ Last(ins) = f /\ ToSet(ins) = {x, NoName, f}
<1> DEFINE ins == <<x, NoName, f>>
<1>1. NoName \in Name
  BY DEF NoName, Name
<1>2. ins \in Seq(Name) /\ Len(ins) = 3 /\ ins[1] = x /\ ins[2] = NoName /\ ins[3] = f
  BY <1>1 DEF GivenName
<1>3. ToSet(ins) = {x, NoName, f}
  BY DEF ToSet
<1>4. QED
  BY <1>2, <1>3 DEF Last, GivenName

LEMMA ResizeTypes ==
  ASSUME NEW ins \in Seq(Name), ins # <<>>, ins[1] # NoName, Len(ins) > 1, Last(ins) # NoName,
         NEW out \in GivenName
  PROVE  [op |-> "Resize", ins |-> ins, out |-> out] \in Node
BY DEF Node, Op

(* A graph with other parts.                                               *)
LEMMA GraphBuilt ==
  ASSUME NEW g, NEW r, IsGraph(g), DOMAIN r = DOMAIN g,
         r.nodes \in Seq(Node), r.ins \in Seq(ValueInfo), r.outs \in Seq(ValueInfo),
         r.inits = g.inits, r.opset \in Nat
  PROVE  IsGraph(r)
BY DEF IsGraph

LEMMA ConvertTypes ==
  ASSUME NEW g, IsGraph(g), NEW version \in Nat
  PROVE  /\ IsGraph(ConvertVersion(g, version))
         /\ ConvertVersion(g, version).ins = g.ins /\ ConvertVersion(g, version).outs = g.outs
         /\ ConvertVersion(g, version).inits = g.inits
<1> DEFINE r == ConvertVersion(g, version)
<1>1. /\ DOMAIN r = DOMAIN g /\ r.ins = g.ins /\ r.outs = g.outs
      /\ r.inits = g.inits /\ r.opset = version
      /\ r.nodes = [j \in DOMAIN g.nodes |->
              IF g.nodes[j].op = "Upsample"
                THEN [op |-> "Resize", ins |-> <<g.nodes[j].ins[1], NoName, g.nodes[j].ins[2]>>,
                      out |-> g.nodes[j].out]
                ELSE g.nodes[j]]
  BY DEF ConvertVersion, IsGraph
<1>2. DOMAIN g.nodes = 1 .. Len(g.nodes) /\ Len(g.nodes) \in Nat
  BY GraphFacts
<1>3. ASSUME NEW j \in DOMAIN g.nodes PROVE r.nodes[j] \in Node
  <2>1. g.nodes[j] \in Node
    BY <1>2, GraphFacts
  <2>2. CASE g.nodes[j].op = "Upsample"
    <3> DEFINE n == g.nodes[j]
               ins == <<n.ins[1], NoName, n.ins[2]>>
    <3>1. n.ins \in Seq(Name) /\ Len(n.ins) = 2 /\ n.ins[1] # NoName /\ Last(n.ins) # NoName
      BY <2>1, <2>2 DEF Node
    <3>2. n.ins[1] \in Name /\ n.ins[2] \in Name /\ n.ins[2] # NoName /\ NoName \in Name
      BY <3>1 DEF Last, NoName, Name
    <3>3. ins \in Seq(Name) /\ ins # <<>> /\ ins[1] # NoName /\ Len(ins) = 3 /\ Last(ins) # NoName
      BY <3>1, <3>2 DEF Last
    <3>4. r.nodes[j] = [op |-> "Resize", ins |-> ins, out |-> n.out]
      BY <1>1, <2>2
    <3>5. n.out \in GivenName /\ "Resize" \in Op
      BY <2>1 DEF Node, Op
    <3> HIDE DEF n, ins, r
    <3>6. QED
      BY <3>3, <3>4, <3>5, ResizeTypes
  <2>3. QED
    BY <1>1, <2>1, <2>2
<1>4. r.nodes \in [1 .. Len(g.nodes) -> Node]
  BY <1>1, <1>2, <1>3
<1>5. r.nodes \in Seq(Node)
  BY <1>2, <1>4
<1> HIDE DEF r
<1>6. IsGraph(r)
  BY <1>1, <1>5, GraphParts, GraphBuilt
<1>7. QED
  BY <1>1, <1>6 DEF r

LEMMA ScalesName ==
  ASSUME NEW n \in Node
  PROVE  Scales(n) \in GivenName /\ Last(Scales(n)) = "_scales"
<1>1. n.out \in Name /\ "_scales" \in Words
  BY GraphToolsAssumption DEF Node, GivenName
<1>2. QED
  BY <1>1, NameEnds DEF Scales

LEMMA AsFrozenFacts ==
  ASSUME NEW n \in Node, n.op = "Resize"
  PROVE  /\ AsFrozen(n) \in Node
         /\ AsFrozen(n) = [op |-> "Resize", ins |-> <<n.ins[1], NoName, Scales(n)>>, out |-> n.out]
<1>1. n.ins \in Seq(Name) /\ n.ins # <<>> /\ n.ins[1] # NoName
  BY DEF Node
<1>0. n.out \in GivenName
  BY DEF Node
<1> DEFINE ins == <<n.ins[1], NoName, Scales(n)>>
<1>2. AsFrozen(n) = [op |-> "Resize", ins |-> ins, out |-> n.out]
  BY DEF AsFrozen, Node
<1>3. n.ins[1] \in GivenName /\ Scales(n) \in GivenName
  BY <1>1, ScalesName DEF GivenName
<1>4. ins \in Seq(Name) /\ ins # <<>> /\ ins[1] # NoName /\ Len(ins) = 3 /\ Last(ins) # NoName
  BY <1>3, ThreeOperands
<1> HIDE DEF ins
<1>5. [op |-> "Resize", ins |-> ins, out |-> n.out] \in Node
  BY <1>0, <1>4, ResizeTypes
<1>6. QED
  BY <1>2, <1>5 DEF ins

LEMMA FreezeFacts ==
  ASSUME NEW g, IsGraph(g), NEW now, now \subseteq NodesOf(g), \A n \in now : n.op = "Resize"
  PROVE  /\ IsGraph(Freeze(g, now))
         /\ Freeze(g, now).ins = g.ins /\ Freeze(g, now).outs = g.outs
         /\ NodesOf(Freeze(g, now)) = (NodesOf(g) \ now) \cup {AsFrozen(n) : n \in now}
         /\ DOMAIN Freeze(g, now).inits = DOMAIN g.inits \cup {Scales(n) : n \in now}
         /\ \A n \in now : Freeze(g, now).inits[Scales(n)] = [elem |-> "float", num |-> 2]
         /\ \A m \in DOMAIN g.inits \ {Scales(n) : n \in now} : Freeze(g, now).inits[m] = g.inits[m]
<1> DEFINE r == Freeze(g, now)
           scales == {Scales(n) : n \in now}
<1>1. /\ DOMAIN r = DOMAIN g /\ r.ins = g.ins /\ r.outs = g.outs /\ r.opset = g.opset
      /\ r.nodes = [j \in DOMAIN g.nodes |->
                      IF g.nodes[j] \in now THEN AsFrozen(g.nodes[j]) ELSE g.nodes[j]]
      /\ r.inits = [n \in DOMAIN g.inits \cup scales |->
                      IF n \in scales THEN [elem |-> "float", num |-> 2] ELSE g.inits[n]]
  BY DEF Freeze, IsGraph
<1> HIDE DEF r
<1>2. DOMAIN g.nodes = 1 .. Len(g.nodes) /\ Len(g.nodes) \in Nat
  BY GraphFacts
<1>3. ASSUME NEW j \in DOMAIN g.nodes PROVE r.nodes[j] \in Node
  BY <1>1, <1>2, GraphFacts, AsFrozenFacts
<1>4. r.nodes \in [1 .. Len(g.nodes) -> Node]
  BY <1>1, <1>2, <1>3
<1>5. r.nodes \in Seq(Node)
  BY <1>2, <1>4
<1>6. \A n \in DOMAIN r.inits : n \in GivenName /\ r.inits[n] \in Init_
  <2>1. \A n \in now : n \in Node
    BY GraphFacts
  <2>2. scales \subseteq GivenName
    BY <2>1, ScalesName
  <2>3. [elem |-> "float", num |-> 2] \in Init_
    BY DEF Init_, Elem
  <2>4. \A n \in DOMAIN g.inits : n \in GivenName /\ g.inits[n] \in Init_
    BY DEF IsGraph
  <2>5. QED
    BY <1>1, <2>2, <2>3, <2>4
<1>7. IsGraph(r)
  <2>1. DOMAIN g = {"nodes", "ins", "outs", "inits", "opset"} /\ g.opset \in Nat
    BY DEF IsGraph
  <2>2. QED
    BY <1>1, <1>5, <1>6, <2>1, GraphParts DEF IsGraph
<1>8. NodesOf(r) = (NodesOf(g) \ now) \cup {AsFrozen(n) : n \in now}
  <2>1. DOMAIN r.nodes = DOMAIN g.nodes
    BY <1>1
  <2>2. NodesOf(g) = {g.nodes[j] : j \in DOMAIN g.nodes}
    BY DEF NodesOf, ToSet
  <2>3. NodesOf(r) = {r.nodes[j] : j \in DOMAIN g.nodes}
    BY <2>1 DEF NodesOf, ToSet
  <2>4. \A j \in DOMAIN g.nodes :
          r.nodes[j] = IF g.nodes[j] \in now THEN AsFrozen(g.nodes[j]) ELSE g.nodes[j]
    BY <1>1
  <2>5. QED
    BY <2>2, <2>3, <2>4
<1>9. QED
  BY <1>1, <1>7, <1>8 DEF r

(* What a step has to find for TypeOK to go on: a tool that runs is one,   *)
(* and while the outputs are wrapped, the node in front of them is there.  *)
TypeInv ==
  /\ TypeOK
  /\ pc # "idle" => job.tool \in Tools
  /\ pc = "wrap" => new.nodes # <<>>

LEMMA NoGraphTypes == IsGraph(NoGraph)
BY DEF IsGraph, NoGraph

LEMMA StepTypes ==
  ASSUME TypeInv, NEW from, NEW to \in {"convert", "upgrade", "freeze", "prune", "outputs", "check", "save"},
         from # "idle", NEW g, IsGraph(g), Step(from, to, g)
  PROVE  TypeInv'
<1>1. UNCHANGED <<files, job, new, was, runs>> /\ pc' = to /\ k' = 0 /\ model' = g
  BY DEF Step
<1>2. 0 <= Rounds /\ 0 <= Len(g.outs)
  <2>1. g.outs \in Seq(ValueInfo)
    BY GraphParts
  <2>2. Len(g.outs) \in Nat
    BY <2>1
  <2>3. QED
    BY <2>2, GraphToolsAssumption
<1>3. pc' \in {"idle", "load", "convert", "upgrade", "freeze", "prune", "outputs",
              "wrap", "check", "save", "saving"} \cup Tools
  BY <1>1
<1>4. pc' # "wrap" /\ pc # "idle"
  BY <1>1 DEF Step
<1>5. QED
  BY <1>1, <1>2, <1>3, <1>4 DEF TypeInv, TypeOK, IsFile, Whole

LEMMA GoneTypes ==
  ASSUME TypeInv, Gone, DOMAIN files' = Paths, \A p \in Paths : IsFile(files'[p])
  PROVE  TypeInv'
<1>1. NoJob \in Job
  BY DEF Job
<1>2. Nobody \in [values : Seq(ValueInfo), nodes : Seq(Node)]
  BY DEF Nobody
<1>3. pc' = "idle" /\ job' = NoJob /\ model' = NoGraph /\ k' = 0 /\ new' = Nobody
      /\ was' = NoGraph /\ runs' = runs
  BY DEF Gone
<1>4. QED
  BY <1>1, <1>2, <1>3, NoGraphTypes DEF TypeInv, TypeOK

LEMMA RaiseTypes ==
  ASSUME TypeInv, Raise
  PROVE  TypeInv'
BY GoneTypes DEF Raise, TypeInv, TypeOK

LEMMA InitTypes == Init => TypeInv
<1> SUFFICES ASSUME Init PROVE TypeInv
  OBVIOUS
<1>1. NoJob \in Job
  BY DEF Job
<1>2. Nobody \in [values : Seq(ValueInfo), nodes : Seq(Node)]
  BY DEF Nobody
<1>3. DOMAIN files = Paths
  BY DEF Init
<1>4. ASSUME NEW p \in Paths PROVE IsFile(files[p])
  <2>1. SUFFICES ASSUME Whole(files[p]) PROVE IsFile(files[p])
    BY DEF IsFile
  <2>2. PICK g \in Sources : files[p] = [graph |-> g, was |-> g, job |-> NoJob]
    BY <2>1 DEF Init, Whole
  <2>3. IsGraph(g)
    BY SourcesAssumption DEF Usable
  <2>4. QED
    BY <1>1, <2>2, <2>3 DEF IsFile
<1>5. runs = 0 /\ k = 0 /\ pc = "idle" /\ job = NoJob /\ model = NoGraph /\ was = NoGraph /\ new = Nobody
  BY DEF Init
<1>6. QED
  BY <1>1, <1>2, <1>3, <1>4, <1>5, NoGraphTypes DEF TypeInv, TypeOK

LEMMA JobFacts ==
  ASSUME NEW one \in Job
  PROVE  /\ one.src \in Paths /\ one.dst \in Paths /\ one.tool \in Tools \cup {"none"}
         /\ one \in Jobs => one.tool \in Tools
<1>1. one \in Jobs => one.src \in Paths /\ one.dst \in Paths /\ one.tool \in Tools
  BY DEF Jobs, Tools
<1>2. one = NoJob => one.src \in Paths /\ one.dst \in Paths /\ one.tool = "none"
  BY GraphToolsAssumption DEF NoJob
<1>3. QED
  BY <1>1, <1>2 DEF Job

LEMMA StartTypes ==
  ASSUME TypeInv, Start PROVE TypeInv'
<1>1. job' \in Job /\ job'.tool \in Tools
  BY JobFacts DEF Start, Job
<1>2. QED
  BY <1>1 DEF Start, TypeInv, TypeOK, IsFile, Whole

LEMMA LoadTypes ==
  ASSUME TypeInv, Load PROVE TypeInv'
<1>1. job \in Job /\ \A p \in Paths : IsFile(files[p])
  BY DEF TypeInv, TypeOK
<1>2. job.src \in Paths /\ job.tool \in Tools
  BY <1>1, JobFacts DEF Load, TypeInv
<1>3. IsGraph(files[job.src].graph)
  BY <1>1, <1>2 DEF IsFile, Load
<1>4. pc' \in Tools /\ UNCHANGED <<files, job, k, new, runs>>
      /\ model' = files[job.src].graph /\ was' = model'
  BY <1>2 DEF Load
<1>5. \A p \in Paths : IsFile(files'[p])
  BY <1>1, <1>4
<1>6. pc' \notin {"freeze", "prune", "outputs", "wrap"}
  BY <1>4 DEF Tools
<1>7. job' \in Job /\ k' \in Nat /\ runs' \in Nat
      /\ new' \in [values : Seq(ValueInfo), nodes : Seq(Node)] /\ DOMAIN files' = Paths
  BY <1>4 DEF TypeInv, TypeOK
<1>8. IsGraph(model') /\ IsGraph(was')
  BY <1>3, <1>4
<1>9. job'.tool \in Tools
  BY <1>2, <1>4
<1>10. pc' \in {"idle", "load", "convert", "upgrade", "freeze", "prune", "outputs",
              "wrap", "check", "save", "saving"} \cup Tools
  BY <1>4
<1>11. TypeOK'
  BY <1>5, <1>6, <1>7, <1>8, <1>10 DEF TypeOK
<1>12. QED
  BY <1>6, <1>9, <1>11 DEF TypeInv

LEMMA PrepareTypes ==
  ASSUME TypeInv, PrepareModel \/ Retarget PROVE TypeInv'
<1>1. IsGraph(model) /\ job.height \in Nat /\ job.width \in Nat
  <2>1. job \in Job /\ IsGraph(model)
    BY DEF TypeInv, TypeOK
  <2>2. /\ job.height \in Heights \/ job.height = 0
        /\ job.width \in Widths \/ job.width = 0
    BY <2>1 DEF Job, Jobs, NoJob
  <2>3. (\A h \in Heights : h \in Nat) /\ \A l \in Widths : l \in Nat
    BY GraphToolsAssumption
  <2>4. QED
    BY <2>1, <2>2, <2>3
<1>2. RealInputs(model) \in Seq(ValueInfo) /\ model.outs \in Seq(ValueInfo)
  BY <1>1, RealInputsTypes, GraphParts
<1>3. CASE PrepareModel
  <2> DEFINE r == [model EXCEPT !.ins = PinSymbols(RealInputs(model)), !.outs = PinSymbols(@)]
  <2>1. /\ DOMAIN r = DOMAIN model /\ r.nodes = model.nodes /\ r.inits = model.inits
        /\ r.opset = model.opset /\ r.ins = PinSymbols(RealInputs(model))
        /\ r.outs = PinSymbols(model.outs)
    BY <1>1 DEF IsGraph
  <2>2. r.ins \in Seq(ValueInfo) /\ r.outs \in Seq(ValueInfo)
    BY <1>2, <2>1, PinTypes
  <2>3. Step("prepare_model", "convert", r)
    BY <1>3 DEF PrepareModel
  <2> HIDE DEF r
  <2>4. IsGraph(r)
    BY <1>1, <2>1, <2>2, GraphBuilt DEF IsGraph
  <2>5. QED
    BY <2>3, <2>4, StepTypes
<1>4. CASE Retarget
  <2> DEFINE r == Retargeted(model, job.height, job.width)
  <2>1. /\ DOMAIN r = DOMAIN model /\ r.nodes = model.nodes /\ r.inits = model.inits
        /\ r.opset = model.opset /\ r.ins = Resized(RealInputs(model), job.height, job.width)
        /\ r.outs = Resized(model.outs, job.height, job.width)
    BY <1>1 DEF IsGraph, Retargeted
  <2>2. r.ins \in Seq(ValueInfo) /\ r.outs \in Seq(ValueInfo)
    BY <1>1, <1>2, <2>1, ResizedTypes
  <2>3. Step("prepare_style", "upgrade", r)
    BY <1>4 DEF Retarget
  <2> HIDE DEF r
  <2>4. IsGraph(r)
    BY <1>1, <2>1, <2>2, GraphBuilt DEF IsGraph
  <2>5. QED
    BY <2>3, <2>4, StepTypes
<1>5. QED
  BY <1>3, <1>4

LEMMA ConversionTypes ==
  ASSUME TypeInv, Converted \/ Upgrade PROVE TypeInv'
<1>1. IsGraph(model)
  BY DEF TypeInv, TypeOK
<1>2. IsGraph(ConvertVersion(model, TARGET_OPSET)) /\ IsGraph(ConvertVersion(model, 13))
  BY <1>1, ConvertTypes DEF TARGET_OPSET
<1>3. CASE Converted
  BY <1>1, <1>2, <1>3, StepTypes DEF Converted
<1>4. CASE Upgrade
  BY <1>2, <1>4, StepTypes DEF Upgrade
<1>5. QED
  BY <1>3, <1>4

(* A round takes nothing but nodes of the graph, and ends with one less.   *)
LEMMA RoundTypes ==
  ASSUME TypeInv, pc \in {"freeze", "prune"}, MoreRounds, IsGraph(model'), k' = k + 1,
         UNCHANGED <<files, pc, job, new, was, runs>>
  PROVE  TypeInv'
<1>1. k' \in Nat /\ k' <= Rounds
  BY GraphToolsAssumption DEF TypeInv, TypeOK, MoreRounds
<1>2. QED
  BY <1>1 DEF TypeInv, TypeOK, IsFile, Whole

LEMMA FreezeTypes ==
  ASSUME TypeInv, FreezeRound PROVE TypeInv'
<1>1. IsGraph(model)
  BY DEF TypeInv, TypeOK
<1>2. Freezable(model) \subseteq NodesOf(model) /\ \A n \in Freezable(model) : n.op = "Resize"
  BY DEF Freezable
<1>3. IsGraph(Freeze(model, Freezable(model)))
  BY <1>1, <1>2, FreezeFacts
<1>4. QED
  BY <1>3, RoundTypes DEF FreezeRound

(* Nodes that are taken out.                                               *)
LEMMA TakenOut ==
  ASSUME NEW g, IsGraph(g), NEW S
  PROVE  LET r == [g EXCEPT !.nodes = Kept(@, S)]
         IN  /\ IsGraph(r) /\ NodesOf(r) = NodesOf(g) \cap S
             /\ r.ins = g.ins /\ r.outs = g.outs /\ r.inits = g.inits
<1> DEFINE r == [g EXCEPT !.nodes = Kept(@, S)]
<1>1. Kept(g.nodes, S) \in Seq(Node) /\ ToSet(Kept(g.nodes, S)) = NodesOf(g) \cap S
  BY GraphParts, KeptElements DEF NodesOf
<1>2. r = [g EXCEPT !.nodes = Kept(g.nodes, S)]
  OBVIOUS
<1>3. IsGraph(r)
  BY <1>1, <1>2, GraphParts
<1>4. r.nodes = Kept(g.nodes, S) /\ r.ins = g.ins /\ r.outs = g.outs /\ r.inits = g.inits
  BY <1>2 DEF IsGraph
<1>5. QED
  BY <1>1, <1>3, <1>4 DEF NodesOf

LEMMA PruneTypes ==
  ASSUME TypeInv, PruneRound PROVE TypeInv'
<1>1. IsGraph(model)
  BY DEF TypeInv, TypeOK
<1>2. IsGraph(model')
  BY <1>1, TakenOut DEF PruneRound
<1>3. QED
  BY <1>2, RoundTypes DEF PruneRound

(* A sequence with another first element.                                  *)
LEMMA OtherFirst ==
  ASSUME NEW T, NEW s \in Seq(T), s # <<>>, NEW x \in T
  PROVE  /\ [s EXCEPT ![1] = x] \in Seq(T)
         /\ [s EXCEPT ![1] = x] # <<>>
         /\ Len([s EXCEPT ![1] = x]) = Len(s)
         /\ [s EXCEPT ![1] = x][1] = x
         /\ \A j \in DOMAIN s \ {1} : [s EXCEPT ![1] = x][j] = s[j]
         /\ s[1] \in T /\ 1 \in DOMAIN s
<1>1. Len(s) \in Nat /\ DOMAIN s = 1 .. Len(s) /\ 1 \in DOMAIN s
  OBVIOUS
<1>2. [s EXCEPT ![1] = x] \in [1 .. Len(s) -> T]
  BY <1>1
<1>3. [s EXCEPT ![1] = x] \in Seq(T) /\ Len([s EXCEPT ![1] = x]) = Len(s)
  BY <1>1, <1>2
<1>4. QED
  BY <1>1, <1>3

(* What is known of a node that is taken out at the boundary.              *)
LEMMA OnlyNode ==
  ASSUME IsGraph(model), NEW nodes, nodes \subseteq NodesOf(model), TheOnly(nodes), NEW n \in nodes
  PROVE  /\ n \in Node /\ n.ins[1] \in GivenName /\ n.out \in GivenName
         /\ Len(n.ins) > 2 /\ n.ins[3] \in DOMAIN model.inits
         /\ ElemType(n) = model.inits[n.ins[3]].elem /\ ElemType(n) \in Elem
<1>1. n \in Node
  BY GraphFacts
<1>2. n.ins \in Seq(Name) /\ n.ins # <<>> /\ n.ins[1] # NoName /\ n.out \in GivenName
  BY <1>1 DEF Node
<1>3. n.ins[1] \in GivenName
  BY <1>2 DEF GivenName
<1>4. HasElemType(n)
  BY DEF TheOnly
<1>5. ElemType(n) \in Elem
  BY <1>4 DEF HasElemType, ElemType, ZP_TO_ELEM, Elem
<1>6. QED
  BY <1>1, <1>2, <1>3, <1>4, <1>5 DEF HasElemType, ElemType

(* The graph without the quantisation of its input.                        *)
InputStripped(g, q, elem) ==
  [g EXCEPT !.nodes = Kept(@, ToSet(@) \ {q}),
            !.ins[1] = [name |-> q.out, elem |-> elem, dims |-> DimValues(@.dims)]]

LEMMA InputStrippedFacts ==
  ASSUME NEW g, IsGraph(g), g.ins # <<>>, NEW q \in Node, NEW elem \in Elem
  PROVE  LET r == InputStripped(g, q, elem)
         IN  /\ IsGraph(r) /\ NodesOf(r) = NodesOf(g) \ {q}
             /\ r.outs = g.outs /\ r.inits = g.inits
             /\ r.ins # <<>> /\ Len(r.ins) = Len(g.ins)
             /\ r.ins[1].name = q.out /\ r.ins[1].elem = elem
             /\ r.ins[1].dims = DimValues(g.ins[1].dims)
             /\ \A j \in DOMAIN g.ins \ {1} : r.ins[j] = g.ins[j]
<1> DEFINE r == InputStripped(g, q, elem)
           v == [name |-> q.out, elem |-> elem, dims |-> DimValues(g.ins[1].dims)]
<1>1. g.ins \in Seq(ValueInfo) /\ g.nodes \in Seq(Node)
  BY GraphParts
<1>2. g.ins[1] \in ValueInfo
  BY <1>1
<1>3. v \in ValueInfo
  BY <1>2, ValueInfoFacts, DimValuesTypes DEF ValueInfo, Node
<1>4. /\ DOMAIN r = DOMAIN g /\ r.nodes = Kept(g.nodes, NodesOf(g) \ {q})
      /\ r.ins = [g.ins EXCEPT ![1] = v] /\ r.outs = g.outs
      /\ r.inits = g.inits /\ r.opset = g.opset
  BY DEF InputStripped, IsGraph, NodesOf
<1>5. r.nodes \in Seq(Node) /\ ToSet(r.nodes) = NodesOf(g) \cap (NodesOf(g) \ {q})
  BY <1>1, <1>4, KeptElements DEF NodesOf
<1> HIDE DEF v
<1>6. /\ r.ins \in Seq(ValueInfo) /\ r.ins # <<>> /\ Len(r.ins) = Len(g.ins) /\ r.ins[1] = v
      /\ \A j \in DOMAIN g.ins \ {1} : r.ins[j] = g.ins[j]
  BY <1>1, <1>3, <1>4, OtherFirst
<1> HIDE DEF r
<1>7. IsGraph(r)
  BY <1>1, <1>4, <1>5, <1>6, GraphParts, GraphBuilt DEF IsGraph
<1>8. NodesOf(r) = NodesOf(g) \ {q}
  BY <1>5 DEF NodesOf
<1>9. v.name = q.out /\ v.elem = elem /\ v.dims = DimValues(g.ins[1].dims)
  BY DEF v
<1>10. QED
  BY <1>4, <1>6, <1>7, <1>8, <1>9 DEF r

LEMMA StripInputChanges ==
  ASSUME IsGraph(model), StripInput
  PROVE  /\ pc = "strip_io_quant" /\ model.ins # <<>>
         /\ \E q \in Quantizers :
              /\ TheOnly(Quantizers)
              /\ Step("strip_io_quant", "outputs", InputStripped(model, q, ElemType(q)))
<1>1. model.ins # <<>> /\ TheOnly(Quantizers)
  BY DEF StripInput
<1>2. PICK q \in Quantizers :
        Step("strip_io_quant", "outputs",
            [model EXCEPT !.nodes = Without(q),
               !.ins[1] = [name |-> q.out, elem |-> ElemType(q), dims |-> DimValues(@.dims)]])
  BY DEF StripInput
<1>3. InputStripped(model, q, ElemType(q)) =
        [model EXCEPT !.nodes = Without(q),
               !.ins[1] = [name |-> q.out, elem |-> ElemType(q), dims |-> DimValues(@.dims)]]
  BY DEF InputStripped, Without, NodesOf
<1>4. pc = "strip_io_quant"
  BY <1>2 DEF Step
<1>5. QED
  BY <1>1, <1>2, <1>3, <1>4

LEMMA StripInputTypes ==
  ASSUME TypeInv, StripInput PROVE TypeInv'
<1>1. IsGraph(model)
  BY DEF TypeInv, TypeOK
<1>2. PICK q \in Quantizers :
        /\ TheOnly(Quantizers) /\ model.ins # <<>>
        /\ Step("strip_io_quant", "outputs", InputStripped(model, q, ElemType(q)))
  BY <1>1, StripInputChanges
<1>3. q \in Node /\ ElemType(q) \in Elem
  BY <1>1, <1>2, OnlyNode DEF Quantizers
<1>4. IsGraph(InputStripped(model, q, ElemType(q)))
  BY <1>1, <1>2, <1>3, InputStrippedFacts
<1>5. QED
  BY <1>2, <1>4, StepTypes

LEMMA StripOutputTypes ==
  ASSUME TypeInv, StripOutput PROVE TypeInv'
<1>1. IsGraph(model) /\ k \in Nat /\ Len(model.outs) \in Nat
      /\ new \in [values : Seq(ValueInfo), nodes : Seq(Node)]
  <2>1. IsGraph(model)
    BY DEF TypeInv, TypeOK
  <2>2. model.outs \in Seq(ValueInfo)
    BY <2>1, GraphParts
  <2>3. QED
    BY <2>1, <2>2 DEF TypeInv, TypeOK
<1> DEFINE out == model.outs[k + 1]
<1>2. PICK d \in Dequantizers(out) :
        /\ pc = "outputs" /\ k < Len(model.outs) /\ TheOnly(Dequantizers(out))
        /\ new' = [new EXCEPT !.values = Replacements(
                      [name |-> d.ins[1], elem |-> ElemType(d), dims |-> DimValues(out.dims)])]
        /\ model' = [model EXCEPT !.nodes = Without(d)]
        /\ k' = k + 1
        /\ UNCHANGED <<files, pc, job, was, runs>>
  BY DEF StripOutput
<1>3. d \in Node /\ d.ins[1] \in GivenName /\ ElemType(d) \in Elem
  BY <1>1, <1>2, OnlyNode DEF Dequantizers
<1>4. out \in ValueInfo
  <2>1. k + 1 \in 1 .. Len(model.outs) /\ model.outs \in Seq(ValueInfo)
    BY <1>1, <1>2, GraphParts
  <2>2. QED
    BY <2>1
<1>5. new' \in [values : Seq(ValueInfo), nodes : Seq(Node)]
  <2> DEFINE v == [name |-> d.ins[1], elem |-> ElemType(d), dims |-> DimValues(out.dims)]
  <2>1. v \in ValueInfo
    BY <1>3, <1>4, ValueInfoFacts, DimValuesTypes DEF ValueInfo
  <2> HIDE DEF v
  <2>2. Append(new.values, v) \in Seq(ValueInfo)
    BY <1>1, <2>1
  <2>3. new' = [new EXCEPT !.values = Append(new.values, v)]
    BY <1>2 DEF v, Replacements
  <2>4. QED
    BY <1>1, <2>2, <2>3
<1>6. IsGraph(model') /\ model'.outs = model.outs
  <2>1. model' = [model EXCEPT !.nodes = Kept(@, NodesOf(model) \ {d})]
    BY <1>2 DEF Without
  <2>2. QED
    BY <1>1, <2>1, TakenOut
<1>7. k' \in Nat /\ k' <= Len(model'.outs)
  BY <1>1, <1>2, <1>6
<1>8. QED
  BY <1>2, <1>5, <1>6, <1>7 DEF TypeInv, TypeOK, IsFile, Whole

LEMMA StrippedTypes ==
  ASSUME TypeInv, Stripped PROVE TypeInv'
<1>1. IsGraph(model) /\ new.values \in Seq(ValueInfo)
  BY DEF TypeInv, TypeOK
<1>2. IsGraph([model EXCEPT !.outs = new.values])
  BY <1>1, GraphParts
<1>3. QED
  BY <1>2, StepTypes DEF Stripped

(* The graph whose input is NHWC, and the node that turns it back.         *)
InputWrapped(g) == [g EXCEPT !.ins[1] = Nhwc(g.ins[1])]
ToInput(v) == [op |-> "ToNCHW", ins |-> <<Nhwc(v).name>>, out |-> v.name]
FromOutput(v) == [op |-> "ToNHWC", ins |-> <<v.name>>, out |-> Nhwc(v).name]

LEMMA InputWrappedFacts ==
  ASSUME NEW g, IsGraph(g), g.ins # <<>>, Len(g.ins[1].dims) = 4
  PROVE  LET r == InputWrapped(g)
         IN  /\ IsGraph(r) /\ r.nodes = g.nodes
             /\ r.outs = g.outs /\ r.inits = g.inits
             /\ r.ins # <<>> /\ Len(r.ins) = Len(g.ins)
             /\ g.ins[1] \in ValueInfo
             /\ r.ins[1] = Nhwc(g.ins[1])
             /\ \A j \in DOMAIN g.ins \ {1} : r.ins[j] = g.ins[j]
<1> DEFINE r == InputWrapped(g)
           v == Nhwc(g.ins[1])
<1>1. g.ins \in Seq(ValueInfo)
  BY GraphParts
<1>2. g.ins[1] \in ValueInfo
  BY <1>1
<1>3. v \in ValueInfo
  BY <1>2, NhwcTypes
<1>4. r.nodes = g.nodes /\ r.ins = [g.ins EXCEPT ![1] = v] /\ r.outs = g.outs /\ r.inits = g.inits
      /\ DOMAIN r = DOMAIN g /\ r.opset = g.opset
  BY DEF InputWrapped, IsGraph
<1> HIDE DEF v
<1>5. /\ r.ins \in Seq(ValueInfo) /\ r.ins # <<>> /\ Len(r.ins) = Len(g.ins) /\ r.ins[1] = v
      /\ \A j \in DOMAIN g.ins \ {1} : r.ins[j] = g.ins[j]
  BY <1>1, <1>3, <1>4, OtherFirst
<1> HIDE DEF r
<1>6. IsGraph(r)
  BY <1>4, <1>5, GraphParts, GraphBuilt DEF IsGraph
<1>7. QED
  BY <1>2, <1>4, <1>5, <1>6 DEF r, v

LEMMA WrapNodes ==
  ASSUME NEW v \in ValueInfo, Len(v.dims) = 4
  PROVE  ToInput(v) \in Node /\ FromOutput(v) \in Node /\ Nhwc(v) \in ValueInfo
<1>1. Nhwc(v) \in ValueInfo /\ Nhwc(v).name \in GivenName /\ v.name \in GivenName
  BY NhwcTypes, ValueInfoFacts
<1>2. QED
  BY <1>1, TransposeTypes DEF ToInput, FromOutput

LEMMA WrapInputTypes ==
  ASSUME TypeInv, WrapInput PROVE TypeInv'
<1>1. IsGraph(model) /\ new.values \in Seq(ValueInfo) /\ new \in [values : Seq(ValueInfo), nodes : Seq(Node)]
  BY DEF TypeInv, TypeOK
<1>2. /\ pc = "nhwc_io" /\ model.ins # <<>> /\ Len(model.ins[1].dims) = 4
      /\ model' = InputWrapped(model)
      /\ new' = [new EXCEPT !.nodes = <<ToInput(model.ins[1])>>]
      /\ pc' = "wrap" /\ k' = 0
      /\ UNCHANGED <<files, job, was, runs>>
  BY DEF WrapInput, InputWrapped, ToInput
<1>3. IsGraph(model') /\ model.ins[1] \in ValueInfo
  BY <1>1, <1>2, InputWrappedFacts
<1>4. <<ToInput(model.ins[1])>> \in Seq(Node) /\ <<ToInput(model.ins[1])>> # <<>>
  BY <1>2, <1>3, WrapNodes
<1>5. new' \in [values : Seq(ValueInfo), nodes : Seq(Node)] /\ new'.nodes # <<>>
  BY <1>1, <1>2, <1>4
<1>6. Len(model'.outs) \in Nat
  BY <1>3, GraphParts
<1>7. k' \in Nat /\ k' <= Len(model'.outs)
  BY <1>2, <1>6
<1>8. job'.tool \in Tools
  BY <1>2 DEF TypeInv
<1>9. QED
  BY <1>2, <1>3, <1>5, <1>7, <1>8 DEF TypeInv, TypeOK, IsFile, Whole

LEMMA WrapOutputTypes ==
  ASSUME TypeInv, WrapOutput PROVE TypeInv'
<1>1. /\ IsGraph(model) /\ k \in Nat
      /\ new.values \in Seq(ValueInfo) /\ new.nodes \in Seq(Node) /\ new.nodes # <<>>
  BY DEF TypeInv, TypeOK, WrapOutput
<1>2. model.outs \in Seq(ValueInfo) /\ Len(model.outs) \in Nat
  BY <1>1, GraphParts
<1>3. /\ pc = "wrap" /\ k < Len(model.outs) /\ Len(Wrapped.dims) = 4
      /\ new' = [values |-> Append(new.values, Nhwc(Wrapped)),
                  nodes |-> Append(new.nodes, FromOutput(Wrapped))]
      /\ k' = k + 1
      /\ UNCHANGED <<files, pc, job, model, was, runs>>
  BY DEF WrapOutput, FromOutput
<1>4. Wrapped \in ValueInfo
  <2>1. k + 1 \in 1 .. Len(model.outs)
    BY <1>1, <1>2, <1>3
  <2>2. QED
    BY <1>2, <2>1 DEF Wrapped
<1>5. Append(new.values, Nhwc(Wrapped)) \in Seq(ValueInfo)
  BY <1>1, <1>3, <1>4, WrapNodes
<1>6. Append(new.nodes, FromOutput(Wrapped)) \in Seq(Node) /\ Append(new.nodes, FromOutput(Wrapped)) # <<>>
  <2>1. FromOutput(Wrapped) \in Node
    BY <1>3, <1>4, WrapNodes
  <2>2. QED
    BY <1>1, <2>1, AppendFacts
<1>7. new' \in [values : Seq(ValueInfo), nodes : Seq(Node)] /\ new'.nodes # <<>>
  BY <1>3, <1>5, <1>6
<1>8. k' \in Nat /\ k' <= Len(model.outs)
  BY <1>1, <1>2, <1>3
<1>9. QED
  BY <1>3, <1>7, <1>8 DEF TypeInv, TypeOK, IsFile, Whole

(* The graph with all Transposes, in their places.                         *)
WithTransposes(g, values, nodes) ==
  [g EXCEPT !.outs = values, !.nodes = <<Head(nodes)>> \o @ \o Tail(nodes)]

LEMMA AllWrapped ==
  ASSUME NEW g, IsGraph(g), NEW values \in Seq(ValueInfo), NEW nodes \in Seq(Node), nodes # <<>>
  PROVE  LET r == WithTransposes(g, values, nodes)
         IN  /\ IsGraph(r) /\ r.outs = values /\ r.ins = g.ins /\ r.inits = g.inits
             /\ NodesOf(r) = NodesOf(g) \cup ToSet(nodes)
<1> DEFINE r == WithTransposes(g, values, nodes)
           all == <<Head(nodes)>> \o g.nodes \o Tail(nodes)
<1>1. g.nodes \in Seq(Node)
  BY GraphParts
<1>2. Head(nodes) \in Node /\ Tail(nodes) \in Seq(Node)
  OBVIOUS
<1>3. <<Head(nodes)>> \in Seq(Node)
  BY <1>2
<1>4. all \in Seq(Node)
  BY <1>1, <1>2, <1>3
<1>5. /\ DOMAIN r = DOMAIN g /\ r.nodes = all /\ r.outs = values /\ r.ins = g.ins
      /\ r.inits = g.inits /\ r.opset = g.opset
  BY DEF IsGraph, WithTransposes
<1> HIDE DEF r
<1>6. ToSet(all) = NodesOf(g) \cup ToSet(nodes)
  <2>1. ToSet(all) = ToSet(<<Head(nodes)>> \o g.nodes) \cup ToSet(Tail(nodes))
    <3> DEFINE front == <<Head(nodes)>> \o g.nodes
    <3>1. front \in Seq(Node)
      BY <1>1, <1>3
    <3> HIDE DEF front
    <3>2. ToSet(front \o Tail(nodes)) = ToSet(front) \cup ToSet(Tail(nodes))
      BY <1>2, <3>1, ConcatElements
    <3>3. QED
      BY <3>2 DEF front
  <2>2. ToSet(<<Head(nodes)>> \o g.nodes) = ToSet(<<Head(nodes)>>) \cup NodesOf(g)
    BY <1>1, <1>3, ConcatElements DEF NodesOf
  <2>3. ToSet(<<Head(nodes)>>) \cup ToSet(Tail(nodes)) = ToSet(nodes)
    BY HeadTailElements
  <2> HIDE DEF all
  <2>4. QED
    BY <2>1, <2>2, <2>3
<1> HIDE DEF all
<1>7. IsGraph(r)
  BY <1>4, <1>5, GraphParts, GraphBuilt DEF IsGraph
<1>8. NodesOf(r) = NodesOf(g) \cup ToSet(nodes)
  BY <1>5, <1>6 DEF NodesOf
<1>9. QED
  BY <1>5, <1>7, <1>8 DEF r

LEMMA WrapEndsTypes ==
  ASSUME TypeInv, WrapEnds PROVE TypeInv'
<1> DEFINE r == WithTransposes(model, new.values, new.nodes)
<1>1. Step("wrap", "check", r) /\ pc = "wrap"
  BY DEF WrapEnds, Step, WithTransposes
<1>2. /\ IsGraph(model) /\ new.values \in Seq(ValueInfo) /\ new.nodes \in Seq(Node)
      /\ new.nodes # <<>>
  BY <1>1 DEF TypeInv, TypeOK
<1>3. IsGraph(r)
  BY <1>2, AllWrapped
<1> HIDE DEF r
<1>4. QED
  BY <1>1, <1>3, StepTypes

LEMMA SaveTypes ==
  ASSUME TypeInv, Save PROVE TypeInv'
<1>1. job.tool \in Tools
  BY DEF Save, TypeInv
<1>2. ASSUME NEW p \in Paths PROVE IsFile(files'[p])
  <2>1. files'[p] = files[p] \/ files'[p] = Torn
    BY DEF Save, TypeInv, TypeOK
  <2>2. QED
    BY <2>1 DEF IsFile, Whole, TypeInv, TypeOK
<1>3. DOMAIN files' = Paths
  BY DEF Save, TypeInv, TypeOK
<1>4. UNCHANGED <<job, model, k, new, was, runs>> /\ pc' = "saving"
  BY DEF Save
<1>5. QED
  BY <1>1, <1>2, <1>3, <1>4 DEF TypeInv, TypeOK

LEMMA SavedTypes ==
  ASSUME TypeInv, Saved PROVE TypeInv'
<1> DEFINE f == [graph |-> model, was |-> was, job |-> job]
<1>1. IsFile(f)
  BY DEF IsFile, TypeInv, TypeOK
<1>2. files' = [files EXCEPT ![job.dst] = f] /\ Gone
  BY DEF Saved
<1> HIDE DEF f
<1>3. DOMAIN files = Paths /\ \A p \in Paths : IsFile(files[p])
  BY DEF TypeInv, TypeOK
<1>4. DOMAIN files' = Paths
  BY <1>2, <1>3
<1>5. ASSUME NEW p \in Paths PROVE IsFile(files'[p])
  <2>1. files'[p] = files[p] \/ files'[p] = f
    BY <1>2, <1>3
  <2>2. QED
    BY <1>1, <1>3, <2>1
<1>6. QED
  BY <1>2, <1>4, <1>5, GoneTypes

LEMMA Raises ==
  ASSUME LoadFails \/ ConversionFails \/ StripInputFails \/ StripOutputFails \/ WrapFails
           \/ CheckFails \/ Kill
  PROVE  Raise
BY DEF LoadFails, ConversionFails, StripInputFails, StripOutputFails, WrapFails, CheckFails, Kill

LEMMA TypeInvNext == TypeInv /\ [Next]_vars => TypeInv'
<1> SUFFICES ASSUME TypeInv, [Next]_vars PROVE TypeInv'
  OBVIOUS
<1>0. IsGraph(model)
  BY DEF TypeInv, TypeOK
<1>1. CASE Start
  BY <1>1, StartTypes
<1>2. CASE Load
  BY <1>2, LoadTypes
<1>3. CASE LoadFails \/ ConversionFails \/ StripInputFails \/ StripOutputFails \/ WrapFails
             \/ CheckFails \/ Kill
  BY <1>3, Raises, RaiseTypes
<1>4. CASE PrepareModel \/ Retarget
  BY <1>4, PrepareTypes
<1>5. CASE Converted \/ Upgrade
  BY <1>5, ConversionTypes
<1>6. CASE FreezeRound
  BY <1>6, FreezeTypes
<1>7. CASE FreezeEnds
  BY <1>0, <1>7, StepTypes DEF FreezeEnds
<1>8. CASE PruneRound
  BY <1>8, PruneTypes
<1>9. CASE PruneEnds
  BY <1>0, <1>9, StepTypes DEF PruneEnds
<1>10. CASE StripInput
  BY <1>10, StripInputTypes
<1>11. CASE StripOutput
  BY <1>11, StripOutputTypes
<1>12. CASE Stripped
  BY <1>12, StrippedTypes
<1>13. CASE WrapInput
  BY <1>13, WrapInputTypes
<1>14. CASE WrapOutput
  BY <1>14, WrapOutputTypes
<1>15. CASE WrapEnds
  BY <1>15, WrapEndsTypes
<1>16. CASE Check
  BY <1>0, <1>16, StepTypes DEF Check
<1>17. CASE Save
  BY <1>17, SaveTypes
<1>18. CASE Saved
  BY <1>18, SavedTypes
<1>19. CASE UNCHANGED vars
  BY <1>19 DEF vars, TypeInv, TypeOK, IsFile, Whole
<1>20. QED
  BY <1>1, <1>2, <1>3, <1>4, <1>5, <1>6, <1>7, <1>8, <1>9, <1>10, <1>11, <1>12, <1>13, <1>14,
     <1>15, <1>16, <1>17, <1>18, <1>19 DEF Next

(* Every variable keeps its type: what is in memory and in the files is a  *)
(* graph after every step of every tool, whichever node it has removed,    *)
(* frozen or put in, and no loop goes past its last round or output.       *)
THEOREM TypeCorrect == Spec => []TypeOK
<1>1. TypeInv => TypeOK
  BY DEF TypeInv
<1>2. QED
  BY InitTypes, TypeInvNext, <1>1, PTL DEF Spec

-----------------------------------------------------------------------------
(* What is saved runs *)

(* The places a tool passes before it has its graph checked.               *)
StageOf(tool) ==
  CASE tool = "prepare_model"  -> {"prepare_model", "convert"}
    [] tool = "prepare_style"  -> {"prepare_style", "upgrade", "freeze", "prune"}
    [] tool = "strip_io_quant" -> {"strip_io_quant", "outputs"}
    [] tool = "nhwc_io"        -> {"nhwc_io", "wrap"}

(* A graph whose input is what the quantisation of the input was, which    *)
(* lacks nothing but that input and outputs of dequantisations, and whose  *)
(* first n outputs are `values`: what was dequantised there.               *)
BehindQuantisation(w, g, values, n) ==
  /\ NodesOf(g) \subseteq NodesOf(w) /\ g.inits = w.inits
  /\ w.ins # <<>> /\ Len(g.ins) = Len(w.ins)
  /\ \A j \in DOMAIN w.ins \ {1} : g.ins[j] = w.ins[j]
  /\ \E q \in NodesOf(w) :
       /\ q.op = "QuantizeLinear" /\ q.ins[1] = w.ins[1].name
       /\ Len(q.ins) > 2 /\ q.ins[3] \in DOMAIN w.inits
       /\ g.ins[1].name = q.out /\ g.ins[1].elem = w.inits[q.ins[3]].elem
  /\ \A m \in Tensors(w) \ Tensors(g) :
       \/ m = w.ins[1].name
       \/ \E d \in NodesOf(w) : d.op = "DequantizeLinear" /\ d.out = m
  /\ Len(values) = n
  /\ \A j \in 1 .. n : \E d \in NodesOf(w) :
       d.op = "DequantizeLinear" /\ d.out = w.outs[j].name /\ d.ins[1] = values[j].name

(* The input is NHWC, and so far the first n outputs.                      *)
WrappedUpTo(w, g, nodes, values, n) ==
  /\ w.ins # <<>> /\ Len(w.ins[1].dims) = 4
  /\ g.ins = InputWrapped(w).ins /\ g.inits = w.inits
  /\ nodes = {ToInput(w.ins[1])} \cup {FromOutput(w.outs[j]) : j \in 1 .. n}
  /\ Len(values) = n
  /\ \A j \in 1 .. n : Len(w.outs[j].dims) = 4 /\ values[j] = Nhwc(w.outs[j])

(* No two nodes yield one tensor.                                          *)
UniqueOuts(g) == \A m, n \in NodesOf(g) : m.out = n.out => m = n

(* What a run has done so far.  While it rewrites the boundary, the graph  *)
(* is not one that runs; only what was removed or put in is known.         *)
(* Whether the names of nhwc_io were free is for the checker to find out.  *)
Progress ==
  /\ pc \in StageOf(job.tool) \cup {"check", "save", "saving"}
  /\ Usable(was) /\ NamesFree(model)
  /\ Typed(model) \/ (pc = "check" /\ ~CheckModel(model))
  /\ pc \in Tools => model = was /\ new = Nobody
  /\ pc \in {"convert", "upgrade", "freeze", "prune"} =>
       UniqueOuts(model) /\ NamesOf(model.outs) \subseteq Tensors(model)
  /\ pc = "outputs" => BehindQuantisation(was, model, new.values, k) /\ model.outs = was.outs
  /\ pc = "wrap" => WrappedUpTo(was, model, ToSet(new.nodes), new.values, k)
                      /\ model.nodes = was.nodes /\ model.outs = was.outs
  /\ pc \in {"check", "save", "saving"} =>
       /\ NamesOf(model.outs) \subseteq Tensors(model)
       /\ job.tool = "strip_io_quant" =>
            BehindQuantisation(was, model, model.outs, Len(was.outs))
       /\ job.tool = "nhwc_io" => \E nodes \in SUBSET NodesOf(model) :
            WrappedUpTo(was, model, nodes, model.outs, Len(was.outs))
              /\ NodesOf(model) = NodesOf(was) \cup nodes
  /\ pc \in {"save", "saving"} => CheckModel(model)

(* A file that is whole can be given to any of the tools.                  *)
FileUsable(file) == Whole(file) => Usable(file.graph) /\ Usable(file.was)

(* The invariant: WellFormed alone does not survive a run on a saved       *)
(* graph, which must have all that the tools count on.                     *)
UseInv ==
  /\ \A p \in Paths : FileUsable(files[p])
  /\ pc \in {"idle", "load"} => new = Nobody
  /\ pc \notin {"idle", "load"} => Progress

LEMMA NamesOfElements ==
  ASSUME NEW s
  PROVE  NamesOf(s) = {v.name : v \in ToSet(s)}
BY DEF NamesOf, ToSet

(* What a graph that is in order says of its names.                        *)
LEMMA InOrder ==
  ASSUME NEW g, IsGraph(g), CheckModel(g)
  PROVE  /\ UniqueOuts(g)
         /\ \A n \in NodesOf(g) : n.out \notin Given(g) /\ n.out \in Tensors(g) /\ n.out # NoName
         /\ \A n \in NodesOf(g) : ToSet(n.ins) \subseteq Tensors(g) \cup {NoName}
         /\ \A n \in NodesOf(g) : n.ins[1] \in ToSet(n.ins) /\ n.ins[1] \in Tensors(g)
<1>1. DOMAIN g.nodes = 1 .. Len(g.nodes) /\ Len(g.nodes) \in Nat
  BY GraphFacts
<1>2. ASSUME NEW i \in 1 .. Len(g.nodes), NEW j \in 1 .. Len(g.nodes), i < j
      PROVE  g.nodes[i].out # g.nodes[j].out
  <2>1. i \in 1 .. j - 1
    BY <1>1, <1>2
  <2>2. g.nodes[i].out \in Before(g, j)
    BY <2>1 DEF Before
  <2>3. g.nodes[j].out \notin Before(g, j)
    BY <1>1 DEF CheckModel
  <2>4. QED
    BY <2>2, <2>3
<1>3. UniqueOuts(g)
  <2>1. SUFFICES ASSUME NEW m \in NodesOf(g), NEW n \in NodesOf(g), m.out = n.out
                 PROVE  m = n
    BY DEF UniqueOuts
  <2>2. PICK i \in 1 .. Len(g.nodes) : m = g.nodes[i]
    BY GraphFacts
  <2>3. PICK j \in 1 .. Len(g.nodes) : n = g.nodes[j]
    BY GraphFacts
  <2>4. ~(i < j) /\ ~(j < i)
    BY <1>2, <2>1, <2>2, <2>3
  <2>5. i = j
    BY <1>1, <2>4
  <2>6. QED
    BY <2>2, <2>3, <2>5
<1>4. ASSUME NEW n \in NodesOf(g)
      PROVE  /\ n.out \notin Given(g) /\ n.out \in Tensors(g) /\ n.out # NoName
             /\ ToSet(n.ins) \subseteq Tensors(g) \cup {NoName}
             /\ n.ins[1] \in ToSet(n.ins) /\ n.ins[1] \in Tensors(g)
  <2>1. PICK j \in 1 .. Len(g.nodes) : n = g.nodes[j]
    BY GraphFacts
  <2>2. /\ ToSet(n.ins) \subseteq Before(g, j) \cup {NoName}
        /\ n.out \notin Before(g, j)
    BY <1>1, <2>1 DEF CheckModel
  <2>3. Before(g, j) \subseteq Tensors(g)
    <3>1. \A i \in 1 .. j - 1 : i \in 1 .. Len(g.nodes)
      BY <1>1
    <3>2. \A i \in 1 .. j - 1 : g.nodes[i].out \in Produced(g)
      BY <3>1, GraphFacts DEF Produced
    <3>3. QED
      BY <3>2 DEF Before, Tensors
  <2>4. Given(g) \subseteq Before(g, j)
    BY DEF Before
  <2>5. n \in Node
    BY GraphFacts
  <2>6. n.ins[1] \in ToSet(n.ins) /\ n.ins[1] # NoName /\ n.out # NoName
    <3>1. n.ins \in Seq(Name) /\ n.ins # <<>> /\ n.ins[1] # NoName /\ n.out # NoName
      BY <2>5 DEF Node, GivenName
    <3>2. 1 \in DOMAIN n.ins
      BY <3>1
    <3>3. QED
      BY <3>1, <3>2 DEF ToSet
  <2>7. n.out \in Tensors(g)
    BY DEF Tensors, Produced
  <2>8. QED
    BY <2>2, <2>3, <2>4, <2>6, <2>7
<1>5. QED
  BY <1>3, <1>4

(* A node as another step left it.                                         *)
Like(n, m) ==
  /\ n.out = m.out /\ n.ins[1] = m.ins[1]
  /\ n.op = m.op \/ (n.op = "Resize" /\ m.op = "Upsample")

LEMMA TypedLike ==
  ASSUME NEW g, Typed(g), NEW r, NamesOf(r.outs) = NamesOf(g.outs),
         \A n \in NodesOf(r) : \E m \in NodesOf(g) :
           /\ Like(n, m)
           /\ ToSet(m.ins) \cap Sizes(g) = {} => ToSet(n.ins) \cap Sizes(g) = {}
  PROVE  Typed(r)
<1>1. Sizes(r) \subseteq Sizes(g)
  BY DEF Sizes, Like
<1>2. ASSUME NEW m \in NodesOf(r), NEW n \in NodesOf(r)
      PROVE  /\ m.op = "DequantizeLinear" /\ n.op = "DequantizeLinear" => m.out # n.ins[1]
             /\ m.op = "QuantizeLinear" /\ n.op = "DequantizeLinear" => m.ins[1] # n.ins[1]
  <2>1. PICK m0 \in NodesOf(g) : Like(m, m0)
    OBVIOUS
  <2>2. PICK n0 \in NodesOf(g) : Like(n, n0)
    OBVIOUS
  <2>3. QED
    BY <2>1, <2>2 DEF Like, Typed
<1>3. ASSUME NEW n \in NodesOf(r), n.op \notin {"Floor", "Ratio2", "Ratio3"}
      PROVE  ToSet(n.ins) \cap Sizes(r) = {}
  <2>1. PICK m \in NodesOf(g) :
          /\ Like(n, m)
          /\ ToSet(m.ins) \cap Sizes(g) = {} => ToSet(n.ins) \cap Sizes(g) = {}
    OBVIOUS
  <2>2. m.op \notin {"Floor", "Ratio2", "Ratio3"}
    BY <1>3, <2>1 DEF Like
  <2>3. QED
    BY <1>1, <2>1, <2>2 DEF Typed
<1>4. NamesOf(r.outs) \cap Sizes(r) = {}
  BY <1>1 DEF Typed
<1>5. QED
  BY <1>2, <1>3, <1>4 DEF Typed

LEMMA Stages ==
  ASSUME NEW tool \in Tools, NEW stage
  PROVE  stage \in StageOf(tool) <=>
           \/ tool = "prepare_model" /\ stage \in {"prepare_model", "convert"}
           \/ tool = "prepare_style" /\ stage \in {"prepare_style", "upgrade", "freeze", "prune"}
           \/ tool = "strip_io_quant" /\ stage \in {"strip_io_quant", "outputs"}
           \/ tool = "nhwc_io" /\ stage \in {"nhwc_io", "wrap"}
<1>1. tool = "prepare_model" \/ tool = "prepare_style" \/ tool = "strip_io_quant" \/ tool = "nhwc_io"
  BY DEF Tools
<1>2. /\ StageOf("prepare_model") = {"prepare_model", "convert"}
      /\ StageOf("prepare_style") = {"prepare_style", "upgrade", "freeze", "prune"}
      /\ StageOf("strip_io_quant") = {"strip_io_quant", "outputs"}
      /\ StageOf("nhwc_io") = {"nhwc_io", "wrap"}
  BY DEF StageOf
<1>3. QED
  BY <1>1, <1>2

LEMMA InitUse == Init => UseInv
<1> SUFFICES ASSUME Init PROVE UseInv
  OBVIOUS
<1>1. ASSUME NEW p \in Paths, Whole(files[p]) PROVE Usable(files[p].graph) /\ Usable(files[p].was)
  <2>1. PICK g \in Sources : files[p] = [graph |-> g, was |-> g, job |-> NoJob]
    BY <1>1 DEF Init, Whole
  <2>2. QED
    BY <2>1, SourcesAssumption
<1>2. pc = "idle" /\ new = Nobody
  BY DEF Init
<1>3. QED
  BY <1>1, <1>2 DEF UseInv, FileUsable

LEMMA GoneUse ==
  ASSUME Gone, \A p \in Paths : FileUsable(files'[p])
  PROVE  UseInv'
BY DEF Gone, UseInv

LEMMA RaiseUse ==
  ASSUME UseInv, Raise
  PROVE  UseInv'
<1>1. \A p \in Paths : FileUsable(files'[p])
  BY DEF Raise, UseInv
<1>2. QED
  BY <1>1, GoneUse DEF Raise

LEMMA StartUse ==
  ASSUME UseInv, Start
  PROVE  UseInv'
<1>1. pc' = "load" /\ files' = files /\ new' = new /\ pc = "idle"
  BY DEF Start
<1>2. \A p \in Paths : FileUsable(files'[p])
  BY <1>1 DEF UseInv
<1>3. QED
  BY <1>1, <1>2 DEF UseInv

LEMMA LoadUse ==
  ASSUME TypeInv, UseInv, Load
  PROVE  UseInv'
<1>1. job.tool \in Tools /\ job.src \in Paths
  BY JobFacts DEF TypeInv, TypeOK, Load
<1>2. /\ pc = "load" /\ Whole(files[job.src]) /\ pc' = job.tool
      /\ model' = files[job.src].graph /\ was' = model'
      /\ files' = files /\ job' = job /\ new' = new
  BY DEF Load
<1>3. Usable(was') /\ new' = Nobody
  BY <1>1, <1>2 DEF UseInv, FileUsable
<1>4. pc' \in StageOf(job.tool)
  BY <1>1, <1>2 DEF StageOf, Tools
<1>5. pc' \notin {"idle", "load", "convert", "upgrade", "freeze", "prune", "outputs", "wrap", "check", "save", "saving"}
  BY <1>1, <1>2 DEF Tools
<1>6. Progress'
  BY <1>2, <1>3, <1>4, <1>5 DEF Progress, Usable
<1>7. \A p \in Paths : FileUsable(files'[p])
  BY <1>2 DEF UseInv
<1>8. QED
  BY <1>5, <1>6, <1>7 DEF UseInv

(* Changes that leave names and nodes alone.                               *)
LEMMA PinNames ==
  ASSUME NEW s \in Seq(ValueInfo)
  PROVE  /\ DOMAIN PinSymbols(s) = DOMAIN s
         /\ \A j \in DOMAIN s : PinSymbols(s)[j].name = s[j].name /\ PinSymbols(s)[j].elem = s[j].elem
<1>1. \A j \in DOMAIN s : DOMAIN s[j] = {"name", "elem", "dims"}
  <2>1. \A j \in DOMAIN s : s[j] \in ValueInfo
    OBVIOUS
  <2>2. QED
    BY <2>1 DEF ValueInfo
<1>2. QED
  BY <1>1 DEF PinSymbols

LEMMA ResizedNames ==
  ASSUME NEW s \in Seq(ValueInfo), NEW height, NEW width
  PROVE  /\ DOMAIN Resized(s, height, width) = DOMAIN s
         /\ \A j \in DOMAIN s : Resized(s, height, width)[j].name = s[j].name /\ Resized(s, height, width)[j].elem = s[j].elem
<1>1. \A j \in DOMAIN s : DOMAIN s[j] = {"name", "elem", "dims"}
  <2>1. \A j \in DOMAIN s : s[j] \in ValueInfo
    OBVIOUS
  <2>2. QED
    BY <2>1 DEF ValueInfo
<1>2. QED
  BY <1>1 DEF Resized

(* A graph made ready for another size: nothing changes but dimensions,    *)
(* and inputs that are weights go.                                         *)
Reshaped(r, g) ==
  /\ r.nodes = g.nodes /\ r.inits = g.inits
  /\ DOMAIN r.outs = DOMAIN g.outs
  /\ \A j \in DOMAIN g.outs : r.outs[j].name = g.outs[j].name
  /\ NamesOf(r.ins) = NamesOf(g.ins) \ DOMAIN g.inits
  /\ \A v \in ToSet(r.ins) : \E w \in ToSet(g.ins) : v.name = w.name /\ v.elem = w.elem

LEMMA RealInputsReshaped ==
  ASSUME NEW g, IsGraph(g), NEW s, DOMAIN s = DOMAIN RealInputs(g),
         \A j \in DOMAIN s : s[j].name = RealInputs(g)[j].name /\ s[j].elem = RealInputs(g)[j].elem
  PROVE  /\ NamesOf(s) = NamesOf(g.ins) \ DOMAIN g.inits
         /\ \A v \in ToSet(s) : \E w \in ToSet(g.ins) : v.name = w.name /\ v.elem = w.elem
<1>1. ToSet(RealInputs(g)) = {v \in ToSet(g.ins) : v.name \notin DOMAIN g.inits}
  BY RealInputsTypes
<1>2. NamesOf(s) = NamesOf(RealInputs(g))
  BY DEF NamesOf
<1>3. NamesOf(RealInputs(g)) = NamesOf(g.ins) \ DOMAIN g.inits
  BY <1>1, NamesOfElements
<1>4. \A v \in ToSet(s) : \E w \in ToSet(RealInputs(g)) : v.name = w.name /\ v.elem = w.elem
  BY DEF ToSet
<1>5. QED
  BY <1>1, <1>2, <1>3, <1>4

LEMMA PrepareReshapes ==
  ASSUME IsGraph(model), PrepareModel \/ Retarget
  PROVE  /\ Reshaped(model', model)
         /\ \/ pc = "prepare_model" /\ pc' = "convert"
            \/ pc = "prepare_style" /\ pc' = "upgrade"
         /\ UNCHANGED <<files, job, new, was>>
<1>1. RealInputs(model) \in Seq(ValueInfo) /\ model.outs \in Seq(ValueInfo)
  BY RealInputsTypes, GraphParts
<1>2. CASE PrepareModel
  <2>1. /\ model'.nodes = model.nodes /\ model'.inits = model.inits
        /\ model'.ins = PinSymbols(RealInputs(model)) /\ model'.outs = PinSymbols(model.outs)
    BY <1>2 DEF PrepareModel, Step, IsGraph
  <2>2. QED
    BY <1>1, <1>2, <2>1, PinNames, RealInputsReshaped DEF Reshaped, PrepareModel, Step
<1>3. CASE Retarget
  <2>1. /\ model'.nodes = model.nodes /\ model'.inits = model.inits
        /\ model'.ins = Resized(RealInputs(model), job.height, job.width)
        /\ model'.outs = Resized(model.outs, job.height, job.width)
    BY <1>3 DEF Retarget, Retargeted, Step, IsGraph
  <2>2. QED
    BY <1>1, <1>3, <2>1, ResizedNames, RealInputsReshaped DEF Reshaped, Retarget, Step
<1>4. QED
  BY <1>2, <1>3

LEMMA ReshapedFacts ==
  ASSUME NEW g, NEW r, Reshaped(r, g)
  PROVE  /\ NodesOf(r) = NodesOf(g) /\ Tensors(r) = Tensors(g) /\ Given(r) = Given(g)
         /\ NamesOf(r.outs) = NamesOf(g.outs)
BY DEF Reshaped, NodesOf, Tensors, Given, Produced, NamesOf

(* Other tensors matter to NamesFree only if they are named like factors.  *)
LEMMA NamesFreeLike ==
  ASSUME NEW g, NamesFree(g), NEW r,
         \A n \in NodesOf(r) : n.op \in {"Resize", "Upsample"} /\ ~Frozen(n) =>
           \E m \in NodesOf(g) : m.op \in {"Resize", "Upsample"} /\ ~Frozen(m) /\ n.out = m.out,
         \A n \in NodesOf(r) : n.op \in {"Resize", "Upsample"} /\ ~Frozen(n) =>
           (Scales(n) \in Tensors(r) => Scales(n) \in Tensors(g)),
         \A m \in DOMAIN r.inits \ DOMAIN g.inits : Last(m) = "_scales"
  PROVE  NamesFree(r)
BY DEF NamesFree, Scales

LEMMA PrepareUse ==
  ASSUME TypeInv, UseInv, PrepareModel \/ Retarget
  PROVE  UseInv'
<1>1. IsGraph(model)
  BY DEF TypeInv, TypeOK
<1>2. /\ Reshaped(model', model)
      /\ \/ pc = "prepare_model" /\ pc' = "convert"
         \/ pc = "prepare_style" /\ pc' = "upgrade"
      /\ UNCHANGED <<files, job, new, was>>
  BY <1>1, PrepareReshapes
<1>3. Progress /\ pc \in Tools
  BY <1>2 DEF UseInv, Tools
<1>4. model = was /\ Usable(was)
  BY <1>3 DEF Progress
<1>5. /\ NodesOf(model') = NodesOf(model) /\ Tensors(model') = Tensors(model)
      /\ NamesOf(model'.outs) = NamesOf(model.outs)
  BY <1>2, ReshapedFacts
<1>6. UniqueOuts(model') /\ NamesOf(model'.outs) \subseteq Tensors(model')
  BY <1>4, <1>5, InOrder DEF Usable, UniqueOuts
<1>7. Typed(model') /\ NamesFree(model')
  BY <1>2, <1>4, <1>5 DEF Usable, Typed, Sizes, NamesFree, Reshaped
<1>8. pc' \in StageOf(job'.tool)
  <2>1. job.tool \in Tools /\ pc \in StageOf(job.tool) /\ job' = job
    BY <1>2, <1>3 DEF Progress, TypeInv
  <2>2. QED
    BY <1>2, <2>1, Stages
<1>9. Progress'
  BY <1>2, <1>4, <1>6, <1>7, <1>8 DEF Progress, Tools
<1>10. \A p \in Paths : FileUsable(files'[p])
  BY <1>2 DEF UseInv
<1>11. QED
  BY <1>2, <1>9, <1>10 DEF UseInv

(* What may be asked of a graph that prepare_model or prepare_style has in *)
(* memory, on top of it being one.                                         *)
Kempt(g) ==
  /\ Typed(g) /\ NamesFree(g)
  /\ UniqueOuts(g) /\ NamesOf(g.outs) \subseteq Tensors(g)

(* The version converter, node by node.                                    *)
AsResize(n) ==
  IF n.op = "Upsample"
    THEN [op |-> "Resize", ins |-> <<n.ins[1], NoName, n.ins[2]>>, out |-> n.out]
    ELSE n

LEMMA AsResizeFacts ==
  ASSUME NEW n \in Node
  PROVE  /\ Like(AsResize(n), n)
         /\ ToSet(AsResize(n).ins) \subseteq ToSet(n.ins) \cup {NoName}
         /\ Last(n.ins) = Last(AsResize(n).ins)
         /\ AsResize(n).op # "Upsample"
         /\ AsResize(n).op = "Resize" <=> n.op \in {"Resize", "Upsample"}
         /\ n.op # "Upsample" => AsResize(n) = n
         /\ n.op = "Upsample" => ~Frozen(n)
<1>1. CASE n.op # "Upsample"
  BY <1>1 DEF AsResize, Like
<1>2. CASE n.op = "Upsample"
  <2> DEFINE ins == <<n.ins[1], NoName, n.ins[2]>>
  <2>1. n.ins \in Seq(Name) /\ Len(n.ins) = 2 /\ n.ins[1] # NoName /\ Last(n.ins) # NoName
    BY <1>2 DEF Node
  <2>2. Last(n.ins) = n.ins[2] /\ n.ins[1] \in Name /\ n.ins[2] \in Name
    BY <2>1 DEF Last
  <2>3. n.ins[1] \in GivenName /\ n.ins[2] \in GivenName
    BY <2>1, <2>2 DEF GivenName
  <2>4. ToSet(ins) = {n.ins[1], NoName, n.ins[2]} /\ Last(ins) = n.ins[2] /\ ins[1] = n.ins[1]
    BY <2>3, ThreeOperands
  <2> HIDE DEF ins
  <2>5. AsResize(n) = [op |-> "Resize", ins |-> ins, out |-> n.out]
    BY <1>2 DEF AsResize, ins
  <2>6. {n.ins[1], n.ins[2]} \subseteq ToSet(n.ins)
    BY <2>1 DEF ToSet
  <2>7. ~Frozen(n)
    BY <2>1 DEF Frozen
  <2>8. AsResize(n).op = "Resize" /\ AsResize(n).ins = ins /\ AsResize(n).out = n.out
    BY <2>5
  <2>9. QED
    BY <1>2, <2>2, <2>4, <2>6, <2>7, <2>8 DEF Like
<1>3. QED
  BY <1>1, <1>2

LEMMA ConvertNodes ==
  ASSUME NEW g, IsGraph(g), NEW version \in Nat
  PROVE  LET r == ConvertVersion(g, version)
         IN  /\ NodesOf(r) = {AsResize(n) : n \in NodesOf(g)}
             /\ r.ins = g.ins /\ r.outs = g.outs /\ r.inits = g.inits /\ IsGraph(r)
             /\ Tensors(r) = Tensors(g)
<1> DEFINE r == ConvertVersion(g, version)
<1>1. r.nodes = [j \in DOMAIN g.nodes |-> AsResize(g.nodes[j])]
  BY DEF ConvertVersion, IsGraph, AsResize
<1>2. r.ins = g.ins /\ r.outs = g.outs /\ r.inits = g.inits /\ IsGraph(r)
  BY ConvertTypes
<1> HIDE DEF r
<1>3. NodesOf(r) = {AsResize(n) : n \in NodesOf(g)}
  BY <1>1 DEF NodesOf, ToSet
<1>4. \A n \in NodesOf(g) : AsResize(n).out = n.out
  BY GraphFacts, AsResizeFacts DEF Like
<1>5. Produced(r) = Produced(g)
  BY <1>3, <1>4 DEF Produced
<1>6. QED
  BY <1>2, <1>3, <1>5 DEF r, Tensors, Given

LEMMA NoNameNoSize ==
  ASSUME NEW g, IsGraph(g)
  PROVE  NoName \notin Sizes(g) /\ Sizes(g) \subseteq Tensors(g)
<1>1. \A n \in NodesOf(g) : n.out # NoName
  BY GraphFacts DEF Node, GivenName
<1>2. QED
  BY <1>1 DEF Sizes, Tensors, Produced

LEMMA ConvertKempt ==
  ASSUME NEW g, IsGraph(g), Kempt(g), NEW version \in Nat
  PROVE  Kempt(ConvertVersion(g, version))
<1> DEFINE r == ConvertVersion(g, version)
<1>1. /\ NodesOf(r) = {AsResize(n) : n \in NodesOf(g)}
      /\ r.outs = g.outs /\ r.inits = g.inits /\ Tensors(r) = Tensors(g)
  BY ConvertNodes
<1> HIDE DEF r
<1>2. \A n \in NodesOf(g) : n \in Node
  BY GraphFacts
<1>3. Typed(r)
  <2>1. ASSUME NEW n \in NodesOf(r)
        PROVE  \E m \in NodesOf(g) :
                 /\ Like(n, m)
                 /\ ToSet(m.ins) \cap Sizes(g) = {} => ToSet(n.ins) \cap Sizes(g) = {}
    <3>1. PICK m \in NodesOf(g) : n = AsResize(m)
      BY <1>1
    <3>2. Like(n, m) /\ ToSet(n.ins) \subseteq ToSet(m.ins) \cup {NoName}
      BY <1>2, <3>1, AsResizeFacts
    <3>3. QED
      BY <3>2, NoNameNoSize
  <2>2. QED
    BY <1>1, <2>1, TypedLike DEF Kempt
<1>4. UniqueOuts(r)
  BY <1>1, <1>2, AsResizeFacts DEF UniqueOuts, Kempt, Like
<1>5. NamesFree(r)
  <2>1. ASSUME NEW n \in NodesOf(r), n.op \in {"Resize", "Upsample"}, ~Frozen(n)
        PROVE  \E m \in NodesOf(g) : m.op \in {"Resize", "Upsample"} /\ ~Frozen(m) /\ n.out = m.out
    <3>1. PICK m \in NodesOf(g) : n = AsResize(m)
      BY <1>1
    <3>2. QED
      BY <1>2, <2>1, <3>1, AsResizeFacts DEF Like
  <2>2. QED
    BY <1>1, <2>1, NamesFreeLike DEF Kempt
<1>6. QED
  BY <1>1, <1>3, <1>4, <1>5 DEF Kempt, r

LEMMA ConversionUse ==
  ASSUME TypeInv, UseInv, Converted \/ Upgrade
  PROVE  UseInv'
<1>1. IsGraph(model) /\ job.tool \in Tools
  BY DEF TypeInv, TypeOK, Converted, Upgrade, Step
<1>2. pc \in {"convert", "upgrade"}
  BY DEF Converted, Upgrade, Step
<1>3. Progress
  BY <1>2 DEF UseInv
<1>4. Kempt(model) /\ Usable(was) /\ pc \in StageOf(job.tool)
  BY <1>2, <1>3 DEF Progress, Kempt
<1>5. /\ Kempt(model')
      /\ \/ pc = "convert" /\ pc' = "check"
         \/ pc = "upgrade" /\ pc' = "freeze"
      /\ UNCHANGED <<files, job, new, was>>
  <2>1. TARGET_OPSET \in Nat /\ 13 \in Nat
    BY DEF TARGET_OPSET
  <2>2. CASE Converted
    <3>1. model' = model \/ model' = ConvertVersion(model, TARGET_OPSET)
      BY <2>2 DEF Converted, Step
    <3>2. QED
      BY <1>1, <1>4, <2>1, <2>2, <3>1, ConvertKempt DEF Converted, Step
  <2>3. CASE Upgrade
    <3>1. model' = ConvertVersion(model, 13)
      BY <2>3 DEF Upgrade, Step
    <3>2. QED
      BY <1>1, <1>4, <2>1, <2>3, <3>1, ConvertKempt DEF Upgrade, Step
  <2>4. QED
    BY <2>2, <2>3
<1>6. \/ pc' = "check" /\ job'.tool = "prepare_model"
      \/ pc' = "freeze" /\ job'.tool = "prepare_style" /\ pc' \in StageOf(job'.tool)
  BY <1>1, <1>4, <1>5, Stages
<1>7. Progress'
  BY <1>4, <1>5, <1>6 DEF Progress, Kempt, Tools
<1>8. \A p \in Paths : FileUsable(files'[p])
  BY <1>5 DEF UseInv
<1>9. QED
  BY <1>5, <1>7, <1>8 DEF UseInv

(* A Resize that is frozen is taken for frozen.                            *)
LEMMA AsFrozenLike ==
  ASSUME NEW n \in Node, n.op = "Resize"
  PROVE  /\ Like(AsFrozen(n), n) /\ AsFrozen(n).op = "Resize"
         /\ ToSet(AsFrozen(n).ins) = {n.ins[1], NoName, Scales(n)}
         /\ Last(AsFrozen(n).ins) = Scales(n)
         /\ Frozen(AsFrozen(n))
<1> DEFINE ins == <<n.ins[1], NoName, Scales(n)>>
<1>1. n.ins[1] \in GivenName /\ Scales(n) \in GivenName /\ Last(Scales(n)) = "_scales"
  <2>1. n.ins \in Seq(Name) /\ n.ins # <<>> /\ n.ins[1] # NoName
    BY DEF Node
  <2>2. QED
    BY <2>1, ScalesName DEF GivenName
<1>2. /\ ToSet(ins) = {n.ins[1], NoName, Scales(n)} /\ Last(ins) = Scales(n)
      /\ Len(ins) = 3 /\ ins[1] = n.ins[1] /\ ins[3] = Scales(n)
  BY <1>1, ThreeOperands
<1> HIDE DEF ins
<1>3. AsFrozen(n) = [op |-> "Resize", ins |-> ins, out |-> n.out]
  BY AsFrozenFacts DEF ins
<1>4. AsFrozen(n).op = "Resize" /\ AsFrozen(n).ins = ins /\ AsFrozen(n).out = n.out
  BY <1>3
<1>5. Scales(n) # NoName /\ Len(ins) > 2
  BY <1>1, <1>2 DEF GivenName
<1>6. QED
  BY <1>1, <1>2, <1>4, <1>5 DEF Like, Frozen

LEMMA FreezeKempt ==
  ASSUME NEW g, IsGraph(g), Kempt(g), NEW now, now \subseteq NodesOf(g),
         \A n \in now : n.op = "Resize" /\ ~Frozen(n)
  PROVE  Kempt(Freeze(g, now))
<1> DEFINE r == Freeze(g, now)
           scales == {Scales(n) : n \in now}
<1>1. /\ r.ins = g.ins /\ r.outs = g.outs
      /\ NodesOf(r) = (NodesOf(g) \ now) \cup {AsFrozen(n) : n \in now}
      /\ DOMAIN r.inits = DOMAIN g.inits \cup scales
  BY FreezeFacts
<1> HIDE DEF r
<1>2. \A n \in NodesOf(g) : n \in Node
  BY GraphFacts
<1>3. \A n \in now :
        /\ Like(AsFrozen(n), n) /\ Frozen(AsFrozen(n))
        /\ ToSet(AsFrozen(n).ins) = {n.ins[1], NoName, Scales(n)}
        /\ AsFrozen(n).out = n.out
  BY <1>2, AsFrozenLike DEF Like
<1>4. Tensors(r) = Tensors(g) \cup scales
  <2>1. Produced(r) = Produced(g)
    BY <1>1, <1>3 DEF Produced
  <2>2. QED
    BY <1>1, <2>1 DEF Tensors, Given
<1>5. \A n \in now : Scales(n) \notin Tensors(g)
  BY DEF Kempt, NamesFree
<1>6. UniqueOuts(r)
  <2>1. SUFFICES ASSUME NEW m \in NodesOf(r), NEW n \in NodesOf(r), m.out = n.out
                 PROVE  m = n
    BY DEF UniqueOuts
  <2>2. PICK m0 \in NodesOf(g) : m.out = m0.out /\ m = IF m0 \in now THEN AsFrozen(m0) ELSE m0
    BY <1>1, <1>3
  <2>3. PICK n0 \in NodesOf(g) : n.out = n0.out /\ n = IF n0 \in now THEN AsFrozen(n0) ELSE n0
    BY <1>1, <1>3
  <2>4. m0 = n0
    BY <2>1, <2>2, <2>3 DEF Kempt, UniqueOuts
  <2>5. QED
    BY <2>2, <2>3, <2>4
<1>7. Typed(r)
  <2>1. ASSUME NEW n \in NodesOf(r)
        PROVE  \E m \in NodesOf(g) :
                 /\ Like(n, m)
                 /\ ToSet(m.ins) \cap Sizes(g) = {} => ToSet(n.ins) \cap Sizes(g) = {}
    <3>1. CASE n \in NodesOf(g)
      BY <3>1 DEF Like
    <3>2. CASE n \notin NodesOf(g)
      <4>1. PICK m \in now : n = AsFrozen(m)
        BY <1>1, <3>2
      <4>2. Scales(m) \notin Sizes(g) /\ NoName \notin Sizes(g)
        BY <1>5, NoNameNoSize
      <4>3. m.ins[1] \in ToSet(m.ins)
        <5>1. m.ins \in Seq(Name) /\ m.ins # <<>>
          BY <1>2 DEF Node
        <5>2. 1 \in DOMAIN m.ins
          BY <5>1
        <5>3. QED
          BY <5>2 DEF ToSet
      <4>4. QED
        BY <1>3, <4>1, <4>2, <4>3
    <3>3. QED
      BY <3>1, <3>2
  <2>2. QED
    BY <1>1, <2>1, TypedLike DEF Kempt
<1>8. NamesFree(r)
  <2>1. ASSUME NEW n \in NodesOf(r), n.op \in {"Resize", "Upsample"}, ~Frozen(n)
        PROVE  n \in NodesOf(g) \ now
    BY <1>1, <1>3, <2>1
  <2>2. ASSUME NEW n \in NodesOf(r), n.op \in {"Resize", "Upsample"}, ~Frozen(n),
               Scales(n) \in Tensors(r)
        PROVE  Scales(n) \in Tensors(g)
    <3>1. n \in NodesOf(g) \ now
      BY <2>1, <2>2
    <3>2. SUFFICES ASSUME NEW m \in now, Scales(n) = Scales(m) PROVE FALSE
      BY <1>4, <2>2
    <3>3. n.out \in Name /\ m.out \in Name /\ "_scales" \in Words
      BY <1>2, <3>1, GraphToolsAssumption DEF Node, GivenName
    <3>4. n.out = m.out
      BY <3>2, <3>3, AppendFacts DEF Scales, Name
    <3>5. QED
      BY <3>1, <3>4 DEF Kempt, UniqueOuts
  <2>3. \A m \in DOMAIN r.inits \ DOMAIN g.inits : Last(m) = "_scales"
    BY <1>1, <1>2, ScalesName
  <2>4. QED
    BY <2>1, <2>2, <2>3, NamesFreeLike DEF Kempt
<1>9. NamesOf(r.outs) \subseteq Tensors(r)
  BY <1>1, <1>4 DEF Kempt
<1>10. QED
  BY <1>6, <1>7, <1>8, <1>9 DEF Kempt, r

(* A graph with fewer nodes, none of which makes an output.                *)
LEMMA FewerKempt ==
  ASSUME NEW g, Kempt(g), NEW r, NodesOf(r) \subseteq NodesOf(g),
         r.ins = g.ins, r.outs = g.outs, r.inits = g.inits,
         \A n \in NodesOf(g) \ NodesOf(r) : n.out \notin NamesOf(g.outs)
  PROVE  Kempt(r)
<1>1. Tensors(r) \subseteq Tensors(g)
  BY DEF Tensors, Given, Produced
<1>2. Typed(r)
  BY TypedLike DEF Kempt, Like
<1>3. NamesFree(r)
  BY <1>1, NamesFreeLike DEF Kempt
<1>4. NamesOf(r.outs) \subseteq Tensors(r)
  BY DEF Kempt, Tensors, Given, Produced
<1>5. QED
  BY <1>2, <1>3, <1>4 DEF Kempt, UniqueOuts

(* The rounds of prepare_style, and where they end.                        *)
LEMMA RoundChanges ==
  ASSUME IsGraph(model), Kempt(model), FreezeRound \/ FreezeEnds \/ PruneRound \/ PruneEnds
  PROVE  /\ Kempt(model')
         /\ \/ pc = "freeze" /\ pc' = "freeze"
            \/ pc = "freeze" /\ pc' = "prune"
            \/ pc = "prune" /\ pc' = "prune"
            \/ pc = "prune" /\ pc' = "check"
         /\ UNCHANGED <<files, job, new, was>>
<1>1. CASE FreezeRound
  <2>1. model' = Freeze(model, Freezable(model))
    BY <1>1 DEF FreezeRound
  <2>2. /\ Freezable(model) \subseteq NodesOf(model)
        /\ \A n \in Freezable(model) : n.op = "Resize" /\ ~Frozen(n)
    BY DEF Freezable
  <2>3. QED
    BY <1>1, <2>1, <2>2, FreezeKempt DEF FreezeRound
<1>2. CASE FreezeEnds
  BY <1>2 DEF FreezeEnds, Step
<1>3. CASE PruneRound
  <2>1. /\ NodesOf(model') = NodesOf(model) \cap (NodesOf(model) \ Dead(model))
        /\ model'.ins = model.ins /\ model'.outs = model.outs /\ model'.inits = model.inits
    BY <1>3, TakenOut DEF PruneRound
  <2>2. \A n \in NodesOf(model) \ NodesOf(model') : n.out \notin NamesOf(model.outs)
    BY <2>1 DEF Dead
  <2>3. QED
    BY <1>3, <2>1, <2>2, FewerKempt DEF PruneRound
<1>4. CASE PruneEnds
  BY <1>4 DEF PruneEnds, Step
<1>5. QED
  BY <1>1, <1>2, <1>3, <1>4

LEMMA RoundUse ==
  ASSUME TypeInv, UseInv, FreezeRound \/ FreezeEnds \/ PruneRound \/ PruneEnds
  PROVE  UseInv'
<1>1. pc \in {"freeze", "prune"}
  BY DEF FreezeRound, FreezeEnds, PruneRound, PruneEnds, Step
<1>2. IsGraph(model) /\ job.tool \in Tools
  BY <1>1 DEF TypeInv, TypeOK
<1>3. Progress
  BY <1>1 DEF UseInv
<1>4. Kempt(model) /\ Usable(was) /\ pc \in StageOf(job.tool)
  BY <1>1, <1>3 DEF Progress, Kempt
<1>5. /\ Kempt(model')
      /\ \/ pc = "freeze" /\ pc' = "freeze"
         \/ pc = "freeze" /\ pc' = "prune"
         \/ pc = "prune" /\ pc' = "prune"
         \/ pc = "prune" /\ pc' = "check"
      /\ UNCHANGED <<files, job, new, was>>
  BY <1>2, <1>4, RoundChanges
<1>6. /\ job'.tool = "prepare_style"
      /\ \/ pc' = "check"
         \/ pc' \in {"freeze", "prune"} /\ pc' \in StageOf(job'.tool)
  BY <1>2, <1>4, <1>5, Stages
<1>7. Progress'
  BY <1>4, <1>5, <1>6 DEF Progress, Kempt, Tools
<1>8. \A p \in Paths : FileUsable(files'[p])
  BY <1>5 DEF UseInv
<1>9. QED
  BY <1>5, <1>7, <1>8 DEF UseInv

(* strip_io_quant takes the quantisation of the input away,                *)
LEMMA StripInputUse ==
  ASSUME TypeInv, UseInv, StripInput
  PROVE  UseInv'
<1>1. IsGraph(model) /\ IsGraph(was)
  BY DEF TypeInv, TypeOK
<1>2. PICK q \in Quantizers :
        /\ TheOnly(Quantizers) /\ model.ins # <<>> /\ pc = "strip_io_quant"
        /\ Step("strip_io_quant", "outputs", InputStripped(model, q, ElemType(q)))
  BY <1>1, StripInputChanges
<1>3. Progress /\ job.tool \in Tools
  BY <1>2 DEF UseInv, TypeInv
<1>4. model = was /\ new = Nobody /\ Usable(was) /\ pc \in StageOf(job.tool)
  BY <1>2, <1>3 DEF Progress, Tools
<1>5. q \in NodesOf(was) /\ q.op = "QuantizeLinear" /\ q.ins[1] = was.ins[1].name
  BY <1>4 DEF Quantizers
<1>6. /\ q \in Node /\ Len(q.ins) > 2 /\ q.ins[3] \in DOMAIN was.inits
      /\ ElemType(q) = was.inits[q.ins[3]].elem /\ ElemType(q) \in Elem
  <2>1. Quantizers \subseteq NodesOf(model)
    BY DEF Quantizers
  <2>2. QED
    BY <1>1, <1>2, <1>4, <2>1, OnlyNode
<1>7. /\ NodesOf(model') = NodesOf(was) \ {q}
      /\ model'.outs = was.outs /\ model'.inits = was.inits
      /\ Len(model'.ins) = Len(was.ins)
      /\ model'.ins[1].name = q.out /\ model'.ins[1].elem = ElemType(q)
      /\ \A j \in DOMAIN was.ins \ {1} : model'.ins[j] = was.ins[j]
  <2>1. model' = InputStripped(was, q, ElemType(q))
    BY <1>2, <1>4 DEF Step
  <2>2. was.ins # <<>>
    BY <1>2, <1>4
  <2>3. QED
    BY <1>1, <1>6, <2>1, <2>2, InputStrippedFacts
<1>8. pc' = "outputs" /\ k' = 0 /\ UNCHANGED <<files, job, new, was>>
  BY <1>2 DEF Step
<1>9. DOMAIN was.ins = DOMAIN model'.ins /\ 1 \in DOMAIN was.ins
  <2>1. IsGraph(model')
    BY <1>1, <1>2, <1>6, InputStrippedFacts DEF Step
  <2>2. was.ins \in Seq(ValueInfo) /\ model'.ins \in Seq(ValueInfo) /\ was.ins # <<>>
    BY <1>1, <1>2, <1>4, <2>1, GraphParts
  <2>3. QED
    BY <1>7, <2>2
<1>10. Tensors(model') \subseteq Tensors(was)
  <2>1. q.out \in Tensors(was)
    BY <1>5 DEF Tensors, Produced
  <2>2. NamesOf(model'.ins) \subseteq NamesOf(was.ins) \cup {q.out}
    BY <1>7, <1>9 DEF NamesOf
  <2>3. QED
    BY <1>7, <2>1, <2>2 DEF Tensors, Given, Produced
<1>11. ASSUME NEW m \in Tensors(was) \ Tensors(model')
       PROVE  m = was.ins[1].name
  <2>1. q.out \in NamesOf(model'.ins)
    BY <1>7, <1>9 DEF NamesOf
  <2>2. Produced(was) \subseteq Produced(model') \cup {q.out}
    BY <1>7 DEF Produced
  <2>3. NamesOf(was.ins) \subseteq NamesOf(model'.ins) \cup {was.ins[1].name}
    BY <1>7, <1>9 DEF NamesOf
  <2>4. QED
    BY <1>7, <2>1, <2>2, <2>3 DEF Tensors, Given
<1>12. BehindQuantisation(was, model, new.values, k)'
  <2>1. Len(new'.values) = 0 /\ new'.values = <<>>
    BY <1>4, <1>8 DEF Nobody
  <2>2. was.ins # <<>>
    BY <1>2, <1>4
  <2>3. QED
    BY <1>5, <1>6, <1>7, <1>8, <1>11, <2>1, <2>2 DEF BehindQuantisation
<1>13. Typed(model') /\ NamesFree(model')
  <2>1. Typed(model')
    BY <1>4, <1>7, TypedLike DEF Usable, Like
  <2>2. NamesFree(model')
    BY <1>4, <1>7, <1>10, NamesFreeLike DEF Usable
  <2>3. QED
    BY <2>1, <2>2
<1>14. pc' \in StageOf(job'.tool)
  BY <1>2, <1>3, <1>4, <1>8, Stages
<1>15. Progress'
  BY <1>4, <1>7, <1>8, <1>12, <1>13, <1>14 DEF Progress, Tools
<1>16. \A p \in Paths : FileUsable(files'[p])
  BY <1>8 DEF UseInv
<1>17. QED
  BY <1>8, <1>15, <1>16 DEF UseInv

(* then the dequantisation of each output,                                 *)
LEMMA StripOutputUse ==
  ASSUME TypeInv, UseInv, StripOutput
  PROVE  UseInv'
<1>1. IsGraph(model) /\ IsGraph(was) /\ k \in Nat /\ new.values \in Seq(ValueInfo)
  BY DEF TypeInv, TypeOK
<1> DEFINE out == model.outs[k + 1]
<1>2. PICK d \in Dequantizers(out) :
        /\ pc = "outputs" /\ k < Len(model.outs) /\ TheOnly(Dequantizers(out))
        /\ new' = [new EXCEPT !.values = Replacements(
                      [name |-> d.ins[1], elem |-> ElemType(d), dims |-> DimValues(out.dims)])]
        /\ model' = [model EXCEPT !.nodes = Without(d)]
        /\ k' = k + 1
        /\ UNCHANGED <<files, pc, job, was, runs>>
  BY DEF StripOutput
<1>3. Progress
  BY <1>2 DEF UseInv
<1>4. /\ BehindQuantisation(was, model, new.values, k) /\ model.outs = was.outs
      /\ Usable(was) /\ Typed(model) /\ NamesFree(model) /\ pc \in StageOf(job.tool)
  BY <1>2, <1>3 DEF Progress
<1>5. /\ NodesOf(model') = NodesOf(model) \cap (NodesOf(model) \ {d})
      /\ model'.outs = was.outs /\ model'.inits = model.inits /\ model'.ins = model.ins
  <2>1. model' = [model EXCEPT !.nodes = Kept(@, NodesOf(model) \ {d})]
    BY <1>2 DEF Without
  <2>2. QED
    BY <1>1, <1>4, <2>1, TakenOut
<1>6. d \in NodesOf(was) /\ d.op = "DequantizeLinear" /\ d.out = was.outs[k + 1].name
  BY <1>4 DEF Dequantizers, BehindQuantisation
<1>7. Tensors(model') \subseteq Tensors(model) /\ Tensors(model) \subseteq Tensors(model') \cup {d.out}
  BY <1>5 DEF Tensors, Given, Produced
<1>8. /\ Len(new'.values) = k + 1 /\ new'.values[k + 1].name = d.ins[1]
      /\ \A j \in 1 .. k : new'.values[j] = new.values[j]
  <2> DEFINE v == [name |-> d.ins[1], elem |-> ElemType(d), dims |-> DimValues(out.dims)]
  <2>1. v.name = d.ins[1]
    OBVIOUS
  <2> HIDE DEF v
  <2>2. new'.values = Append(new.values, v)
    <3>1. new' = [new EXCEPT !.values = Append(new.values, v)]
      BY <1>2 DEF v, Replacements
    <3>2. new \in [values : Seq(ValueInfo), nodes : Seq(Node)]
      BY DEF TypeInv, TypeOK
    <3>3. QED
      BY <3>1, <3>2
  <2>3. Len(new.values) = k
    BY <1>4 DEF BehindQuantisation
  <2>4. QED
    BY <1>1, <2>1, <2>2, <2>3
<1>9. BehindQuantisation(was, model, new.values, k)'
  <2>1. ASSUME NEW j \in 1 .. k + 1
        PROVE  \E n \in NodesOf(was) :
                 n.op = "DequantizeLinear" /\ n.out = was.outs[j].name /\ n.ins[1] = new'.values[j].name
    <3>1. CASE j = k + 1
      BY <1>6, <1>8, <3>1
    <3>2. CASE j # k + 1
      <4>1. j \in 1 .. k
        BY <1>1, <3>2
      <4>2. \E n \in NodesOf(was) :
              n.op = "DequantizeLinear" /\ n.out = was.outs[j].name /\ n.ins[1] = new.values[j].name
        BY <1>4, <4>1 DEF BehindQuantisation
      <4>3. new'.values[j] = new.values[j]
        BY <1>8, <4>1
      <4>4. QED
        BY <4>2, <4>3
    <3>3. QED
      BY <3>1, <3>2
  <2>2. ASSUME NEW m \in Tensors(was) \ Tensors(model')
        PROVE  \/ m = was.ins[1].name
               \/ \E n \in NodesOf(was) : n.op = "DequantizeLinear" /\ n.out = m
    <3>1. m = d.out \/ m \in Tensors(was) \ Tensors(model)
      BY <1>7
    <3>2. QED
      BY <1>4, <1>6, <3>1 DEF BehindQuantisation
  <2>3. NodesOf(model') \subseteq NodesOf(was)
    BY <1>4, <1>5 DEF BehindQuantisation
  <2>4. /\ was' = was /\ k' = k + 1 /\ Len(new'.values) = k'
    BY <1>2, <1>8
  <2>5. QED
    BY <1>4, <1>5, <2>1, <2>2, <2>3, <2>4 DEF BehindQuantisation
<1>10. Typed(model') /\ NamesFree(model')
  <2>1. Typed(model')
    BY <1>4, <1>5, TypedLike DEF Like
  <2>2. NamesFree(model')
    BY <1>4, <1>5, <1>7, NamesFreeLike
  <2>3. QED
    BY <2>1, <2>2
<1>11. pc' \in StageOf(job'.tool) /\ pc' = "outputs"
  BY <1>2, <1>4
<1>12. Progress'
  BY <1>2, <1>4, <1>5, <1>9, <1>10, <1>11 DEF Progress, Tools
<1>13. \A p \in Paths : FileUsable(files'[p])
  BY <1>2 DEF UseInv
<1>14. QED
  BY <1>11, <1>12, <1>13 DEF UseInv

(* and what was dequantised there is all still made.                       *)
LEMMA StrippedOutputs ==
  ASSUME IsGraph(was), Usable(was), NEW g, NEW n,
         NEW values, DOMAIN values = 1 .. n, BehindQuantisation(was, g, values, n)
  PROVE  NamesOf(values) \cap Sizes(g) = {} /\ NamesOf(values) \subseteq Tensors(g)
<1>1. PICK q \in NodesOf(was) : q.op = "QuantizeLinear" /\ q.ins[1] = was.ins[1].name
  BY DEF BehindQuantisation
<1>2. ASSUME NEW d \in NodesOf(was), d.op = "DequantizeLinear"
      PROVE  d.ins[1] \in Tensors(g) /\ d.ins[1] \notin Sizes(g)
  <2>1. d.ins[1] \in Tensors(was) /\ d.ins[1] \in ToSet(d.ins)
    BY InOrder DEF Usable
  <2>2. d.ins[1] # was.ins[1].name
    BY <1>1, <1>2 DEF Usable, Typed
  <2>3. \A m \in NodesOf(was) : m.op = "DequantizeLinear" => m.out # d.ins[1]
    BY <1>2 DEF Usable, Typed
  <2>4. d.ins[1] \in Tensors(g)
    BY <2>1, <2>2, <2>3 DEF BehindQuantisation
  <2>5. d.ins[1] \notin Sizes(was)
    BY <1>2, <2>1 DEF Usable, Typed
  <2>6. Sizes(g) \subseteq Sizes(was)
    BY DEF BehindQuantisation, Sizes
  <2>7. QED
    BY <2>4, <2>5, <2>6
<1>3. \A j \in 1 .. n : \E d \in NodesOf(was) :
        d.op = "DequantizeLinear" /\ d.ins[1] = values[j].name
  BY DEF BehindQuantisation
<1>4. QED
  BY <1>2, <1>3 DEF NamesOf

LEMMA StrippedUse ==
  ASSUME TypeInv, UseInv, Stripped
  PROVE  UseInv'
<1>1. IsGraph(model) /\ IsGraph(was) /\ k \in Nat /\ new.values \in Seq(ValueInfo)
  BY DEF TypeInv, TypeOK
<1>2. /\ pc = "outputs" /\ pc' = "check" /\ k = Len(model.outs)
      /\ model' = [model EXCEPT !.outs = new.values]
      /\ UNCHANGED <<files, job, new, was>>
  BY DEF Stripped, Step
<1>3. Progress /\ job.tool \in Tools
  BY <1>2 DEF UseInv, TypeInv
<1>4. /\ BehindQuantisation(was, model, new.values, k) /\ model.outs = was.outs
      /\ Usable(was) /\ Typed(model) /\ NamesFree(model) /\ pc \in StageOf(job.tool)
  BY <1>2, <1>3 DEF Progress
<1>5. /\ model'.nodes = model.nodes /\ model'.ins = model.ins /\ model'.inits = model.inits
      /\ model'.outs = new.values
  BY <1>1, <1>2 DEF IsGraph
<1>6. NodesOf(model') = NodesOf(model) /\ Tensors(model') = Tensors(model) /\ Sizes(model') = Sizes(model)
  BY <1>5 DEF NodesOf, Tensors, Given, Produced, Sizes
<1>7. DOMAIN new.values = 1 .. k
  <2>1. Len(new.values) = k
    BY <1>4 DEF BehindQuantisation
  <2>2. QED
    BY <1>1, <2>1
<1>8. NamesOf(new.values) \cap Sizes(model) = {} /\ NamesOf(new.values) \subseteq Tensors(model)
  BY <1>1, <1>4, <1>7, StrippedOutputs
<1>9. BehindQuantisation(was, model, model.outs, Len(was.outs))'
  <2>1. Len(was.outs) = k
    BY <1>2, <1>4
  <2>2. QED
    BY <1>2, <1>4, <1>5, <1>6, <2>1 DEF BehindQuantisation
<1>10. Typed(model') /\ NamesFree(model')
  <2>1. Typed(model')
    BY <1>4, <1>5, <1>6, <1>8 DEF Typed
  <2>2. NamesFree(model')
    BY <1>4, <1>5, <1>6 DEF NamesFree
  <2>3. QED
    BY <2>1, <2>2
<1>11. job'.tool = "strip_io_quant"
  BY <1>2, <1>3, <1>4, Stages
<1>12. Progress'
  BY <1>2, <1>4, <1>5, <1>6, <1>8, <1>9, <1>10, <1>11 DEF Progress, Tools
<1>13. \A p \in Paths : FileUsable(files'[p])
  BY <1>2 DEF UseInv
<1>14. QED
  BY <1>2, <1>12, <1>13 DEF UseInv

-----------------------------------------------------------------------------
(* What is called NHWC is not called scales.                               *)
LEMMA NotScales ==
  ASSUME NEW n \in Node, NEW v \in ValueInfo, Len(v.dims) = 4
  PROVE  Scales(n) # Nhwc(v).name
<1>1. Last(Scales(n)) = "_scales"
  BY ScalesName
<1>2. Nhwc(v).name = Append(v.name, "_nhwc") /\ v.name \in Name /\ "_nhwc" \in Words
  BY NhwcTypes, ValueInfoFacts, GraphToolsAssumption DEF GivenName
<1>3. Last(Nhwc(v).name) = "_nhwc"
  BY <1>2, NameEnds
<1>4. QED
  BY <1>1, <1>3

(* nhwc_io: the input,                                                     *)
LEMMA WrapInputUse ==
  ASSUME TypeInv, UseInv, WrapInput
  PROVE  UseInv'
<1>1. IsGraph(model) /\ IsGraph(was)
  BY DEF TypeInv, TypeOK
<1>2. /\ pc = "nhwc_io" /\ model.ins # <<>> /\ Len(model.ins[1].dims) = 4
      /\ model' = InputWrapped(model)
      /\ new' = [new EXCEPT !.nodes = <<ToInput(model.ins[1])>>]
      /\ pc' = "wrap" /\ k' = 0
      /\ UNCHANGED <<files, job, was>>
  BY DEF WrapInput, InputWrapped, ToInput
<1>3. Progress /\ job.tool \in Tools
  BY <1>2 DEF UseInv, TypeInv
<1>4. model = was /\ new = Nobody /\ Usable(was) /\ pc \in StageOf(job.tool)
  BY <1>2, <1>3 DEF Progress, Tools
<1>5. /\ model'.nodes = was.nodes /\ model'.outs = was.outs /\ model'.inits = was.inits
      /\ Len(model'.ins) = Len(was.ins) /\ was.ins[1] \in ValueInfo
      /\ model'.ins[1] = Nhwc(was.ins[1]) /\ IsGraph(model')
      /\ \A j \in DOMAIN was.ins \ {1} : model'.ins[j] = was.ins[j]
  <2>1. was.ins # <<>> /\ Len(was.ins[1].dims) = 4
    BY <1>2, <1>4
  <2>2. QED
    BY <1>1, <1>2, <1>4, <2>1, InputWrappedFacts
<1>6. new'.values = <<>> /\ new'.nodes = <<ToInput(was.ins[1])>> /\ Len(new'.values) = 0
  BY <1>2, <1>4 DEF Nobody
<1>7. WrappedUpTo(was, model, ToSet(new.nodes), new.values, k)'
  <2>1. ToSet(new'.nodes) = {ToInput(was.ins[1])}
    BY <1>6 DEF ToSet
  <2>2. QED
    BY <1>2, <1>4, <1>5, <1>6, <2>1 DEF WrappedUpTo
<1>8. Typed(model')
  BY <1>4, <1>5 DEF Usable, Typed, NodesOf, Sizes
<1>9. NodesOf(model') = NodesOf(was)
  BY <1>5 DEF NodesOf
<1>10. NamesFree(model')
  <2>1. Tensors(model') \subseteq Tensors(was) \cup {Nhwc(was.ins[1]).name}
    <3>1. DOMAIN model'.ins = DOMAIN was.ins
      <4>1. was.ins \in Seq(ValueInfo) /\ model'.ins \in Seq(ValueInfo)
        BY <1>1, <1>5, GraphParts
      <4>2. QED
        BY <1>5, <4>1
    <3>2. NamesOf(model'.ins) \subseteq NamesOf(was.ins) \cup {Nhwc(was.ins[1]).name}
      BY <1>5, <3>1 DEF NamesOf
    <3>3. QED
      BY <1>5, <1>9, <3>2 DEF Tensors, Given, Produced
  <2>2. ASSUME NEW n \in NodesOf(was)
        PROVE  Scales(n) # Nhwc(was.ins[1]).name
    BY <1>1, <1>2, <1>4, <1>5, GraphFacts, NotScales
  <2>3. QED
    BY <1>4, <1>5, <1>9, <2>1, <2>2, NamesFreeLike DEF Usable
<1>11. pc' \in StageOf(job'.tool)
  BY <1>2, <1>3, <1>4, Stages
<1>12. Progress'
  BY <1>2, <1>4, <1>5, <1>7, <1>8, <1>10, <1>11 DEF Progress, Tools
<1>13. \A p \in Paths : FileUsable(files'[p])
  BY <1>2 DEF UseInv
<1>14. QED
  BY <1>2, <1>12, <1>13 DEF UseInv

(* the outputs one by one,                                                 *)
LEMMA WrapOutputUse ==
  ASSUME TypeInv, UseInv, WrapOutput
  PROVE  UseInv'
<1>1. IsGraph(model) /\ IsGraph(was) /\ k \in Nat /\ new.values \in Seq(ValueInfo) /\ new.nodes \in Seq(Node)
  BY DEF TypeInv, TypeOK
<1>2. /\ pc = "wrap" /\ k < Len(model.outs) /\ Len(Wrapped.dims) = 4
      /\ new' = [values |-> Append(new.values, Nhwc(Wrapped)),
                  nodes |-> Append(new.nodes, FromOutput(Wrapped))]
      /\ k' = k + 1
      /\ UNCHANGED <<files, pc, job, model, was>>
  BY DEF WrapOutput, FromOutput
<1>3. Progress
  BY <1>2 DEF UseInv
<1>4. WrappedUpTo(was, model, ToSet(new.nodes), new.values, k) /\ model.outs = was.outs
  BY <1>2, <1>3 DEF Progress
<1>5. Wrapped = was.outs[k + 1] /\ Wrapped \in ValueInfo
  <2>1. k + 1 \in 1 .. Len(model.outs) /\ model.outs \in Seq(ValueInfo)
    BY <1>1, <1>2, GraphParts
  <2>2. QED
    BY <1>4, <2>1 DEF Wrapped
<1>6. /\ Len(new'.values) = k + 1 /\ new'.values[k + 1] = Nhwc(was.outs[k + 1])
      /\ \A j \in 1 .. k : new'.values[j] = new.values[j]
  <2>1. new'.values = Append(new.values, Nhwc(Wrapped)) /\ Len(new.values) = k
    BY <1>2, <1>4 DEF WrappedUpTo
  <2> DEFINE v == Nhwc(Wrapped)
  <2> HIDE DEF v
  <2>2. new'.values = Append(new.values, v)
    BY <2>1 DEF v
  <2>3. Len(new'.values) = k + 1 /\ new'.values[k + 1] = v
        /\ \A j \in 1 .. k : new'.values[j] = new.values[j]
    BY <1>1, <2>1, <2>2
  <2>4. QED
    BY <1>5, <2>3 DEF v
<1>7. ToSet(new'.nodes) = {ToInput(was.ins[1])} \cup {FromOutput(was.outs[j]) : j \in 1 .. k + 1}
  <2>1. FromOutput(Wrapped) \in Node
    BY <1>2, <1>5, WrapNodes
  <2>2. ToSet(new'.nodes) = ToSet(new.nodes) \cup {FromOutput(Wrapped)}
    BY <1>1, <1>2, <2>1, AppendElements
  <2>3. 1 .. k + 1 = (1 .. k) \cup {k + 1}
    BY <1>1
  <2>4. ToSet(new.nodes) = {ToInput(was.ins[1])} \cup {FromOutput(was.outs[j]) : j \in 1 .. k}
    BY <1>4 DEF WrappedUpTo
  <2>5. QED
    BY <1>5, <2>2, <2>3, <2>4
<1>8. WrappedUpTo(was, model, ToSet(new.nodes), new.values, k)'
  <2>1. ASSUME NEW j \in 1 .. k + 1
        PROVE  Len(was.outs[j].dims) = 4 /\ new'.values[j] = Nhwc(was.outs[j])
    <3>1. CASE j = k + 1
      BY <1>2, <1>5, <1>6, <3>1
    <3>2. CASE j # k + 1
      <4>1. j \in 1 .. k
        BY <1>1, <3>2
      <4>2. Len(was.outs[j].dims) = 4 /\ new.values[j] = Nhwc(was.outs[j])
        BY <1>4, <4>1 DEF WrappedUpTo
      <4>3. QED
        BY <1>6, <4>1, <4>2
    <3>3. QED
      BY <3>1, <3>2
  <2>2. QED
    BY <1>2, <1>4, <1>6, <1>7, <2>1 DEF WrappedUpTo
<1>9. Progress'
  BY <1>2, <1>3, <1>8 DEF Progress, Tools
<1>10. \A p \in Paths : FileUsable(files'[p])
  BY <1>2 DEF UseInv
<1>11. QED
  BY <1>2, <1>9, <1>10 DEF UseInv

(* and all Transposes in their places.  Whether the new names were free is *)
(* for the checker to say.                                                 *)
LEMMA WrappedTyped ==
  ASSUME IsGraph(was), Usable(was), NEW r, IsGraph(r), CheckModel(r), NEW nodes,
         NEW values, DOMAIN values = DOMAIN was.outs,
         r.ins # <<>>, WrappedUpTo(was, r, nodes, values, Len(was.outs)),
         NodesOf(r) = NodesOf(was) \cup nodes, r.outs = values
  PROVE  Typed(r)
<1>0. /\ was.ins # <<>> /\ DOMAIN was.outs = 1 .. Len(was.outs)
      /\ nodes = {ToInput(was.ins[1])} \cup {FromOutput(was.outs[j]) : j \in DOMAIN was.outs}
      /\ \A j \in DOMAIN was.outs : r.outs[j] = Nhwc(was.outs[j])
      /\ r.ins[1] = Nhwc(was.ins[1])
  <2>1. was.outs \in Seq(ValueInfo)
    BY GraphParts
  <2>2. DOMAIN was.outs = 1 .. Len(was.outs)
    BY <2>1
  <2>3. r.ins = InputWrapped(was).ins /\ was.ins # <<>> /\ Len(was.ins[1].dims) = 4
    BY DEF WrappedUpTo
  <2>4. r.ins[1] = Nhwc(was.ins[1])
    BY <2>3, InputWrappedFacts
  <2>5. QED
    BY <2>2, <2>3, <2>4 DEF WrappedUpTo
<1>1. \A n \in nodes : n.op \in {"ToNCHW", "ToNHWC"}
  BY <1>0 DEF ToInput, FromOutput
<1>2. Sizes(r) = Sizes(was)
  BY <1>1 DEF Sizes
<1>3. Nhwc(was.ins[1]).name \notin Sizes(r)
  <2>1. 1 \in DOMAIN r.ins
    <3>1. r.ins \in Seq(ValueInfo)
      BY GraphParts
    <3>2. QED
      BY <3>1
  <2>2. Nhwc(was.ins[1]).name \in Given(r)
    BY <1>0, <2>1 DEF Given, NamesOf
  <2>3. QED
    BY <2>2, InOrder DEF Sizes
<1>4. \A j \in DOMAIN was.outs : was.outs[j].name \notin Sizes(r)
  BY <1>2 DEF Usable, Typed, NamesOf
<1>5. ASSUME NEW j \in DOMAIN was.outs PROVE Nhwc(was.outs[j]).name \notin Sizes(r)
  <2>1. FromOutput(was.outs[j]) \in NodesOf(r) /\ FromOutput(was.outs[j]).op = "ToNHWC"
        /\ FromOutput(was.outs[j]).out = Nhwc(was.outs[j]).name
    BY <1>0 DEF FromOutput
  <2>2. UniqueOuts(r)
    BY InOrder
  <2>3. QED
    BY <2>1, <2>2 DEF Sizes, UniqueOuts
<1>6. ASSUME NEW n \in NodesOf(r), n.op \notin {"Floor", "Ratio2", "Ratio3"}
      PROVE  ToSet(n.ins) \cap Sizes(r) = {}
  <2>1. CASE n \in NodesOf(was)
    BY <1>2, <1>6, <2>1 DEF Usable, Typed
  <2>2. CASE n = ToInput(was.ins[1])
    <3>1. ToSet(n.ins) = {Nhwc(was.ins[1]).name}
      BY <2>2 DEF ToInput, ToSet
    <3>2. QED
      BY <1>3, <3>1
  <2>3. CASE \E j \in DOMAIN was.outs : n = FromOutput(was.outs[j])
    <3>1. PICK j \in DOMAIN was.outs : n = FromOutput(was.outs[j])
      BY <2>3
    <3>2. ToSet(n.ins) = {was.outs[j].name}
      BY <3>1 DEF FromOutput, ToSet
    <3>3. QED
      BY <1>4, <3>2
  <2>4. QED
    BY <1>0, <2>1, <2>2, <2>3
<1>7. NamesOf(r.outs) \cap Sizes(r) = {}
  BY <1>0, <1>5 DEF NamesOf
<1>8. ASSUME NEW m \in NodesOf(r), NEW n \in NodesOf(r)
      PROVE  /\ m.op = "DequantizeLinear" /\ n.op = "DequantizeLinear" => m.out # n.ins[1]
             /\ m.op = "QuantizeLinear" /\ n.op = "DequantizeLinear" => m.ins[1] # n.ins[1]
  BY <1>1 DEF Usable, Typed
<1>9. QED
  BY <1>6, <1>7, <1>8 DEF Typed

LEMMA WrapEndsUse ==
  ASSUME TypeInv, UseInv, WrapEnds
  PROVE  UseInv'
<1> DEFINE r == WithTransposes(model, new.values, new.nodes)
           added == ToSet(new.nodes)
<1>1. /\ pc = "wrap" /\ pc' = "check" /\ k = Len(model.outs) /\ model' = r
      /\ UNCHANGED <<files, job, new, was>>
  BY DEF WrapEnds, Step, WithTransposes
<1>2. /\ IsGraph(model) /\ IsGraph(was) /\ new.values \in Seq(ValueInfo)
      /\ new.nodes \in Seq(Node) /\ new.nodes # <<>>
  BY <1>1 DEF TypeInv, TypeOK
<1>3. Progress /\ job.tool \in Tools
  BY <1>1 DEF UseInv, TypeInv
<1>4. /\ WrappedUpTo(was, model, added, new.values, k) /\ model.outs = was.outs /\ model.nodes = was.nodes
      /\ Usable(was) /\ pc \in StageOf(job.tool) /\ NamesFree(model)
  BY <1>1, <1>3 DEF Progress
<1>5. /\ IsGraph(model') /\ model'.outs = new.values /\ model'.ins = model.ins
      /\ model'.inits = model.inits /\ NodesOf(model') = NodesOf(was) \cup added
  <2>1. /\ IsGraph(r) /\ r.outs = new.values /\ r.ins = model.ins
        /\ r.inits = model.inits /\ NodesOf(r) = NodesOf(model) \cup added
    BY <1>2, AllWrapped
  <2> HIDE DEF r, added
  <2>2. NodesOf(model) = NodesOf(was)
    BY <1>4 DEF NodesOf
  <2>3. QED
    BY <1>1, <2>1, <2>2
<1> HIDE DEF r
<1>6. /\ WrappedUpTo(was, model', added, new.values, Len(was.outs))
      /\ k = Len(was.outs)
  BY <1>1, <1>4, <1>5 DEF WrappedUpTo
<1>7. DOMAIN new.values = DOMAIN was.outs /\ DOMAIN was.outs = 1 .. Len(was.outs)
  <2>1. was.outs \in Seq(ValueInfo)
    BY <1>2, GraphParts
  <2>2. Len(new.values) = Len(was.outs)
    BY <1>6 DEF WrappedUpTo
  <2>3. QED
    BY <1>2, <2>1, <2>2
<1>8. /\ was.ins # <<>> /\ Len(was.ins[1].dims) = 4
      /\ model'.ins = InputWrapped(was).ins /\ model'.inits = was.inits
      /\ added = {ToInput(was.ins[1])} \cup {FromOutput(was.outs[j]) : j \in DOMAIN was.outs}
      /\ \A j \in DOMAIN was.outs : Len(was.outs[j].dims) = 4 /\ new.values[j] = Nhwc(was.outs[j])
  BY <1>6, <1>7 DEF WrappedUpTo
<1>9. /\ Len(model'.ins) = Len(was.ins) /\ was.ins[1] \in ValueInfo /\ model'.ins # <<>>
      /\ model'.ins[1] = Nhwc(was.ins[1])
      /\ \A j \in DOMAIN was.ins \ {1} : model'.ins[j] = was.ins[j]
  BY <1>2, <1>8, InputWrappedFacts
<1>10. NamesOf(model'.outs) \subseteq Tensors(model')
  <2>1. ASSUME NEW j \in DOMAIN was.outs PROVE new.values[j].name \in Produced(model')
    <3>1. FromOutput(was.outs[j]) \in NodesOf(model')
      BY <1>5, <1>8
    <3>2. FromOutput(was.outs[j]).out = new.values[j].name
      BY <1>8 DEF FromOutput
    <3>3. QED
      BY <3>1, <3>2 DEF Produced
  <2>2. QED
    BY <1>5, <1>7, <2>1 DEF NamesOf, Tensors
<1> DEFINE named == {Nhwc(was.ins[1]).name} \cup {Nhwc(was.outs[j]).name : j \in DOMAIN was.outs}
<1>11. Tensors(model') \subseteq Tensors(was) \cup named
  <2>1. DOMAIN model'.ins = DOMAIN was.ins /\ 1 \in DOMAIN was.ins
    <3>1. was.ins \in Seq(ValueInfo) /\ model'.ins \in Seq(ValueInfo)
      BY <1>2, <1>5, GraphParts
    <3>2. QED
      BY <1>8, <1>9, <3>1
  <2>2. NamesOf(model'.ins) \subseteq NamesOf(was.ins) \cup {Nhwc(was.ins[1]).name}
    BY <1>9, <2>1 DEF NamesOf
  <2>3. ToInput(was.ins[1]).out \in NamesOf(was.ins)
    BY <2>1 DEF ToInput, NamesOf
  <2>4. \A j \in DOMAIN was.outs : FromOutput(was.outs[j]).out = Nhwc(was.outs[j]).name
    BY DEF FromOutput
  <2>5. Produced(model') \subseteq Produced(was) \cup NamesOf(was.ins) \cup named
    BY <1>5, <1>8, <2>3, <2>4 DEF Produced
  <2>6. QED
    BY <1>8, <2>2, <2>5 DEF Tensors, Given
<1>12. ASSUME NEW n \in NodesOf(was) PROVE Scales(n) \notin named
  <2>1. n \in Node /\ \A j \in DOMAIN was.outs : was.outs[j] \in ValueInfo
    <3>1. was.outs \in Seq(ValueInfo)
      BY <1>2, GraphParts
    <3>2. QED
      BY <1>2, <3>1, GraphFacts
  <2>2. QED
    BY <1>8, <1>9, <2>1, NotScales
<1> HIDE DEF named
<1>13. NamesFree(model')
  <2>1. ASSUME NEW n \in NodesOf(model'), n.op \in {"Resize", "Upsample"} PROVE n \in NodesOf(was)
    BY <1>5, <1>8, <2>1 DEF ToInput, FromOutput
  <2>2. NamesFree(was)
    BY <1>4 DEF Usable
  <2>3. QED
    BY <1>8, <1>11, <1>12, <2>1, <2>2, NamesFreeLike
<1>14. CheckModel(model') => Typed(model')
  BY <1>2, <1>4, <1>5, <1>6, <1>7, <1>9, WrappedTyped
<1>15. job'.tool = "nhwc_io"
  BY <1>1, <1>3, <1>4, Stages
<1>16. added \in SUBSET NodesOf(model')
  BY <1>5
<1> HIDE DEF added
<1>17. Progress'
  <2>1. WrappedUpTo(was', model', added, model'.outs, Len(was'.outs))
    BY <1>1, <1>5, <1>6
  <2>2. \E nodes \in SUBSET NodesOf(model') :
          WrappedUpTo(was', model', nodes, model'.outs, Len(was'.outs))
            /\ NodesOf(model') = NodesOf(was') \cup nodes
    BY <1>1, <1>5, <1>16, <2>1
  <2>3. QED
    BY <1>1, <1>4, <1>10, <1>13, <1>14, <1>15, <2>2 DEF Progress, Tools
<1>18. \A p \in Paths : FileUsable(files'[p])
  BY <1>1 DEF UseInv
<1>19. QED
  BY <1>1, <1>17, <1>18 DEF UseInv

-----------------------------------------------------------------------------
LEMMA CheckUse ==
  ASSUME TypeInv, UseInv, Check
  PROVE  UseInv'
<1>1. CheckModel(model) /\ pc = "check" /\ pc' = "save" /\ model' = model
      /\ UNCHANGED <<files, job, new, was>>
  BY DEF Check, Step
<1>2. Progress
  BY <1>1 DEF UseInv
<1>3. Progress'
  BY <1>1, <1>2 DEF Progress, Tools
<1>4. \A p \in Paths : FileUsable(files'[p])
  BY <1>1 DEF UseInv
<1>5. QED
  BY <1>1, <1>3, <1>4 DEF UseInv

LEMMA SaveUse ==
  ASSUME TypeInv, UseInv, Save
  PROVE  UseInv'
<1>1. /\ pc = "save" /\ pc' = "saving" /\ files' = [files EXCEPT ![job.dst] = Torn]
      /\ UNCHANGED <<job, model, new, was>>
  BY DEF Save
<1>2. Progress
  BY <1>1 DEF UseInv
<1>3. Progress'
  BY <1>1, <1>2 DEF Progress, Tools
<1>4. \A p \in Paths : files'[p] = Torn \/ files'[p] = files[p]
  BY <1>1 DEF TypeInv, TypeOK
<1>5. \A p \in Paths : FileUsable(files'[p])
  BY <1>4 DEF UseInv, FileUsable, Whole
<1>6. QED
  BY <1>1, <1>3, <1>5 DEF UseInv

LEMMA SavedUse ==
  ASSUME TypeInv, UseInv, Saved
  PROVE  UseInv'
<1>1. /\ pc = "saving" /\ Gone
      /\ files' = [files EXCEPT ![job.dst] = [graph |-> model, was |-> was, job |-> job]]
  BY DEF Saved
<1>2. Progress
  BY <1>1 DEF UseInv
<1>3. Usable(model) /\ Usable(was)
  BY <1>1, <1>2 DEF Progress, Usable, TypeInv, TypeOK
<1>4. \A p \in Paths :
        files'[p] = [graph |-> model, was |-> was, job |-> job] \/ files'[p] = files[p]
  BY <1>1 DEF TypeInv, TypeOK
<1>5. \A p \in Paths : FileUsable(files'[p])
  BY <1>3, <1>4 DEF UseInv, FileUsable
<1>6. QED
  BY <1>1, <1>5, GoneUse

LEMMA UseInvNext == TypeInv /\ UseInv /\ [Next]_vars => UseInv'
<1> SUFFICES ASSUME TypeInv, UseInv, [Next]_vars PROVE UseInv'
  OBVIOUS
<1>1. CASE Start
  BY <1>1, StartUse
<1>2. CASE Load
  BY <1>2, LoadUse
<1>3. CASE LoadFails \/ ConversionFails \/ StripInputFails \/ StripOutputFails \/ WrapFails
           \/ CheckFails \/ Kill
  BY <1>3, Raises, RaiseUse
<1>4. CASE PrepareModel \/ Retarget
  BY <1>4, PrepareUse
<1>5. CASE Converted \/ Upgrade
  BY <1>5, ConversionUse
<1>6. CASE FreezeRound \/ FreezeEnds \/ PruneRound \/ PruneEnds
  BY <1>6, RoundUse
<1>7. CASE StripInput
  BY <1>7, StripInputUse
<1>8. CASE StripOutput
  BY <1>8, StripOutputUse
<1>9. CASE Stripped
  BY <1>9, StrippedUse
<1>10. CASE WrapInput
  BY <1>10, WrapInputUse
<1>11. CASE WrapOutput
  BY <1>11, WrapOutputUse
<1>12. CASE WrapEnds
  BY <1>12, WrapEndsUse
<1>13. CASE Check
  BY <1>13, CheckUse
<1>14. CASE Save
  BY <1>14, SaveUse
<1>15. CASE Saved
  BY <1>15, SavedUse
<1>16. CASE UNCHANGED vars
  BY <1>16 DEF vars, UseInv, Progress
<1>17. QED
  BY <1>1, <1>2, <1>3, <1>4, <1>5, <1>6, <1>7, <1>8, <1>9, <1>10, <1>11, <1>12, <1>13, <1>14,
     <1>15, <1>16 DEF Next

(* So every file is always Usable, whatever tools have been run before.    *)
LEMMA Usability == Spec => []UseInv
<1>1. TypeInv /\ TypeInv' /\ UseInv /\ [Next]_vars => UseInv'
  BY UseInvNext
<1>2. QED
  BY InitTypes, TypeInvNext, InitUse, UseInvNext, PTL DEF Spec

(* Whatever the tools are run on and after, killed or not, a graph they    *)
(* have saved passes the checker, and every one of its outputs is there:   *)
(* pruning, stripping and wrapping leave no tensor without a node, an      *)
(* input or an initializer that yields it.                                 *)
THEOREM SavedGraphsRun == Spec => []WellFormed
<1>1. UseInv => WellFormed
  BY DEF UseInv, FileUsable, Usable, WellFormed, Written
<1>2. QED
  BY Usability, <1>1, PTL

-----------------------------------------------------------------------------
(* What a graph computes stays                                             *)

(* A part of a graph, fed with what the whole computes where it is cut,    *)
(* computes what the whole does.                                           *)
LEMMA PartRuns ==
  ASSUME NEW w, NEW g, IsGraph(g), CheckModel(g),
         g.inits = w.inits, NodesOf(g) \subseteq NodesOf(w),
         NEW given, Feeds(given, w),
         NEW whole, Solves(w, given, whole),
         NEW inputs, Feeds(inputs, g),
         \A n \in DOMAIN inputs : inputs[n] = whole[n]
  PROVE  \A m \in Tensors(g) : Run(g, inputs)[m] = whole[m]
<1>1. \A m \in DOMAIN w.inits : whole[m] = Weight(w, m)
  BY SolvesParts
<1>2. \A m \in DOMAIN g.inits : Weight(g, m) = Weight(w, m)
  BY WeightFacts
<1>3. \A n \in NodesOf(g) : whole[n.out] = Apply(n.op, Operands(n, whole))
  BY DEF Solves
<1>4. Solves(g, inputs, whole)
  BY <1>1, <1>2, <1>3, SolvesParts
<1>5. QED
  BY <1>4, SolutionIsRun

(* strip_io_quant: the run of the graph as it was solves, with the value   *)
(* of the quantised input, the graph that is left.                         *)
LEMMA StrippedSame ==
  ASSUME NEW f, NEW w, NEW g, f.was = w, f.graph = g, IsGraph(w), IsGraph(g),
         Usable(w), Usable(g), BehindQuantisation(w, g, g.outs, Len(w.outs))
  PROVE  SameBehindQuantisation(f)
<1> DEFINE before == RunFree(w)
           inputs == [n \in DOMAIN Free(g) |-> before[n]]
           after == Run(g, inputs)
<1>1. CheckModel(w) /\ CheckModel(g) /\ NamesOf(g.outs) \subseteq Tensors(g)
  BY DEF Usable
<1>2. Solves(w, Free(w), before) /\ Feeds(Free(w), w)
  BY <1>1, FreeFacts
<1>3. Feeds(inputs, g)
  BY <1>1, FreeFacts DEF Feeds
<1>4. \A n \in DOMAIN inputs : inputs[n] = before[n]
  OBVIOUS
<1> HIDE DEF before, inputs
<1>5. g.inits = w.inits /\ NodesOf(g) \subseteq NodesOf(w)
  BY DEF BehindQuantisation
<1>6. \A m \in DOMAIN w.inits : before[m].elem = w.inits[m].elem
  BY <1>2, SolvesParts, WeightFacts
<1>8. \A m \in Tensors(g) : after[m] = before[m]
  BY <1>1, <1>2, <1>3, <1>4, <1>5, PartRuns
<1> HIDE DEF after
<1>9. PICK q \in NodesOf(w) :
       /\ q.op = "QuantizeLinear" /\ q.ins[1] = w.ins[1].name
       /\ Len(q.ins) > 2 /\ q.ins[3] \in DOMAIN w.inits
       /\ g.ins[1].name = q.out /\ g.ins[1].elem = w.inits[q.ins[3]].elem
  BY DEF BehindQuantisation
<1>10. /\ before[q.out].term.op = "QuantizeLinear"
       /\ before[q.out].term.args[1] = before[q.ins[1]].term
       /\ before[q.out].elem = before[q.ins[3]].elem
  <2>1. q \in Node
    BY GraphFacts
  <2> DEFINE a == Operands(q, before)
  <2>2. 1 \in DOMAIN a /\ a[1] = before[q.ins[1]]
    BY <2>1, OperandsFacts
  <2>6. Len(a) > 2
    BY <1>9, <2>1, OperandsLength DEF a
  <2>3. a[3] = before[q.ins[3]]
    <3>1. q.ins[3] # NoName
      BY <1>9 DEF IsGraph, GivenName
    <3>2. 3 \in DOMAIN q.ins
      <4>1. q.ins \in Seq(Name)
        BY <2>1 DEF Node
      <4>2. QED
        BY <1>9, <4>1
    <3>3. QED
      BY <2>1, <3>1, <3>2, OperandsFacts
  <2> HIDE DEF a
  <2>4. before[q.out] = Apply("QuantizeLinear", a)
    BY <1>2, <1>9 DEF Solves, a
  <2>5. QED
    BY <2>2, <2>3, <2>4, <2>6, ApplyQuantisation
<1>11. before[q.ins[3]].elem = w.inits[q.ins[3]].elem
  BY <1>6, <1>9
<1>12. Len(g.outs) = Len(w.outs) /\ DOMAIN g.outs = 1 .. Len(w.outs)
  <2>1. Len(g.outs) = Len(w.outs)
    BY DEF BehindQuantisation
  <2>2. g.outs \in Seq(ValueInfo)
    BY GraphParts
  <2>3. QED
    BY <2>1, <2>2
<1>13. ASSUME NEW j \in DOMAIN g.outs
       PROVE  LET y == before[w.outs[j].name].term
              IN  y.op = "DequantizeLinear" /\ y.args[1] = after[g.outs[j].name].term
  <2>1. PICK d \in NodesOf(w) :
          d.op = "DequantizeLinear" /\ d.out = w.outs[j].name /\ d.ins[1] = g.outs[j].name
    BY <1>12 DEF BehindQuantisation
  <2> DEFINE a == Operands(d, before)
  <2>2. 1 \in DOMAIN a /\ a[1] = before[d.ins[1]]
    BY GraphFacts, OperandsFacts
  <2> HIDE DEF a
  <2>3. before[d.out] = Apply("DequantizeLinear", a)
    BY <1>2, <2>1 DEF Solves, a
  <2>4. after[g.outs[j].name] = before[g.outs[j].name]
    BY <1>1, <1>8 DEF NamesOf
  <2>5. QED
    BY <2>1, <2>2, <2>3, <2>4, ApplyQuantisation
<1>14. QED
  BY <1>9, <1>10, <1>11, <1>12, <1>13 DEF SameBehindQuantisation, before, after, inputs

(* nhwc_io: the run of the graph with its Transposes solves, with the      *)
(* value behind the first of them, the graph as it was.                    *)
LEMMA WrappedSame ==
  ASSUME NEW f, NEW w, NEW g, f.was = w, f.graph = g, IsGraph(w), IsGraph(g),
         Usable(w), Usable(g), NEW nodes, WrappedUpTo(w, g, nodes, g.outs, Len(w.outs)),
         NodesOf(g) = NodesOf(w) \cup nodes
  PROVE  SameInNHWC(f)
<1> DEFINE x == Free(g)[g.ins[1].name]
           inputs == [n \in DOMAIN Free(w) |->
                        IF n = w.ins[1].name THEN Apply("ToNCHW", <<x>>) ELSE Free(w)[n]]
           before == Run(w, inputs)
           after == RunFree(g)
<1>1. /\ w.ins \in Seq(ValueInfo) /\ w.outs \in Seq(ValueInfo)
      /\ g.ins \in Seq(ValueInfo) /\ g.outs \in Seq(ValueInfo)
      /\ CheckModel(w) /\ CheckModel(g)
  BY GraphParts DEF Usable
<1>2. w.ins # <<>> /\ Len(w.ins[1].dims) = 4 /\ g.ins = InputWrapped(w).ins /\ g.inits = w.inits
  BY DEF WrappedUpTo
<1>3. /\ DOMAIN g.ins = DOMAIN w.ins /\ 1 \in DOMAIN w.ins /\ g.ins[1] = Nhwc(w.ins[1])
      /\ w.ins[1] \in ValueInfo
      /\ \A j \in DOMAIN w.ins \ {1} : g.ins[j] = w.ins[j]
  <2>1. /\ Len(g.ins) = Len(w.ins) /\ g.ins[1] = Nhwc(w.ins[1]) /\ w.ins[1] \in ValueInfo
        /\ \A j \in DOMAIN w.ins \ {1} : g.ins[j] = w.ins[j]
    BY <1>2, InputWrappedFacts
  <2>2. QED
    BY <1>1, <1>2, <2>1
<1>4. DOMAIN g.outs = DOMAIN w.outs /\ DOMAIN w.outs = 1 .. Len(w.outs)
  <2>1. Len(g.outs) = Len(w.outs)
    BY DEF WrappedUpTo
  <2>2. QED
    BY <1>1, <2>1
<1>5. /\ ToInput(w.ins[1]) \in NodesOf(g)
      /\ \A j \in DOMAIN w.outs :
           /\ FromOutput(w.outs[j]) \in NodesOf(g) /\ Len(w.outs[j].dims) = 4
           /\ g.outs[j] = Nhwc(w.outs[j]) /\ w.outs[j] \in ValueInfo
  BY <1>1, <1>4 DEF WrappedUpTo
<1>6. /\ Solves(g, Free(g), after) /\ Feeds(Free(g), g)
      /\ Feeds(Free(w), w)
  BY <1>1, FreeFacts
<1>7. Feeds(inputs, w)
  BY <1>6 DEF Feeds
<1>8. \A n \in DOMAIN Free(w) :
        inputs[n] = IF n = w.ins[1].name THEN Apply("ToNCHW", <<x>>) ELSE Free(w)[n]
  OBVIOUS
<1>9. DOMAIN inputs = DOMAIN Free(w)
  OBVIOUS
<1> HIDE DEF inputs, after
(* The NHWC input is no weight, and what it is transposed to was the input.*)
<1>10. Nhwc(w.ins[1]).name \in DOMAIN Free(g)
  <2>1. Nhwc(w.ins[1]).name \notin DOMAIN g.inits
    <3>1. Nhwc(w.ins[1]).name = Append(w.ins[1].name, "_nhwc")
      BY <1>2, <1>3, NhwcTypes
    <3>2. w.ins[1].name \in Name /\ "_nhwc" \in Words
      BY <1>3, ValueInfoFacts, GraphToolsAssumption DEF GivenName
    <3>3. Last(Nhwc(w.ins[1]).name) = "_nhwc"
      BY <3>1, <3>2, NameEnds
    <3>4. QED
      BY <3>3 DEF Usable, NamesFree
  <2>2. Nhwc(w.ins[1]).name \in NamesOf(g.ins)
    BY <1>3 DEF NamesOf
  <2>3. QED
    BY <1>6, <2>1, <2>2 DEF Feeds
<1>11. after[Nhwc(w.ins[1]).name] = x
  BY <1>3, <1>6, <1>10, SolvesParts
<1> HIDE DEF x
<1>12. after[w.ins[1].name] = Apply("ToNCHW", <<x>>)
  <2>1. Nhwc(w.ins[1]).name \in GivenName
    BY <1>2, <1>3, NhwcTypes, ValueInfoFacts
  <2>2. Operands(ToInput(w.ins[1]), after) = <<x>>
    BY <1>11, <2>1, OneOperand DEF ToInput
  <2>3. ToInput(w.ins[1]).op = "ToNCHW" /\ ToInput(w.ins[1]).out = w.ins[1].name
    BY DEF ToInput
  <2>4. QED
    BY <1>5, <1>6, <2>2, <2>3 DEF Solves
<1>13. Solves(w, inputs, after)
  <2>1. ASSUME NEW n \in DOMAIN inputs PROVE after[n] = inputs[n]
    <3>1. CASE n = w.ins[1].name
      BY <1>8, <1>9, <1>12, <3>1
    <3>2. CASE n # w.ins[1].name
      <4>1. PICK j \in DOMAIN w.ins : n = w.ins[j].name /\ n \notin DOMAIN w.inits
        BY <1>7 DEF Feeds, NamesOf
      <4>2. g.ins[j] = w.ins[j] /\ n \notin DOMAIN g.inits /\ j \in DOMAIN g.ins
        BY <1>2, <1>3, <3>2, <4>1
      <4>3. Free(g)[n] = Free(w)[n]
        BY <1>1, <4>1, <4>2, FreeFacts
      <4>4. n \in DOMAIN Free(g)
        BY <1>6, <4>1, <4>2 DEF Feeds, NamesOf
      <4>5. after[n] = Free(g)[n]
        BY <1>6, <4>4, SolvesParts
      <4>6. QED
        BY <1>8, <1>9, <3>2, <4>3, <4>5
    <3>3. QED
      BY <3>1, <3>2
  <2>2. \A m \in DOMAIN w.inits : after[m] = Weight(w, m)
    <3>1. \A m \in DOMAIN g.inits : after[m] = Weight(g, m)
      BY <1>6, SolvesParts
    <3>2. QED
      BY <1>2, <3>1, WeightFacts
  <2>3. \A n \in NodesOf(w) : after[n.out] = Apply(n.op, Operands(n, after))
    BY <1>6 DEF Solves
  <2>4. QED
    BY <1>7, <2>1, <2>2, <2>3, SolvesParts
<1>14. \A m \in Tensors(w) : before[m] = after[m]
  BY <1>1, <1>7, <1>13, SolutionIsRun
<1> HIDE DEF before
<1>15. ASSUME NEW j \in DOMAIN g.outs
       PROVE  after[g.outs[j].name] = Apply("ToNHWC", <<before[w.outs[j].name]>>)
  <2>1. w.outs[j].name \in Tensors(w)
    BY <1>4 DEF Usable, NamesOf
  <2>2. w.outs[j].name \in GivenName
    BY <1>4, <1>5, ValueInfoFacts
  <2>3. Operands(FromOutput(w.outs[j]), after) = <<after[w.outs[j].name]>>
    BY <2>2, OneOperand DEF FromOutput
  <2>4. /\ FromOutput(w.outs[j]).op = "ToNHWC"
        /\ FromOutput(w.outs[j]).out = g.outs[j].name
    BY <1>4, <1>5 DEF FromOutput
  <2>5. after[g.outs[j].name] = Apply("ToNHWC", <<after[w.outs[j].name]>>)
    BY <1>4, <1>5, <1>6, <2>3, <2>4 DEF Solves
  <2>6. QED
    BY <1>14, <2>1, <2>5
<1>16. Results(g, after) =
         [j \in DOMAIN w.outs |-> Apply("ToNHWC", <<before[w.outs[j].name]>>).term]
  BY <1>4, <1>15 DEF Results
<1>17. QED
  BY <1>16 DEF SameInNHWC, after, before, inputs, x

-----------------------------------------------------------------------------
(* What prepare_model and prepare_style make of a graph: nodes that are    *)
(* the ones there were, but for what enlarges, which may be given another  *)
(* operator of the kind or a doubling.                                     *)
(* The constants that freezing has added.                                  *)
Added(g, w) == DOMAIN g.inits \ DOMAIN w.inits

From(n, m, g, w) ==
  /\ n.out = m.out
  /\ \/ n = m
     \/ /\ m.op \in {"Resize", "Upsample"} /\ n.op = "Resize" /\ n.ins[1] = m.ins[1]
        /\ Last(n.ins) = Last(m.ins) \/ Last(n.ins) \in Added(g, w)

(* The graph g is what these two tools have made of w so far.              *)
Descends(g, w) ==
  /\ DOMAIN g.outs = DOMAIN w.outs
  /\ \A j \in DOMAIN w.outs : g.outs[j].name = w.outs[j].name
  /\ NamesOf(g.ins) = NamesOf(w.ins) \ DOMAIN w.inits
  /\ DOMAIN w.inits \subseteq DOMAIN g.inits
  /\ \A m \in DOMAIN w.inits : g.inits[m] = w.inits[m]
  /\ \A m \in Added(g, w) : g.inits[m].num = 2 /\ m \notin Tensors(w)
  /\ \A n \in NodesOf(g) : \E m \in NodesOf(w) : From(n, m, g, w)

(* What such a graph computes does not depend on the sizes, which have     *)
(* changed, since sizes go nowhere but into sizes and factors.             *)
LEMMA DescendantSame ==
  ASSUME NEW w, NEW g, IsGraph(w), IsGraph(g), Usable(w), Usable(g), Descends(g, w),
         Doubles(w) \/ Added(g, w) = {}
  PROVE  Results(g, RunFree(g)) = Results(w, RunFree(w))
<1> DEFINE r == RunFree(g)
           b == RunFree(w)
           Agree(m) == r[m].term = b[m].term /\ r[m].num = b[m].num
           S == {m \in Tensors(g) : m \in Sizes(w) \/ m \in Added(g, w) \/ Agree(m)}
<1>1. CheckModel(w) /\ CheckModel(g)
  BY DEF Usable
<1>2. /\ \A m \in NamesOf(g.ins) \ DOMAIN g.inits : r[m].term = Term("Input", m, <<>>, 0) /\ r[m].num = 0
      /\ \A m \in NamesOf(w.ins) \ DOMAIN w.inits : b[m].term = Term("Input", m, <<>>, 0) /\ b[m].num = 0
      /\ \A m \in DOMAIN g.inits : r[m] = Weight(g, m)
      /\ \A m \in DOMAIN w.inits : b[m] = Weight(w, m)
      /\ \A n \in NodesOf(g) : r[n.out] = Apply(n.op, Operands(n, r))
      /\ \A n \in NodesOf(w) : b[n.out] = Apply(n.op, Operands(n, b))
  BY <1>1, StartsFrom
<1>3. Doubles(w) => \A n \in Enlarging(w) : b[Last(n.ins)].num = 2
  BY DEF Doubles
<1> HIDE DEF r, b
<1>4. Given(g) \subseteq S
  <2>1. SUFFICES ASSUME NEW m \in Given(g), m \notin Added(g, w) PROVE Agree(m)
    BY DEF Tensors
  <2>2. CASE m \in DOMAIN w.inits
    <3>1. m \in DOMAIN g.inits /\ g.inits[m] = w.inits[m]
      BY <2>2 DEF Descends
    <3>2. Weight(g, m) = Weight(w, m)
      BY <3>1, WeightFacts
    <3>3. QED
      BY <1>2, <2>2, <3>1, <3>2
  <2>3. CASE m \notin DOMAIN w.inits
    <3>1. m \in NamesOf(g.ins) \ DOMAIN g.inits
      BY <2>1, <2>3 DEF Given, Added
    <3>2. m \in NamesOf(w.ins) \ DOMAIN w.inits
      BY <3>1 DEF Descends
    <3>3. QED
      BY <1>2, <3>1, <3>2
  <2>4. QED
    BY <2>2, <2>3
<1>5. ASSUME NEW n \in NodesOf(g), ToSet(n.ins) \subseteq S \cup {NoName}
      PROVE  n.out \in S
  <2>1. PICK m \in NodesOf(w) : From(n, m, g, w)
    BY DEF Descends
  <2>2. n \in Node /\ m \in Node /\ n.out = m.out /\ n.out \in Tensors(g)
    BY <2>1, GraphFacts DEF From, Tensors, Produced
  <2>3. ToSet(m.ins) \subseteq Tensors(w) \cup {NoName}
    BY <1>1, InOrder
  <2>4. \A y \in ToSet(m.ins) : y \notin Added(g, w)
    <3>1. NoName \notin Added(g, w)
      BY DEF Added, IsGraph, GivenName
    <3>2. QED
      BY <2>3, <3>1 DEF Descends
  <2>5. m.op \notin {"Floor", "Ratio2", "Ratio3"} => \A y \in ToSet(m.ins) : y \notin Sizes(w)
    BY DEF Usable, Typed
  <2>6. SUFFICES ASSUME m.op \notin {"Shape", "Floor"} PROVE Agree(n.out)
    <3>1. m.op \in {"Shape", "Floor"} => n.out \in Sizes(w)
      BY <2>2 DEF Sizes
    <3>2. QED
      BY <2>2, <2>6, <3>1
  <2>7. \A y \in (ToSet(m.ins) \cap ToSet(n.ins)) \ {NoName} :
          m.op \notin {"Floor", "Ratio2", "Ratio3"} => Agree(y)
    BY <1>5, <2>4, <2>5
  <2> DEFINE B == Operands(m, b)
             R == Operands(n, r)
  <2>8. /\ r[n.out] = Apply(n.op, R) /\ b[n.out] = Apply(m.op, B)
        /\ 1 \in DOMAIN R /\ 1 \in DOMAIN B
    BY <1>2, <2>2, OperandsFacts
  <2>9. CASE n = m
    <3>1. DOMAIN R = DOMAIN B
      BY <2>2, <2>9, OperandsFacts
    <3>2. m.op \notin {"Ratio2", "Ratio3"} =>
            \A j \in DOMAIN R : R[j].term = B[j].term /\ R[j].num = B[j].num
      <4>1. SUFFICES ASSUME m.op \notin {"Ratio2", "Ratio3"}, NEW j \in DOMAIN n.ins
                     PROVE  R[j].term = B[j].term /\ R[j].num = B[j].num
        BY <2>2, OperandsFacts
      <4>2. /\ n.ins[j] \in ToSet(n.ins)
            /\ R[j] = IF n.ins[j] = NoName THEN Nothing ELSE r[n.ins[j]]
            /\ B[j] = IF n.ins[j] = NoName THEN Nothing ELSE b[n.ins[j]]
        BY <2>2, <2>9, OperandsFacts
      <4>3. CASE n.ins[j] = NoName
        BY <4>2, <4>3
      <4>4. CASE n.ins[j] # NoName
        BY <2>6, <2>7, <2>9, <4>1, <4>2, <4>4
      <4>5. QED
        BY <4>3, <4>4
    <3>3. m.op \in {"Resize", "Upsample"} => Last(R).num = Last(B).num
      <4>1. SUFFICES ASSUME m.op \in {"Resize", "Upsample"} PROVE Last(R).num = Last(B).num
        OBVIOUS
      <4>2. Last(R) = r[Last(n.ins)] /\ Last(B) = b[Last(n.ins)] /\ Last(n.ins) \in ToSet(n.ins)
        BY <2>2, <2>9, <4>1, OperandsFacts
      <4>3. Last(n.ins) # NoName
        BY <2>2, <2>9, <4>1 DEF Node
      <4>4. QED
        BY <2>7, <2>9, <4>1, <4>2, <4>3
    <3> HIDE DEF R, B
    <3>4. QED
      BY <2>2, <2>6, <2>8, <2>9, <3>1, <3>2, <3>3, ApplyBlind
  <2>10. CASE n # m
    <3>1. /\ m.op \in {"Resize", "Upsample"} /\ n.op = "Resize" /\ n.ins[1] = m.ins[1]
          /\ Last(n.ins) = Last(m.ins) \/ Last(n.ins) \in Added(g, w)
      BY <2>1, <2>10 DEF From
    <3>2. R[1].term = B[1].term
      <4>1. R[1] = r[n.ins[1]] /\ B[1] = b[n.ins[1]]
        BY <2>2, <3>1, OperandsFacts
      <4>2. n.ins[1] \in ToSet(n.ins) /\ n.ins[1] \in ToSet(m.ins) /\ n.ins[1] # NoName
        <5>1. 1 \in DOMAIN n.ins /\ 1 \in DOMAIN m.ins
          BY <2>2, OperandsFacts
        <5>2. QED
          BY <2>2, <3>1, <5>1, OperandsFacts DEF Node
      <4>3. Agree(n.ins[1])
        BY <2>7, <3>1, <4>2
      <4>4. QED
        BY <4>1, <4>3
    <3>3. Last(R).num = Last(B).num
      <4>1. /\ Last(R) = r[Last(n.ins)] /\ Last(B) = b[Last(m.ins)]
            /\ Last(n.ins) \in ToSet(n.ins) /\ Last(m.ins) \in ToSet(m.ins)
        BY <2>2, <3>1, OperandsFacts
      <4>2. CASE Last(n.ins) = Last(m.ins)
        <5>1. Last(n.ins) # NoName
          BY <2>2, <3>1 DEF Node
        <5>2. Agree(Last(n.ins))
          BY <2>7, <3>1, <4>1, <4>2, <5>1
        <5>3. QED
          BY <4>1, <4>2, <5>2
      <4>3. CASE Last(n.ins) \in Added(g, w)
        <5>1. r[Last(n.ins)].num = 2
          <6>1. Last(n.ins) \in DOMAIN g.inits /\ g.inits[Last(n.ins)].num = 2
            BY <4>3 DEF Added, Descends
          <6>2. QED
            BY <1>2, <6>1, WeightFacts
        <5>2. m \in Enlarging(w)
          BY <3>1 DEF Enlarging
        <5>3. b[Last(m.ins)].num = 2
          BY <1>3, <4>3, <5>2
        <5>4. QED
          BY <4>1, <5>1, <5>3
      <4>4. QED
        BY <3>1, <4>2, <4>3
    <3> HIDE DEF R, B
    <3>4. QED
      BY <2>2, <2>8, <3>1, <3>2, <3>3, ApplyResize
  <2>11. QED
    BY <2>9, <2>10
<1>6. Tensors(g) \subseteq S
  <2> HIDE DEF S
  <2>1. QED
    BY <1>1, <1>4, <1>5, NodeInduction
<1>7. ASSUME NEW j \in DOMAIN w.outs PROVE r[w.outs[j].name].term = b[w.outs[j].name].term
  <2>1. w.outs[j].name \in Tensors(g) /\ w.outs[j].name \in Tensors(w)
    BY DEF Usable, Descends, NamesOf
  <2>2. w.outs[j].name \notin Sizes(w)
    BY DEF Usable, Typed, NamesOf
  <2>3. w.outs[j].name \notin Added(g, w)
    BY <2>1 DEF Descends
  <2>4. QED
    BY <1>6, <2>1, <2>2, <2>3
<1>8. QED
  BY <1>7 DEF Results, Descends, r, b

(* The steps of the two tools make descendants of descendants.             *)
LEMMA ReshapedDescends ==
  ASSUME NEW r, NEW g, Reshaped(r, g)
  PROVE  Descends(r, g) /\ Added(r, g) = {} /\ Tensors(g) \subseteq Tensors(r)
<1>1. Added(r, g) = {}
  BY DEF Reshaped, Added
<1>2. NodesOf(r) = NodesOf(g) /\ Tensors(r) = Tensors(g)
  BY ReshapedFacts
<1>3. QED
  BY <1>1, <1>2 DEF Descends, Reshaped, From

LEMMA ConvertDescends ==
  ASSUME NEW w, NEW g, IsGraph(g), Descends(g, w), NEW version \in Nat
  PROVE  LET r == ConvertVersion(g, version)
         IN  Descends(r, w) /\ Added(r, w) = Added(g, w) /\ Tensors(r) = Tensors(g)
<1> DEFINE r == ConvertVersion(g, version)
<1>1. /\ NodesOf(r) = {AsResize(n) : n \in NodesOf(g)}
      /\ r.ins = g.ins /\ r.outs = g.outs /\ r.inits = g.inits /\ Tensors(r) = Tensors(g)
  BY ConvertNodes
<1> HIDE DEF r
<1>2. Added(r, w) = Added(g, w)
  BY <1>1 DEF Added
<1>3. ASSUME NEW n \in NodesOf(r) PROVE \E m \in NodesOf(w) : From(n, m, r, w)
  <2>1. PICK l \in NodesOf(g) : n = AsResize(l)
    BY <1>1
  <2>2. PICK m \in NodesOf(w) : From(l, m, g, w)
    BY DEF Descends
  <2>3. /\ Like(n, l) /\ Last(l.ins) = Last(n.ins)
        /\ n.op = "Resize" <=> l.op \in {"Resize", "Upsample"}
        /\ l.op # "Upsample" => n = l
    BY <2>1, GraphFacts, AsResizeFacts
  <2>4. From(n, m, r, w)
    <3>1. CASE l.op # "Upsample"
      BY <1>2, <2>2, <2>3, <3>1 DEF From
    <3>2. CASE l.op = "Upsample"
      <4>1. l = m
        BY <2>2, <3>2 DEF From
      <4>2. QED
        BY <2>2, <2>3, <3>2, <4>1 DEF From, Like
    <3>3. QED
      BY <3>1, <3>2
  <2>5. QED
    BY <2>4
<1>4. QED
  BY <1>1, <1>2, <1>3 DEF Descends, r

LEMMA FreezeDescends ==
  ASSUME NEW w, NEW g, IsGraph(g), Descends(g, w), Tensors(w) \subseteq Tensors(g),
         NEW now, now \subseteq NodesOf(g),
         \A n \in now : n.op = "Resize" /\ Scales(n) \notin Tensors(g)
  PROVE  Descends(Freeze(g, now), w) /\ Tensors(w) \subseteq Tensors(Freeze(g, now))
<1> DEFINE r == Freeze(g, now)
           scales == {Scales(n) : n \in now}
<1>1. /\ r.ins = g.ins /\ r.outs = g.outs
      /\ NodesOf(r) = (NodesOf(g) \ now) \cup {AsFrozen(n) : n \in now}
      /\ DOMAIN r.inits = DOMAIN g.inits \cup scales
      /\ \A n \in now : r.inits[Scales(n)] = [elem |-> "float", num |-> 2]
      /\ \A m \in DOMAIN g.inits \ scales : r.inits[m] = g.inits[m]
  BY FreezeFacts
<1> HIDE DEF r
<1>2. \A n \in now :
        /\ Like(AsFrozen(n), n) /\ AsFrozen(n).op = "Resize" /\ Last(AsFrozen(n).ins) = Scales(n)
  BY GraphFacts, AsFrozenLike
<1>3. scales \cap Tensors(g) = {}
  OBVIOUS
<1>4. DOMAIN g.inits \subseteq Tensors(g) /\ DOMAIN w.inits \subseteq Tensors(w)
  BY DEF Tensors, Given
<1>5. Added(r, w) = Added(g, w) \cup scales
  BY <1>1, <1>3, <1>4 DEF Added
<1>6. \A m \in DOMAIN g.inits : r.inits[m] = g.inits[m]
  BY <1>1, <1>3, <1>4
<1>7. Tensors(g) \subseteq Tensors(r)
  <2>1. Produced(g) \subseteq Produced(r)
    BY <1>1, <1>2 DEF Produced, Like
  <2>2. QED
    BY <1>1, <2>1 DEF Tensors, Given
<1>8. ASSUME NEW m \in Added(r, w) PROVE r.inits[m].num = 2 /\ m \notin Tensors(w)
  <2>1. CASE m \in Added(g, w)
    BY <1>6, <2>1 DEF Descends, Added
  <2>2. CASE m \in scales
    BY <1>1, <1>3, <2>2
  <2>3. QED
    BY <1>5, <2>1, <2>2
<1>9. ASSUME NEW n \in NodesOf(r) PROVE \E m \in NodesOf(w) : From(n, m, r, w)
  <2>1. PICK l \in NodesOf(g) : n = l \/ (l \in now /\ n = AsFrozen(l))
    BY <1>1
  <2>2. PICK m \in NodesOf(w) : From(l, m, g, w)
    BY DEF Descends
  <2>3. CASE n = l
    BY <1>5, <2>2, <2>3 DEF From
  <2>4. CASE l \in now /\ n = AsFrozen(l)
    <3>1. /\ n.out = l.out /\ n.ins[1] = l.ins[1] /\ n.op = "Resize"
          /\ Last(n.ins) \in Added(r, w) /\ l.op = "Resize"
      BY <1>2, <1>5, <2>4 DEF Like
    <3>2. m.op \in {"Resize", "Upsample"} /\ l.ins[1] = m.ins[1] /\ l.out = m.out
      BY <2>2, <3>1 DEF From
    <3>3. QED
      BY <3>1, <3>2 DEF From
  <2>5. QED
    BY <2>1, <2>3, <2>4
<1>10. /\ DOMAIN w.inits \subseteq DOMAIN r.inits
       /\ \A m \in DOMAIN w.inits : r.inits[m] = w.inits[m]
  BY <1>1, <1>6 DEF Descends
<1>11. QED
  BY <1>1, <1>7, <1>8, <1>9, <1>10 DEF Descends, r

LEMMA FewerDescend ==
  ASSUME NEW w, NEW g, Descends(g, w), NEW r, NodesOf(r) \subseteq NodesOf(g),
         r.ins = g.ins, r.outs = g.outs, r.inits = g.inits
  PROVE  Descends(r, w) /\ Added(r, w) = Added(g, w)
<1>1. Added(r, w) = Added(g, w)
  BY DEF Added
<1>2. QED
  BY <1>1 DEF Descends, From

-----------------------------------------------------------------------------
(* What was saved computes the same, and what is in memory will.           *)
Preparing == {"prepare_model", "prepare_style"}

SameInv ==
  /\ SameNetwork
  /\ \/ pc \in {"convert", "upgrade", "freeze", "prune"}
     \/ pc \in {"check", "save", "saving"} /\ job.tool \in Preparing
     => Descends(model, was)
  /\ pc \in {"convert", "upgrade", "freeze"} => Tensors(was) \subseteq Tensors(model)
  /\ pc \in {"convert", "check", "save", "saving"} /\ job.tool = "prepare_model" =>
       Added(model, was) = {}

LEMMA SameFiles ==
  ASSUME SameNetwork, \A p \in Paths : files'[p] = files[p] \/ ~Whole(files'[p])
  PROVE  SameNetwork'
<1>1. ASSUME NEW tools PROVE Written(tools)' \subseteq Written(tools)
  BY DEF Written
<1>2. QED
  BY <1>1 DEF SameNetwork

LEMMA InitSame == Init => SameInv
<1> SUFFICES ASSUME Init PROVE SameInv
  OBVIOUS
<1>1. ASSUME NEW p \in Paths, Whole(files[p]) PROVE files[p].job.tool = "none"
  <2>1. PICK g \in Sources : files[p] = [graph |-> g, was |-> g, job |-> NoJob]
    BY <1>1 DEF Init, Whole
  <2>2. QED
    BY <2>1 DEF NoJob
<1>2. pc = "idle"
  BY DEF Init
<1>3. SameNetwork
  BY <1>1 DEF SameNetwork, Written
<1>4. QED
  BY <1>2, <1>3 DEF SameInv

(* Steps that are not those of prepare_model and prepare_style.            *)
LEMMA OtherSame ==
  ASSUME TypeInv, UseInv, SameInv,
         \/ Start \/ Load \/ LoadFails \/ ConversionFails
         \/ StripInput \/ StripInputFails \/ StripOutput \/ StripOutputFails \/ Stripped
         \/ WrapInput \/ WrapOutput \/ WrapFails \/ WrapEnds
         \/ CheckFails \/ Kill
  PROVE  SameInv'
<1>1. files' = files
  BY DEF Start, Load, LoadFails, ConversionFails, StripInput, StripInputFails, StripOutput,
         StripOutputFails, Stripped, WrapInput, WrapOutput, WrapFails, WrapEnds, CheckFails,
         Kill, Raise, Step
<1>2. SameNetwork'
  BY <1>1, SameFiles DEF SameInv
<1>3. \/ pc' \in {"idle", "load", "outputs", "wrap"} \cup Tools
      \/ pc' = "check" /\ job'.tool \in {"strip_io_quant", "nhwc_io"}
  <2>1. CASE \/ Start \/ LoadFails \/ ConversionFails \/ StripInput \/ StripInputFails
             \/ StripOutput \/ StripOutputFails \/ WrapInput \/ WrapOutput \/ WrapFails
             \/ CheckFails \/ Kill
    BY <2>1 DEF Start, LoadFails, ConversionFails, StripInput, StripInputFails, StripOutput,
         StripOutputFails, WrapInput, WrapOutput, WrapFails, CheckFails, Kill, Raise, Gone, Step
  <2>2. CASE Load
    BY <2>2 DEF Load, TypeInv
  <2>3. CASE Stripped \/ WrapEnds
    <3>1. pc \in {"outputs", "wrap"} /\ pc' = "check" /\ job' = job
      BY <2>3 DEF Stripped, WrapEnds, Step
    <3>2. pc \in StageOf(job.tool) /\ job.tool \in Tools
      BY <3>1 DEF UseInv, Progress, TypeInv
    <3>3. QED
      BY <3>1, <3>2, Stages
  <2>4. QED
    BY <2>1, <2>2, <2>3
<1>4. QED
  BY <1>2, <1>3 DEF SameInv, Preparing, Tools

LEMMA PrepareSame ==
  ASSUME TypeInv, UseInv, SameInv, PrepareModel \/ Retarget
  PROVE  SameInv'
<1>1. IsGraph(model)
  BY DEF TypeInv, TypeOK
<1>2. /\ Reshaped(model', model) /\ pc \in Tools /\ pc' \in {"convert", "upgrade"}
      /\ UNCHANGED <<files, was>>
  BY <1>1, PrepareReshapes DEF Tools
<1>3. model = was
  BY <1>2 DEF UseInv, Progress, Tools
<1>4. Descends(model', was) /\ Added(model', was) = {} /\ Tensors(was) \subseteq Tensors(model')
  BY <1>2, <1>3, ReshapedDescends
<1>5. SameNetwork'
  BY <1>2, SameFiles DEF SameInv
<1>6. QED
  BY <1>2, <1>4, <1>5 DEF SameInv

LEMMA ConversionSame ==
  ASSUME TypeInv, UseInv, SameInv, Converted \/ Upgrade
  PROVE  SameInv'
<1>1. /\ \/ pc = "convert" /\ pc' = "check"
         \/ pc = "upgrade" /\ pc' = "freeze"
      /\ \E version \in Nat : model' = model \/ model' = ConvertVersion(model, version)
      /\ UNCHANGED <<files, job, was>>
  <2>1. TARGET_OPSET \in Nat /\ 13 \in Nat
    BY DEF TARGET_OPSET
  <2>2. CASE Converted
    BY <2>1, <2>2 DEF Converted, Step
  <2>3. CASE Upgrade
    BY <2>1, <2>3 DEF Upgrade, Step
  <2>4. QED
    BY <2>2, <2>3
<1>2. Descends(model, was) /\ Tensors(was) \subseteq Tensors(model) /\ IsGraph(model)
  BY <1>1 DEF SameInv, TypeInv, TypeOK
<1>3. /\ Descends(model', was) /\ Added(model', was) = Added(model, was)
      /\ Tensors(model') = Tensors(model)
  BY <1>1, <1>2, ConvertDescends
<1>4. pc = "convert" => job.tool = "prepare_model"
  <2>1. SUFFICES ASSUME pc = "convert" PROVE job.tool = "prepare_model"
    OBVIOUS
  <2>2. pc \in StageOf(job.tool) /\ job.tool \in Tools
    BY <2>1 DEF UseInv, Progress, TypeInv
  <2>3. QED
    BY <2>1, <2>2, Stages
<1>5. SameNetwork'
  BY <1>1, SameFiles DEF SameInv
<1>6. QED
  BY <1>1, <1>2, <1>3, <1>4, <1>5 DEF SameInv

LEMMA RoundSame ==
  ASSUME TypeInv, UseInv, SameInv, FreezeRound \/ FreezeEnds \/ PruneRound \/ PruneEnds
  PROVE  SameInv'
<1>1. /\ pc \in {"freeze", "prune"} /\ pc' \in {"freeze", "prune", "check"}
      /\ pc' = "freeze" => pc = "freeze"
      /\ UNCHANGED <<files, job, was>>
  BY DEF FreezeRound, FreezeEnds, PruneRound, PruneEnds, Step
<1>2. /\ Descends(model, was) /\ IsGraph(model) /\ Progress /\ job.tool \in Tools
      /\ pc = "freeze" => Tensors(was) \subseteq Tensors(model)
  BY <1>1 DEF SameInv, TypeInv, TypeOK, UseInv
<1>3. job.tool = "prepare_style"
  BY <1>1, <1>2, Stages DEF Progress
<1>4. /\ Descends(model', was)
      /\ pc' = "freeze" => Tensors(was) \subseteq Tensors(model')
  <2>1. CASE FreezeRound
    <3>1. model' = Freeze(model, Freezable(model)) /\ pc = "freeze"
      BY <2>1 DEF FreezeRound
    <3>2. /\ Freezable(model) \subseteq NodesOf(model)
          /\ \A n \in Freezable(model) : n.op = "Resize" /\ Scales(n) \notin Tensors(model)
      BY <1>2 DEF Freezable, Progress, NamesFree
    <3>3. QED
      BY <1>2, <3>1, <3>2, FreezeDescends
  <2>2. CASE FreezeEnds \/ PruneEnds
    BY <1>2, <2>2 DEF FreezeEnds, PruneEnds, Step
  <2>3. CASE PruneRound
    <3>1. /\ NodesOf(model') = NodesOf(model) \cap (NodesOf(model) \ Dead(model))
          /\ model'.ins = model.ins /\ model'.outs = model.outs /\ model'.inits = model.inits
      BY <1>2, <2>3, TakenOut DEF PruneRound
    <3>2. QED
      BY <1>2, <2>3, <3>1, FewerDescend DEF PruneRound
  <2>4. QED
    BY <2>1, <2>2, <2>3
<1>5. SameNetwork'
  BY <1>1, SameFiles DEF SameInv
<1>6. QED
  BY <1>1, <1>3, <1>4, <1>5 DEF SameInv

LEMMA SaveSame ==
  ASSUME TypeInv, SameInv, Check \/ Save \/ UNCHANGED vars
  PROVE  SameInv'
<1>1. /\ \/ pc = "check" /\ pc' = "save"
         \/ pc = "save" /\ pc' = "saving"
         \/ pc' = pc
      /\ UNCHANGED <<job, model, was>>
  BY DEF Check, Save, Step, vars
<1>2. \A p \in Paths : files'[p] = files[p] \/ ~Whole(files'[p])
  BY DEF Check, Save, Step, vars, TypeInv, TypeOK, Whole
<1>3. SameNetwork'
  BY <1>2, SameFiles DEF SameInv
<1>4. QED
  BY <1>1, <1>3 DEF SameInv

(* The file that is saved last.                                            *)
LEMMA SavedSame ==
  ASSUME TypeInv, UseInv, SameInv, Saved
  PROVE  SameInv'
<1> DEFINE f == [graph |-> model, was |-> was, job |-> job]
<1>1. pc = "saving" /\ files' = [files EXCEPT ![job.dst] = f] /\ pc' = "idle"
  BY DEF Saved, Gone
<1>2. f.graph = model /\ f.was = was /\ f.job = job
  OBVIOUS
<1> HIDE DEF f
<1>3. Progress
  BY <1>1 DEF UseInv
<1>4. IsGraph(model) /\ IsGraph(was) /\ Usable(model) /\ Usable(was)
  BY <1>1, <1>3 DEF Progress, Usable, TypeInv, TypeOK
<1>5. job.tool = "prepare_model" => SameResults(f)
  <2>1. SUFFICES ASSUME job.tool = "prepare_model" PROVE SameResults(f)
    OBVIOUS
  <2>2. Descends(model, was) /\ Added(model, was) = {}
    BY <1>1, <2>1 DEF SameInv, Preparing
  <2>3. QED
    BY <1>2, <1>4, <2>2, DescendantSame DEF SameResults
<1>6. job.tool = "prepare_style" => (Doubles(was) => SameResults(f))
  <2>1. SUFFICES ASSUME job.tool = "prepare_style", Doubles(was) PROVE SameResults(f)
    OBVIOUS
  <2>2. Descends(model, was)
    BY <1>1, <2>1 DEF SameInv, Preparing
  <2>3. QED
    BY <1>2, <1>4, <2>1, <2>2, DescendantSame DEF SameResults
<1>7. job.tool = "strip_io_quant" => SameBehindQuantisation(f)
  BY <1>1, <1>2, <1>3, <1>4, StrippedSame DEF Progress
<1>8. job.tool = "nhwc_io" => SameInNHWC(f)
  BY <1>1, <1>2, <1>3, <1>4, WrappedSame DEF Progress
<1>9. ASSUME NEW tools PROVE \A h \in Written(tools)' : h \in Written(tools) \/ (h = f /\ job.tool \in tools)
  <2>1. \A p \in Paths : files'[p] = files[p] \/ files'[p] = f
    BY <1>1 DEF TypeInv, TypeOK
  <2>2. QED
    BY <1>2, <2>1 DEF Written
<1>10. SameNetwork'
  BY <1>2, <1>5, <1>6, <1>7, <1>8, <1>9 DEF SameNetwork, SameInv
<1>11. QED
  BY <1>1, <1>10 DEF SameInv

LEMMA SameInvNext == TypeInv /\ UseInv /\ SameInv /\ [Next]_vars => SameInv'
<1> SUFFICES ASSUME TypeInv, UseInv, SameInv, [Next]_vars PROVE SameInv'
  OBVIOUS
<1>1. CASE \/ Start \/ Load \/ LoadFails \/ ConversionFails
           \/ StripInput \/ StripInputFails \/ StripOutput \/ StripOutputFails \/ Stripped
           \/ WrapInput \/ WrapOutput \/ WrapFails \/ WrapEnds
           \/ CheckFails \/ Kill
  BY <1>1, OtherSame
<1>2. CASE PrepareModel \/ Retarget
  BY <1>2, PrepareSame
<1>3. CASE Converted \/ Upgrade
  BY <1>3, ConversionSame
<1>4. CASE FreezeRound \/ FreezeEnds \/ PruneRound \/ PruneEnds
  BY <1>4, RoundSame
<1>5. CASE Check \/ Save \/ UNCHANGED vars
  BY <1>5, SaveSame
<1>6. CASE Saved
  BY <1>6, SavedSame
<1>7. QED
  BY <1>1, <1>2, <1>3, <1>4, <1>5, <1>6 DEF Next

(* No tool changes what the network computes: prepare_model leaves the     *)
(* terms of the outputs as they are, and so does prepare_style where every *)
(* Resize doubles; what strip_io_quant saves is the network between its    *)
(* quantisations, and what nhwc_io saves is the network between its        *)
(* Transposes.                                                             *)
THEOREM NetworkKept == Spec => []SameNetwork
<1>1. SameInv => SameNetwork
  BY DEF SameInv
<1>2. QED
  BY InitTypes, TypeInvNext, InitUse, UseInvNext, InitSame, SameInvNext, <1>1, PTL DEF Spec

-----------------------------------------------------------------------------
(* What is declared is so.  A tool changes what a graph starts from; what  *)
(* follows from that goes the same way through the nodes (Mirrors).        *)

(* A node, and what it was if X are the new constants.                     *)
Kin(n, m, X) ==
  /\ n.out = m.out
  /\ \/ n = m
     \/ /\ Enlarges(m.op) /\ n.op = "Resize" /\ n.ins[1] = m.ins[1]
        /\ Last(n.ins) = Last(m.ins) \/ Last(n.ins) \in X

(* Behind a node that computes no size the number is known.                *)
LEMMA NumberBehind ==
  ASSUME NEW n \in Node, n.op \notin {"Shape", "Floor"}, NEW e, e[n.out] = Apply(n.op, Operands(n, e))
  PROVE  e[n.out].num = FactorOf(n.op)
BY ApplyParts

(* Types of operands decide that of the output.                            *)
LEMMA TypeBehind ==
  ASSUME NEW n \in Node, NEW r, NEW b,
         r[n.out] = Apply(n.op, Operands(n, r)), b[n.out] = Apply(n.op, Operands(n, b)),
         \A y \in ToSet(n.ins) \ {NoName} : r[y].elem = b[y].elem
  PROVE  r[n.out].elem = b[n.out].elem
<1> DEFINE R == Operands(n, r)
           B == Operands(n, b)
<1>1. Len(R) = Len(n.ins) /\ Len(B) = Len(n.ins) /\ Len(n.ins) \in Nat /\ DOMAIN n.ins = 1 .. Len(n.ins)
  BY OperandsLength
<1>2. \A j \in DOMAIN n.ins : R[j].elem = B[j].elem
  <2>1. \A j \in DOMAIN n.ins :
          /\ n.ins[j] \in ToSet(n.ins)
          /\ R[j] = (IF n.ins[j] = NoName THEN Nothing ELSE r[n.ins[j]])
          /\ B[j] = (IF n.ins[j] = NoName THEN Nothing ELSE b[n.ins[j]])
    BY OperandsFacts
  <2>2. QED
    BY <2>1
<1>3. 1 \in DOMAIN n.ins
  BY OperandsFacts
<1>4. r[n.out].elem = ElemOf(n.op, R) /\ b[n.out].elem = ElemOf(n.op, B)
  BY ApplyParts
<1> HIDE DEF R, B
<1>5. R[1].elem = B[1].elem /\ (Len(R) > 2 => R[3].elem = B[3].elem)
  BY <1>1, <1>2, <1>3
<1>6. ElemOf(n.op, R) = ElemOf(n.op, B)
  BY <1>1, <1>5 DEF ElemOf
<1>7. QED
  BY <1>4, <1>6

LEMMA DimsBehind ==
  ASSUME NEW n \in Node, NEW e, e[n.out] = Apply(n.op, Operands(n, e))
  PROVE  /\ Enlarges(n.op) => e[n.out].dims = DimsOf(n.op, e[n.ins[1]].dims, e[Last(n.ins)].num)
         /\ ~Enlarges(n.op) => \A f : e[n.out].dims = DimsOf(n.op, e[n.ins[1]].dims, f)
<1>1. e[n.out].dims = DimsOf(n.op, Operands(n, e)[1].dims, IF Enlarges(n.op) THEN Last(Operands(n, e)).num ELSE 0)
  BY ApplyParts
<1>2. /\ Operands(n, e)[1] = e[n.ins[1]]
      /\ Enlarges(n.op) => Last(Operands(n, e)) = e[Last(n.ins)]
  BY OperandsFacts DEF Enlarges
<1>3. ASSUME ~Enlarges(n.op), NEW d, NEW f PROVE DimsOf(n.op, d, 0) = DimsOf(n.op, d, f)
  BY <1>3 DEF DimsOf, Enlarges
<1>4. QED
  BY <1>1, <1>2, <1>3

LEMMA Mirroring ==
  ASSUME NEW w, NEW h, IsGraph(w), IsGraph(h), CheckModel(w), CheckModel(h), Typed(w),
         NEW X, X \cap (Tensors(w) \cup {NoName}) = {}, NEW F, 2 \in F, NEW r, NEW b,
         \A n \in NodesOf(h) : r[n.out] = Apply(n.op, Operands(n, r)),
         \A n \in NodesOf(w) : b[n.out] = Apply(n.op, Operands(n, b)),
         \A y \in Given(h) \ X : r[y].num = b[y].num,
         \A n \in NodesOf(h) : \E m \in NodesOf(w) : Kin(n, m, X),
         \A m \in NodesOf(w) : Enlarges(m.op) => b[Last(m.ins)].num \in F,
         X = {} \/ (F = {2} /\ \A x \in X : r[x].num = 2)
  PROVE  Mirrors(h, X, F, r, b)
<1>1. SUFFICES ASSUME NEW n \in NodesOf(h)
      PROVE  /\ n.ins[1] \notin X
             /\ (\A y \in ToSet(n.ins) \ (X \cup {NoName}) : r[y].elem = b[y].elem)
                  => r[n.out].elem = b[n.out].elem
             /\ \E f \in F :
                  /\ r[n.out].dims = DimsOf(n.op, r[n.ins[1]].dims, f)
                  /\ b[n.out].dims = DimsOf(n.op, b[n.ins[1]].dims, f)
  BY DEF Mirrors
<1>2. PICK m \in NodesOf(w) : Kin(n, m, X)
  OBVIOUS
<1>3. n \in Node /\ m \in Node /\ n.out = m.out /\ n.ins[1] = m.ins[1]
  BY <1>2, GraphFacts DEF Kin
<1>4. /\ r[n.out] = Apply(n.op, Operands(n, r))
      /\ b[m.out] = Apply(m.op, Operands(m, b))
  BY <1>2
<1>5. \A y \in ToSet(m.ins) : y \notin X
  BY InOrder
<1>6. m.ins[1] \in ToSet(m.ins) /\ n.ins[1] \in ToSet(n.ins) /\ n.ins[1] # NoName
  BY <1>3, OperandsFacts DEF Node
<1>7. CASE n = m /\ ~Enlarges(n.op)
  <2>1. (\A y \in ToSet(n.ins) \ (X \cup {NoName}) : r[y].elem = b[y].elem) => r[n.out].elem = b[n.out].elem
    BY <1>3, <1>4, <1>5, <1>7, TypeBehind
  <2>2. /\ r[n.out].dims = DimsOf(n.op, r[n.ins[1]].dims, 2)
        /\ b[n.out].dims = DimsOf(n.op, b[n.ins[1]].dims, 2)
    BY <1>3, <1>4, <1>7, DimsBehind
  <2>3. QED
    BY <1>3, <1>5, <1>6, <2>1, <2>2
<1>8. CASE Enlarges(n.op) /\ Enlarges(m.op)
  <2> DEFINE y == Last(n.ins)
  <2>1. /\ r[n.out].dims = DimsOf(n.op, r[n.ins[1]].dims, r[y].num)
        /\ b[n.out].dims = DimsOf(m.op, b[n.ins[1]].dims, b[Last(m.ins)].num)
    BY <1>3, <1>4, <1>8, DimsBehind
  <2>2. \A d, f : DimsOf(m.op, d, f) = DimsOf(n.op, d, f)
    BY <1>8 DEF DimsOf, Enlarges, SizeOps
  <2>3. r[n.out].elem = r[n.ins[1]].elem /\ b[n.out].elem = b[n.ins[1]].elem
    <3>1. /\ r[n.out].elem = ElemOf(n.op, Operands(n, r)) /\ Operands(n, r)[1] = r[n.ins[1]]
          /\ b[n.out].elem = ElemOf(m.op, Operands(m, b)) /\ Operands(m, b)[1] = b[n.ins[1]]
      BY <1>3, <1>4, ApplyParts, OperandsFacts
    <3>2. \A a : ElemOf(n.op, a) = a[1].elem /\ ElemOf(m.op, a) = a[1].elem
      BY <1>8 DEF ElemOf, Enlarges, SizeOps
    <3>3. QED
      BY <3>1, <3>2
  <2>4. r[y].num = b[Last(m.ins)].num
    <3>1. y \in ToSet(n.ins) /\ y # NoName /\ Last(m.ins) \in ToSet(m.ins)
      BY <1>3, <1>8, OperandsFacts DEF Enlarges, Node
    <3>2. CASE y \in X
      <4>1. F = {2} /\ r[y].num = 2
        BY <3>2
      <4>2. b[Last(m.ins)].num \in F
        BY <1>8
      <4>3. QED
        BY <4>1, <4>2
    <3>3. CASE y \notin X
      <4>1. y = Last(m.ins)
        BY <1>2, <3>3 DEF Kin
      <4>2. y \notin Sizes(w)
        <5>1. m.op \notin {"Floor", "Ratio2", "Ratio3"}
          BY <1>8 DEF Enlarges
        <5>2. QED
          BY <3>1, <4>1, <5>1 DEF Typed
      <4>3. y \in Tensors(h)
        BY <3>1, InOrder
      <4>4. CASE y \in Given(h)
        BY <3>3, <4>1, <4>4
      <4>5. CASE y \notin Given(h)
        <5>1. PICK l \in NodesOf(h) : l.out = y
          BY <4>3, <4>5 DEF Tensors, Produced
        <5>2. PICK o \in NodesOf(w) : Kin(l, o, X)
          OBVIOUS
        <5>3. o.op \notin {"Shape", "Floor"} /\ o.out = y
          BY <4>2, <5>1, <5>2 DEF Sizes, Kin
        <5>4. l.op \notin {"Shape", "Floor"} /\ FactorOf(l.op) = FactorOf(o.op)
          BY <5>2, <5>3 DEF Kin, FactorOf, Enlarges
        <5>5. l \in Node /\ o \in Node
          BY GraphFacts
        <5>6. r[y].num = FactorOf(l.op)
          BY <5>1, <5>4, <5>5, NumberBehind
        <5>7. b[y].num = FactorOf(o.op)
          BY <5>3, <5>5, NumberBehind
        <5>8. QED
          BY <4>1, <5>4, <5>6, <5>7
      <4>6. QED
        BY <4>4, <4>5
    <3>4. QED
      BY <3>2, <3>3
  <2>5. b[Last(m.ins)].num \in F
    BY <1>8
  <2>6. QED
    BY <1>3, <1>5, <1>6, <2>1, <2>2, <2>3, <2>4, <2>5
<1>9. QED
  BY <1>2, <1>7, <1>8 DEF Kin, Enlarges

(* What a graph starts from, as it is declared.                            *)
LEMMA StartDeclared ==
  ASSUME NEW g, IsGraph(g), CheckModel(g)
  PROVE  /\ \A v \in ToSet(g.ins) : v.name \notin DOMAIN g.inits =>
              /\ RunFree(g)[v.name].elem = v.elem /\ RunFree(g)[v.name].dims = v.dims
              /\ RunFree(g)[v.name].num = 0
         /\ \A m \in DOMAIN g.inits :
              /\ RunFree(g)[m].elem = g.inits[m].elem /\ RunFree(g)[m].dims = <<>>
              /\ RunFree(g)[m].num = g.inits[m].num /\ RunFree(g)[m].num \in Nat
         /\ \A n \in NodesOf(g) : RunFree(g)[n.out] = Apply(n.op, Operands(n, RunFree(g)))
<1> DEFINE r == RunFree(g)
<1>1. /\ Feeds(Free(g), g) /\ Solves(g, Free(g), r)
      /\ \A j \in DOMAIN g.ins : g.ins[j].name \notin DOMAIN g.inits =>
           Free(g)[g.ins[j].name] =
             Value(Term("Input", g.ins[j].name, <<>>, 0), g.ins[j].elem, g.ins[j].dims, 0)
  BY FreeFacts
<1>2. /\ \A m \in DOMAIN Free(g) : r[m] = Free(g)[m]
      /\ \A m \in DOMAIN g.inits : r[m] = Weight(g, m)
      /\ \A n \in NodesOf(g) : r[n.out] = Apply(n.op, Operands(n, r))
  BY <1>1, SolvesParts
<1> HIDE DEF r
<1>3. ASSUME NEW v \in ToSet(g.ins), v.name \notin DOMAIN g.inits
      PROVE  r[v.name].elem = v.elem /\ r[v.name].dims = v.dims /\ r[v.name].num = 0
  <2>1. PICK j \in DOMAIN g.ins : v = g.ins[j]
    BY DEF ToSet
  <2>2. v.name \in DOMAIN Free(g)
    BY <1>1, <1>3, <2>1 DEF Feeds, NamesOf
  <2>3. r[v.name] = Value(Term("Input", v.name, <<>>, 0), v.elem, v.dims, 0)
    BY <1>1, <1>2, <1>3, <2>1, <2>2
  <2>4. QED
    BY <2>3 DEF Value
<1>4. ASSUME NEW m \in DOMAIN g.inits
      PROVE  /\ r[m].elem = g.inits[m].elem /\ r[m].dims = <<>>
             /\ r[m].num = g.inits[m].num /\ r[m].num \in Nat
  <2>1. g.inits[m].num \in Nat
    BY DEF IsGraph, Init_
  <2>2. r[m] = Weight(g, m)
    BY <1>2
  <2>3. r[m].elem = g.inits[m].elem /\ r[m].dims = <<>> /\ r[m].num = g.inits[m].num
    BY <2>2 DEF Weight, Value
  <2>4. QED
    BY <2>1, <2>3
<1>5. QED
  BY <1>2, <1>3, <1>4 DEF r

(* Factors are numbers.                                                    *)
LEMMA FactorsAreNumbers ==
  ASSUME NEW w, IsGraph(w), CheckModel(w), Typed(w), NEW m \in NodesOf(w), Enlarges(m.op)
  PROVE  RunFree(w)[Last(m.ins)].num \in Nat
<1> DEFINE b == RunFree(w)
           y == Last(m.ins)
<1>1. m \in Node
  BY GraphFacts
<1>2. y \in ToSet(m.ins) /\ y # NoName
  BY <1>1, OperandsFacts DEF Enlarges, Node
<1>3. y \in Tensors(w) /\ y \notin Sizes(w)
  <2>1. m.op \notin {"Floor", "Ratio2", "Ratio3"}
    BY DEF Enlarges
  <2>2. QED
    BY <1>2, <2>1, InOrder DEF Typed
<1>4. CASE y \in DOMAIN w.inits
  BY <1>4, StartDeclared
<1>5. CASE y \in NamesOf(w.ins) /\ y \notin DOMAIN w.inits
  <2>1. PICK v \in ToSet(w.ins) : v.name = y
    BY <1>5, NamesOfElements
  <2>2. QED
    BY <1>5, <2>1, StartDeclared
<1>6. CASE y \in Produced(w)
  <2>1. PICK n \in NodesOf(w) : n.out = y
    BY <1>6 DEF Produced
  <2>2. n \in Node /\ n.op \notin {"Shape", "Floor"}
    BY <1>3, <2>1, GraphFacts DEF Sizes
  <2>3. b[n.out] = Apply(n.op, Operands(n, b))
    BY StartDeclared
  <2> HIDE DEF b
  <2>4. b[y].num = FactorOf(n.op)
    BY <2>1, <2>2, <2>3, NumberBehind
  <2>5. QED
    BY <2>4 DEF FactorOf, b
<1>7. QED
  BY <1>3, <1>4, <1>5, <1>6 DEF Tensors, Given

(* Symbols become z.                                                       *)
Pinned(dims, z) == [i \in DOMAIN dims |-> IF dims[i] = Symbol THEN z ELSE dims[i]]

LEMMA PinnedFits ==
  ASSUME NEW dims \in Seq(Dim), NEW z
  PROVE  Fits(dims, Pinned(dims, z), z)
<1>1. \A i \in DOMAIN dims : dims[i] \in Dim
  OBVIOUS
<1>2. QED
  BY <1>1 DEF Pinned, Fits, Known, Symbol

(* Dimensions that are declared, or left open; and those that are declared *)
(* or not set.                                                             *)
Says(dims, d) ==
  DOMAIN d = DOMAIN dims /\ \A i \in DOMAIN dims : dims[i] \in {Symbol, Unset, d[i]}
Tell(dims, d) == DOMAIN d = DOMAIN dims /\ \A i \in DOMAIN dims : dims[i] \in {Unset, d[i]}

(* Nothing is declared to have no size.                                    *)
NoZero(dims) == \A i \in DOMAIN dims : dims[i] # 0
Sized(values) == \A j \in DOMAIN values : NoZero(values[j].dims)

LEMMA PinnedTell ==
  ASSUME NEW d, NEW e, NEW z, Fits(d, e, z), NEW dims, Tell(dims, d), NoZero(dims)
  PROVE  Tell(Pinned(dims, z), e)
<1>1. ASSUME NEW i \in DOMAIN dims PROVE Pinned(dims, z)[i] \in {Unset, e[i]}
  <2>1. d[i] \in Dim /\ (d[i] = Symbol /\ z # Unset => e[i] = z) /\ (Known(d[i]) => e[i] = d[i])
    BY DEF Fits, Tell
  <2>2. Pinned(dims, z)[i] = (IF dims[i] = Symbol THEN z ELSE dims[i])
    BY DEF Pinned
  <2>3. dims[i] = Unset \/ dims[i] = d[i]
    BY DEF Tell
  <2>4. CASE dims[i] = Unset
    BY <2>2, <2>4 DEF Unset, Symbol
  <2>5. CASE dims[i] = d[i] /\ d[i] # Unset
    <3>1. d[i] = Symbol \/ Known(d[i])
      <4>1. d[i] \in Int /\ d[i] >= -2 /\ d[i] # -2 /\ d[i] # 0
        BY <2>1, <2>5 DEF Dim, Unset, NoZero
      <4>2. QED
        BY <4>1 DEF Symbol, Known
    <3>2. Known(d[i]) => d[i] # Symbol
      BY DEF Known, Symbol
    <3>3. QED
      BY <2>1, <2>2, <2>5, <3>1, <3>2
  <2>6. QED
    BY <2>3, <2>4, <2>5
<1>2. DOMAIN Pinned(dims, z) = DOMAIN dims
  BY DEF Pinned
<1>3. QED
  BY <1>1, <1>2 DEF Fits, Tell

LEMMA HonestParts ==
  ASSUME NEW g, NEW env, env = RunFree(g)
  PROVE  Honest(g) <=>
           /\ g.ins # <<>> => g.ins[1].name \notin DOMAIN g.inits
           /\ Sized(g.ins) /\ Sized(g.outs)
           /\ \A j \in DOMAIN g.outs :
                env[g.outs[j].name].elem = g.outs[j].elem /\ Says(g.outs[j].dims, env[g.outs[j].name].dims)
           /\ \A n \in NodesOf(g) :
                n.op = "DequantizeLinear" /\ Len(n.ins) > 2 /\ n.ins[3] \in DOMAIN g.inits =>
                  env[n.ins[1]].elem = g.inits[n.ins[3]].elem
<1>1. \A values : Sized(values) <=> \A v \in ToSet(values) : 0 \notin ToSet(v.dims)
  BY DEF Sized, NoZero, ToSet
<1>2. Sized(g.ins) /\ Sized(g.outs) <=> \A v \in ToSet(g.ins) \cup ToSet(g.outs) : 0 \notin ToSet(v.dims)
  BY <1>1
<1>3. QED
  BY <1>2 DEF Honest, Says

(* What is pinned is declared, if the symbol was that of the tensor; and   *)
(* it has a size.                                                          *)
LEMMA TellSays ==
  ASSUME NEW dims, NEW d
  PROVE  /\ Tell(dims, d) => Says(dims, d)
         /\ Says(dims, d) /\ (\A i \in DOMAIN dims : dims[i] = Symbol => d[i] = Symbol) => Tell(dims, d)
BY DEF Tell, Says

LEMMA PinnedSized ==
  ASSUME NEW dims, NoZero(dims), NEW z, z # 0
  PROVE  NoZero(Pinned(dims, z))
BY DEF NoZero, Pinned

LEMMA PinSymbolsFacts ==
  ASSUME NEW values \in Seq(ValueInfo)
  PROVE  /\ DOMAIN PinSymbols(values) = DOMAIN values
         /\ \A j \in DOMAIN values :
              /\ PinSymbols(values)[j].name = values[j].name
              /\ PinSymbols(values)[j].elem = values[j].elem
              /\ PinSymbols(values)[j].dims = Pinned(values[j].dims, Batch)
              /\ values[j].dims \in Seq(Dim)
<1>1. \A j \in DOMAIN values : values[j] \in ValueInfo
  OBVIOUS
<1>2. \A j \in DOMAIN values : DOMAIN values[j] = {"name", "elem", "dims"} /\ values[j].dims \in Seq(Dim)
  BY <1>1 DEF ValueInfo
<1>3. \A j \in DOMAIN values : PinSymbols(values)[j].dims = Pinned(values[j].dims, Batch)
  BY <1>2 DEF PinSymbols, Pinned
<1>4. QED
  BY <1>2, <1>3, PinNames

(* prepare_model and prepare_style.                                        *)
LEMMA DescendantStarts ==
  ASSUME NEW w, NEW g, Descends(g, w), IsGraph(g)
  PROVE  /\ Added(g, w) \cap (Tensors(w) \cup {NoName}) = {}
         /\ DOMAIN g.inits = DOMAIN w.inits \cup Added(g, w)
         /\ NamesOf(g.ins) \cap DOMAIN g.inits = {}
         /\ Given(g) \ Added(g, w) = NamesOf(g.ins) \cup DOMAIN w.inits
         /\ NamesOf(g.ins) \cap DOMAIN w.inits = {}
<1>1. \A m \in Added(g, w) : m \notin Tensors(w) /\ m \in DOMAIN g.inits
  BY DEF Descends, Added
<1>2. DOMAIN g.inits = DOMAIN w.inits \cup Added(g, w)
  BY DEF Descends, Added
<1>3. NamesOf(g.ins) = NamesOf(w.ins) \ DOMAIN w.inits
  BY DEF Descends
<1>4. NamesOf(w.ins) \subseteq Tensors(w)
  BY DEF Tensors, Given
<1>5. DOMAIN w.inits \cap Added(g, w) = {} /\ NoName \notin Added(g, w)
  BY DEF Added, IsGraph, GivenName
<1>6. QED
  BY <1>1, <1>2, <1>3, <1>4, <1>5 DEF Given

(* An input as it is declared, and as it was.                              *)
InputsKeepTypes(g, w) ==
  \A v \in ToSet(g.ins) : \E u \in ToSet(w.ins) : v.name = u.name /\ v.elem = u.elem

LEMMA DescendantMirrors ==
  ASSUME NEW w, NEW g, IsGraph(w), IsGraph(g), Usable(w), Usable(g), Descends(g, w),
         InputsKeepTypes(g, w), NEW F, 2 \in F,
         \A m \in NodesOf(w) : Enlarges(m.op) => RunFree(w)[Last(m.ins)].num \in F,
         Added(g, w) = {} \/ F = {2}
  PROVE  /\ Mirrors(g, Added(g, w), F, RunFree(g), RunFree(w))
         /\ \A m \in Tensors(g) \ Added(g, w) : RunFree(g)[m].elem = RunFree(w)[m].elem
<1> DEFINE r == RunFree(g)
           b == RunFree(w)
           X == Added(g, w)
<1>1. CheckModel(w) /\ CheckModel(g) /\ Typed(w)
  BY DEF Usable
<1>2. X \cap (Tensors(w) \cup {NoName}) = {} /\ \A x \in X : x \in DOMAIN g.inits
  BY DescendantStarts DEF Added
<1>3. \A n \in NodesOf(g) : \E m \in NodesOf(w) : Kin(n, m, X)
  BY DEF Descends, From, Kin, Enlarges
<1>4. ASSUME NEW y \in Given(g) \ X PROVE r[y].num = b[y].num /\ r[y].elem = b[y].elem
  <2>1. CASE y \in DOMAIN w.inits
    <3>1. y \in DOMAIN g.inits /\ g.inits[y] = w.inits[y]
      BY <2>1 DEF Descends
    <3>2. QED
      BY <1>1, <2>1, <3>1, StartDeclared
  <2>2. CASE y \in NamesOf(g.ins)
    <3>1. PICK v \in ToSet(g.ins) : v.name = y
      BY <2>2, NamesOfElements
    <3>2. PICK u \in ToSet(w.ins) : v.name = u.name /\ v.elem = u.elem
      BY DEF InputsKeepTypes
    <3>3. y \notin DOMAIN g.inits /\ y \notin DOMAIN w.inits
      BY <2>2, DescendantStarts
    <3>4. r[y].elem = v.elem /\ r[y].num = 0
      BY <1>1, <3>1, <3>3, StartDeclared
    <3>5. b[y].elem = u.elem /\ b[y].num = 0
      BY <1>1, <3>1, <3>2, <3>3, StartDeclared
    <3>6. QED
      BY <3>2, <3>4, <3>5
  <2>3. QED
    BY <2>1, <2>2, DescendantStarts
<1>5. \A x \in X : r[x].num = 2
  <2>1. ASSUME NEW x \in X PROVE r[x].num = 2
    <3>1. g.inits[x].num = 2
      BY DEF Descends
    <3>2. QED
      BY <1>1, <1>2, <3>1, StartDeclared
  <2>2. QED
    BY <2>1
<1>6. /\ \A n \in NodesOf(g) : r[n.out] = Apply(n.op, Operands(n, r))
      /\ \A n \in NodesOf(w) : b[n.out] = Apply(n.op, Operands(n, b))
  BY <1>1, StartDeclared
<1>7. \A m \in NodesOf(w) : Enlarges(m.op) => b[Last(m.ins)].num \in F
  OBVIOUS
<1>8. X = {} \/ F = {2}
  OBVIOUS
<1> HIDE DEF r, b, X
<1>9. Mirrors(g, X, F, r, b)
  BY <1>1, <1>2, <1>3, <1>4, <1>5, <1>6, <1>7, <1>8, Mirroring
<1>10. \A m \in Tensors(g) \ X : r[m].elem = b[m].elem
  BY <1>1, <1>4, <1>9, SameTypes
<1>11. QED
  BY <1>9, <1>10 DEF r, b, X

(* What is dequantised has the type it had.                                *)
LEMMA DescendantDequantises ==
  ASSUME NEW w, NEW g, IsGraph(w), IsGraph(g), Usable(w), Usable(g), Descends(g, w), Honest(w),
         \A m \in Tensors(g) \ Added(g, w) : RunFree(g)[m].elem = RunFree(w)[m].elem,
         NEW n \in NodesOf(g), n.op = "DequantizeLinear", Len(n.ins) > 2, n.ins[3] \in DOMAIN g.inits
  PROVE  RunFree(g)[n.ins[1]].elem = g.inits[n.ins[3]].elem
<1> DEFINE r == RunFree(g)
           b == RunFree(w)
<1>1. n \in NodesOf(w)
  BY DEF Descends, From
<1>2. n \in Node
  BY GraphFacts
<1>3. n.ins[3] \in ToSet(n.ins) /\ n.ins[1] \in ToSet(n.ins)
  <2>1. Len(n.ins) \in Nat /\ DOMAIN n.ins = 1 .. Len(n.ins)
    BY <1>2, OperandsLength
  <2>2. QED
    BY <2>1 DEF ToSet
<1>4. CheckModel(w) /\ CheckModel(g)
  BY DEF Usable
<1>5. ToSet(n.ins) \subseteq Tensors(w) \cup {NoName}
  BY <1>1, <1>4, InOrder
<1>6. NoName \notin DOMAIN g.inits
  BY DEF IsGraph, GivenName
<1>7. n.ins[3] \in DOMAIN w.inits /\ g.inits[n.ins[3]] = w.inits[n.ins[3]]
  BY <1>3, <1>5, <1>6, DescendantStarts DEF Descends
<1>8. n.ins[1] \in Tensors(g) /\ n.ins[1] \in Tensors(w)
  BY <1>1, <1>4, InOrder
<1>9. n.ins[1] \notin Added(g, w)
  BY <1>8 DEF Descends
<1>10. b[n.ins[1]].elem = w.inits[n.ins[3]].elem
  BY <1>1, <1>7, HonestParts
<1>11. r[n.ins[1]].elem = b[n.ins[1]].elem
  BY <1>8, <1>9
<1>12. QED
  BY <1>7, <1>10, <1>11

(* The values a graph declares at its boundary, when symbols became z.     *)
PinnedTo(made, old, z) ==
  /\ DOMAIN made = DOMAIN old
  /\ \A j \in DOMAIN old :
       /\ made[j].name = old[j].name /\ made[j].elem = old[j].elem
       /\ made[j].dims = Pinned(old[j].dims, z) /\ old[j].dims \in Seq(Dim)

(* prepare_model: every symbol stands for the batch now.                   *)
LEMMA PreparedHonest ==
  ASSUME NEW w, NEW g, IsGraph(w), IsGraph(g), Usable(w), Usable(g), Descends(g, w),
         Added(g, w) = {}, PinnedTo(g.ins, RealInputs(w), Batch), PinnedTo(g.outs, w.outs, Batch),
         Honest(w), SymbolsPass(w)
  PROVE  Honest(g)
<1> DEFINE r == RunFree(g)
           b == RunFree(w)
<1>1. CheckModel(w) /\ CheckModel(g) /\ Typed(w) /\ NamesOf(g.outs) \subseteq Tensors(g)
  BY DEF Usable
<1>2. ASSUME NEW v \in ToSet(g.ins)
      PROVE  \E u \in ToSet(w.ins) :
               /\ v.name = u.name /\ v.elem = u.elem /\ u.name \notin DOMAIN w.inits
               /\ Fits(u.dims, v.dims, Batch)
  <2>1. PICK j \in DOMAIN g.ins : v = g.ins[j]
    BY DEF ToSet
  <2> DEFINE u == RealInputs(w)[j]
  <2>2. /\ v.name = u.name /\ v.elem = u.elem /\ j \in DOMAIN RealInputs(w)
        /\ v.dims = Pinned(u.dims, Batch) /\ u.dims \in Seq(Dim)
    BY <2>1 DEF PinnedTo
  <2>3. u \in ToSet(RealInputs(w))
    BY <2>2 DEF ToSet
  <2>4. u \in ToSet(w.ins) /\ u.name \notin DOMAIN w.inits
    BY <2>3, RealInputsTypes
  <2> HIDE DEF u
  <2>5. Fits(u.dims, v.dims, Batch)
    BY <2>2, PinnedFits
  <2>6. QED
    BY <2>2, <2>4, <2>5
<1>3. InputsKeepTypes(g, w)
  BY <1>2 DEF InputsKeepTypes
<1>4. \A m \in NodesOf(w) : Enlarges(m.op) => RunFree(w)[Last(m.ins)].num \in Nat
  BY <1>1, FactorsAreNumbers
<1>5. /\ Mirrors(g, Added(g, w), Nat, r, b)
      /\ \A m \in Tensors(g) \ Added(g, w) : r[m].elem = b[m].elem
  BY <1>3, <1>4, DescendantMirrors
<1>6. ASSUME NEW y \in Given(g) \ Added(g, w) PROVE Fits(b[y].dims, r[y].dims, Batch)
  <2>1. CASE y \in DOMAIN w.inits
    <3>1. y \in DOMAIN g.inits
      BY <2>1 DEF Descends
    <3>2. r[y].dims = <<>> /\ b[y].dims = <<>>
      BY <1>1, <2>1, <3>1, StartDeclared
    <3>3. QED
      BY <3>2 DEF Fits
  <2>2. CASE y \in NamesOf(g.ins)
    <3>1. PICK v \in ToSet(g.ins) : v.name = y
      BY <2>2, NamesOfElements
    <3>2. PICK u \in ToSet(w.ins) :
               /\ v.name = u.name /\ v.elem = u.elem /\ u.name \notin DOMAIN w.inits
               /\ Fits(u.dims, v.dims, Batch)
      BY <1>2
    <3>3. y \notin DOMAIN g.inits
      BY <2>2, DescendantStarts
    <3>4. r[y].dims = v.dims /\ b[y].dims = u.dims
      BY <1>1, <3>1, <3>2, <3>3, StartDeclared
    <3>5. QED
      BY <3>2, <3>4
  <2>3. QED
    BY <2>1, <2>2, DescendantStarts
<1>7. \A m \in Tensors(g) \ Added(g, w) : Fits(b[m].dims, r[m].dims, Batch)
  <2> HIDE DEF r, b
  <2>1. QED
    BY <1>1, <1>5, <1>6, FittingShapes
<1>8. ASSUME NEW j \in DOMAIN g.outs
      PROVE  r[g.outs[j].name].elem = g.outs[j].elem /\ Tell(g.outs[j].dims, r[g.outs[j].name].dims)
  <2> DEFINE y == g.outs[j].name
  <2>1. /\ j \in DOMAIN w.outs /\ y = w.outs[j].name /\ g.outs[j].elem = w.outs[j].elem
        /\ g.outs[j].dims = Pinned(w.outs[j].dims, Batch)
    BY DEF PinnedTo
  <2>2. y \in Tensors(g) \ Added(g, w)
    BY <1>1 DEF NamesOf
  <2>3. /\ b[y].elem = w.outs[j].elem /\ Tell(w.outs[j].dims, b[y].dims)
        /\ NoZero(w.outs[j].dims)
    <3>1. b[y].elem = w.outs[j].elem /\ Says(w.outs[j].dims, b[y].dims) /\ Sized(w.outs)
      BY <2>1, HonestParts
    <3>2. \A d \in DOMAIN w.outs[j].dims : w.outs[j].dims[d] = Symbol => b[y].dims[d] = Symbol
      BY <2>1 DEF SymbolsPass
    <3>3. QED
      BY <2>1, <3>1, <3>2, TellSays DEF Sized
  <2>4. r[y].elem = b[y].elem /\ Fits(b[y].dims, r[y].dims, Batch)
    BY <1>5, <1>7, <2>2
  <2> HIDE DEF r, b, y
  <2>5. Tell(Pinned(w.outs[j].dims, Batch), r[y].dims)
    BY <2>3, <2>4, PinnedTell
  <2>6. QED
    BY <2>1, <2>3, <2>4, <2>5 DEF y
<1>9. ASSUME NEW n \in NodesOf(g), n.op = "DequantizeLinear", Len(n.ins) > 2, n.ins[3] \in DOMAIN g.inits
      PROVE  r[n.ins[1]].elem = g.inits[n.ins[3]].elem
  BY <1>5, <1>9, DescendantDequantises
<1>10. g.ins # <<>> => g.ins[1].name \notin DOMAIN g.inits
  <2>1. SUFFICES ASSUME g.ins # <<>> PROVE g.ins[1].name \notin DOMAIN g.inits
    OBVIOUS
  <2>2. g.ins \in Seq(ValueInfo)
    BY GraphParts
  <2>3. 1 \in DOMAIN g.ins
    BY <2>1, <2>2
  <2>4. g.ins[1].name \in NamesOf(g.ins)
    BY <2>3 DEF NamesOf
  <2>5. QED
    BY <2>4, DescendantStarts
<1>11. Sized(g.ins) /\ Sized(g.outs)
  <2>1. Sized(w.ins) /\ Sized(w.outs) /\ Batch # 0
    BY HonestParts, GraphToolsAssumption
  <2>2. Sized(RealInputs(w))
    BY <2>1, RealInputsTypes DEF Sized, ToSet
  <2>3. \A made, old : PinnedTo(made, old, Batch) /\ Sized(old) => Sized(made)
    BY <2>1, PinnedSized DEF PinnedTo, Sized
  <2>4. QED
    BY <2>1, <2>2, <2>3
<1>12. QED
  BY <1>8, <1>9, <1>10, <1>11, HonestParts, TellSays

(* Powers of two.                                                          *)
IsPower(p, n) == p = [j \in 0 .. n |-> IF j = 0 THEN 1 ELSE 2 * p[j - 1]]

LEMMA PowerExists ==
  ASSUME NEW n \in Nat
  PROVE  \E p : IsPower(p, n)
<1> DEFINE Have == {m \in 0 .. n : \E p : IsPower(p, m)}
<1>1. 0 \in Have
  <2>1. IsPower([j \in 0 .. 0 |-> 1], 0)
    BY DEF IsPower
  <2>2. QED
    BY <2>1
<1>2. ASSUME NEW m \in 1 .. n, m - 1 \in Have PROVE m \in Have
  <2>1. PICK p : IsPower(p, m - 1)
    BY <1>2
  <2> DEFINE more == [j \in 0 .. m |-> IF j = m THEN 2 * p[m - 1] ELSE p[j]]
  <2>2. \A j \in 0 .. m - 1 : more[j] = p[j]
    OBVIOUS
  <2>3. more[m] = 2 * more[m - 1]
    BY <2>2
  <2>4. ASSUME NEW j \in 0 .. m
        PROVE  more[j] = IF j = 0 THEN 1 ELSE 2 * more[j - 1]
    <3> HIDE DEF more
    <3>1. CASE j = m
      BY <3>1, <2>3
    <3>2. CASE j # m
      <4>1. j \in 0 .. m - 1 /\ (j # 0 => j - 1 \in 0 .. m - 1)
        BY <3>2
      <4>2. QED
        BY <2>1, <2>2, <4>1 DEF IsPower
    <3>3. QED
      BY <3>1, <3>2
  <2>5. IsPower(more, m)
    BY <2>4 DEF IsPower
  <2>6. QED
    BY <2>5
<1> HIDE DEF Have
<1>3. n \in Have
  BY <1>1, <1>2, UpTo
<1>4. QED
  BY <1>3 DEF Have

LEMMA PowerRecursion ==
  ASSUME NEW n \in Nat
  PROVE  \E p : /\ Power(n) = p[n] /\ p[0] = 1
                /\ \A j \in 1 .. n : p[j] = 2 * p[j - 1]
<1> DEFINE p == CHOOSE f : IsPower(f, n)
<1>1. IsPower(p, n)
  BY PowerExists
<1>2. Power(n) = p[n]
  BY DEF Power, IsPower
<1> HIDE DEF p
<1>3. p[0] = 1
  BY <1>1 DEF IsPower
<1>4. ASSUME NEW j \in 1 .. n PROVE p[j] = 2 * p[j - 1]
  <2>1. j \in 0 .. n /\ j # 0
    OBVIOUS
  <2>2. QED
    BY <1>1, <2>1 DEF IsPower
<1>5. QED
  BY <1>2, <1>3, <1>4

LEMMA PowerFacts ==
  /\ Power(0) = 1
  /\ \A n \in Nat : Power(n) \in Nat \ {0} /\ Power(n + 1) = 2 * Power(n)
<1>1. ASSUME NEW n \in Nat
      PROVE  Power(n) \in Nat \ {0} /\ Power(n + 1) = 2 * Power(n) /\ (n = 0 => Power(n) = 1)
  <2>1. PICK p : /\ Power(n) = p[n] /\ p[0] = 1 /\ \A j \in 1 .. n : p[j] = 2 * p[j - 1]
    BY PowerRecursion
  <2>2. PICK q : /\ Power(n + 1) = q[n + 1] /\ q[0] = 1 /\ \A j \in 1 .. n + 1 : q[j] = 2 * q[j - 1]
    BY PowerRecursion
  <2> DEFINE S == {j \in 0 .. n : p[j] = q[j] /\ p[j] \in Nat \ {0}}
  <2>3. 0 \in S
    BY <2>1, <2>2
  <2>4. ASSUME NEW j \in 1 .. n, j - 1 \in S PROVE j \in S
    <3>1. p[j] = 2 * p[j - 1] /\ q[j] = 2 * q[j - 1]
      BY <2>1, <2>2
    <3>2. p[j - 1] = q[j - 1] /\ p[j - 1] \in Nat \ {0}
      BY <2>4
    <3>3. QED
      BY <3>1, <3>2
  <2> HIDE DEF S
  <2>5. n \in S
    BY <2>3, <2>4, UpTo
  <2>6. q[n + 1] = 2 * q[n]
    <3>1. n + 1 \in 1 .. n + 1 /\ (n + 1) - 1 = n
      OBVIOUS
    <3>2. QED
      BY <2>2, <3>1
  <2>7. QED
    BY <2>1, <2>2, <2>5, <2>6 DEF S
<1>2. QED
  BY <1>1

Multiple(M, s) == \E u \in Nat \ {0} : M = u * Power(s)

LEMMA Products ==
  ASSUME NEW x \in Nat \ {0}, NEW y \in Nat \ {0}
  PROVE  /\ x * y \in Nat \ {0} /\ (2 * x) * y = 2 * (x * y) /\ x * (2 * y) = 2 * (x * y)
         /\ 1 * x = x /\ \A z \in Nat \ {0} : x * y = z * y => x = z
<1>1. x * y \in Nat
  OBVIOUS
<1>2. x * y # 0
  OBVIOUS
<1>3. (2 * x) * y = 2 * (x * y) /\ x * (2 * y) = 2 * (x * y)
  OBVIOUS
<1>4. ASSUME NEW z \in Nat \ {0}, x * y = z * y PROVE x = z
  <2>1. (x - z) * y = 0
    BY <1>4
  <2>2. QED
    BY <2>1
<1>5. \A z \in Nat \ {0} : x * y = z * y => x = z
  BY <1>4
<1>6. x * y \in Nat \ {0} /\ 1 * x = x
  BY <1>1, <1>2
<1>7. QED
  BY <1>3, <1>5, <1>6

LEMMA Multiples ==
  ASSUME NEW s \in Nat
  PROVE  /\ Multiple(Power(s), s)
         /\ \A M : Multiple(M, s) => M \in Nat \ {0} /\ Multiple(2 * M, s)
         /\ \A M : Multiple(M, s + 1) => \E K \in Nat \ {0} : M = 2 * K /\ Multiple(K, s)
<1> DEFINE P == Power(s)
<1>1. P \in Nat \ {0} /\ Power(s + 1) = 2 * P
  BY PowerFacts
<1> HIDE DEF P
<1>2. \A M : Multiple(M, s) <=> \E u \in Nat \ {0} : M = u * P
  BY DEF Multiple, P
<1>3. \A M : Multiple(M, s + 1) <=> \E u \in Nat \ {0} : M = u * (2 * P)
  BY <1>1 DEF Multiple
<1>4. Multiple(P, s)
  <2>1. P = 1 * P /\ 1 \in Nat \ {0}
    BY <1>1
  <2>2. QED
    BY <1>2, <2>1
<1>5. ASSUME NEW M, Multiple(M, s) PROVE M \in Nat \ {0} /\ Multiple(2 * M, s)
  <2>1. PICK u \in Nat \ {0} : M = u * P
    BY <1>2, <1>5
  <2>2. M \in Nat \ {0} /\ 2 * M = (2 * u) * P
    BY <1>1, <2>1, Products
  <2>3. 2 * u \in Nat \ {0}
    OBVIOUS
  <2>4. QED
    BY <1>2, <2>2, <2>3
<1>6. ASSUME NEW M, Multiple(M, s + 1) PROVE \E K \in Nat \ {0} : M = 2 * K /\ Multiple(K, s)
  <2>1. PICK u \in Nat \ {0} : M = u * (2 * P)
    BY <1>3, <1>6
  <2> DEFINE K == u * P
  <2>2. M = 2 * K /\ K \in Nat \ {0}
    BY <1>1, <2>1, Products
  <2>3. Multiple(K, s)
    BY <1>2
  <2>4. QED
    BY <2>2, <2>3
<1>7. QED
  BY <1>4, <1>5, <1>6 DEF P

(* The size of a tensor before and after prepare_style: of what the image  *)
(* was made of, q times p, and is made of, c times f, it has M.            *)
ScaledBy(d, e, M, q, p, c, f) ==
  /\ DOMAIN d = DOMAIN e /\ DOMAIN d \subseteq 1 .. 4
  /\ 1 \in DOMAIN d => e[1] = 1
  /\ 2 \in DOMAIN d => e[2] = d[2]
  /\ 3 \in DOMAIN d => d[3] = M * q /\ e[3] = M * c
  /\ 4 \in DOMAIN d => d[4] = M * p /\ e[4] = M * f

LEMMA Doubling ==
  ASSUME NEW x \in Nat \ {0}
  PROVE  Times(2, x) = 2 * x /\ Halved(2 * x) = x
<1>1. x > 0 /\ 2 * x > 0
  OBVIOUS
<1>2. Times(2, x) = 2 * x
  BY <1>1 DEF Times, Known
<1>3. (2 * x + 1) \div 2 = x
  OBVIOUS
<1>4. Halved(2 * x) = x
  BY <1>1, <1>3 DEF Halved, Known
<1>5. QED
  BY <1>2, <1>4

LEMMA ScaledStep ==
  ASSUME NEW q \in Nat \ {0}, NEW p \in Nat \ {0}, NEW c \in Nat \ {0}, NEW f \in Nat \ {0}, NEW M \in Nat \ {0},
         NEW d, NEW e, ScaledBy(d, e, M, q, p, c, f), NEW op, op \notin {"ToNHWC", "ToNCHW"}
  PROVE  /\ op = "Half" => \A K \in Nat \ {0} : M = 2 * K =>
              ScaledBy(DimsOf(op, d, 2), DimsOf(op, e, 2), K, q, p, c, f)
         /\ Enlarges(op) => ScaledBy(DimsOf(op, d, 2), DimsOf(op, e, 2), 2 * M, q, p, c, f)
         /\ op # "Half" /\ ~Enlarges(op) => ScaledBy(DimsOf(op, d, 2), DimsOf(op, e, 2), M, q, p, c, f)
<1>1. DOMAIN d = DOMAIN e /\ DOMAIN d \subseteq {1, 2, 3, 4}
  BY DEF ScaledBy
<1>2. ASSUME op = "Half", NEW K \in Nat \ {0}, M = 2 * K
      PROVE  ScaledBy(DimsOf(op, d, 2), DimsOf(op, e, 2), K, q, p, c, f)
  <2>1. /\ DimsOf(op, d, 2) = [i \in DOMAIN d |-> IF i > 2 THEN Halved(d[i]) ELSE d[i]]
        /\ DimsOf(op, e, 2) = [i \in DOMAIN e |-> IF i > 2 THEN Halved(e[i]) ELSE e[i]]
    BY <1>2 DEF DimsOf, SizeOps
  <2>2. \A x \in {q, p, c, f} : Halved(M * x) = K * x
    <3>1. \A x \in {q, p, c, f} : K * x \in Nat \ {0} /\ M * x = 2 * (K * x)
      BY <1>2, Products
    <3>2. QED
      BY <3>1, Doubling
  <2>3. QED
    BY <1>1, <2>1, <2>2 DEF ScaledBy
<1>3. ASSUME Enlarges(op)
      PROVE  ScaledBy(DimsOf(op, d, 2), DimsOf(op, e, 2), 2 * M, q, p, c, f)
  <2>1. /\ DimsOf(op, d, 2) = [i \in DOMAIN d |-> IF i > 2 THEN Times(2, d[i]) ELSE d[i]]
        /\ DimsOf(op, e, 2) = [i \in DOMAIN e |-> IF i > 2 THEN Times(2, e[i]) ELSE e[i]]
    BY <1>3 DEF DimsOf, Enlarges, SizeOps
  <2>2. \A x \in {q, p, c, f} : Times(2, M * x) = (2 * M) * x
    <3>1. \A x \in {q, p, c, f} : M * x \in Nat \ {0} /\ (2 * M) * x = 2 * (M * x)
      BY Products
    <3>2. QED
      BY <3>1, Doubling
  <2>3. QED
    BY <1>1, <2>1, <2>2 DEF ScaledBy
<1>4. ASSUME op # "Half", ~Enlarges(op)
      PROVE  ScaledBy(DimsOf(op, d, 2), DimsOf(op, e, 2), M, q, p, c, f)
  <2>1. CASE op \in SizeOps
    <3>1. DimsOf(op, d, 2) = <<>> /\ DimsOf(op, e, 2) = <<>>
      BY <2>1 DEF DimsOf, SizeOps
    <3>2. QED
      BY <3>1 DEF ScaledBy
  <2>2. CASE op = "Mean"
    <3>1. /\ DimsOf(op, d, 2) = [i \in DOMAIN d \cap {1, 2} |-> d[i]]
          /\ DimsOf(op, e, 2) = [i \in DOMAIN e \cap {1, 2} |-> e[i]]
      BY <2>2 DEF DimsOf, SizeOps
    <3>2. QED
      BY <1>1, <3>1 DEF ScaledBy
  <2>3. CASE op \notin SizeOps /\ op # "Mean"
    <3>1. DimsOf(op, d, 2) = d /\ DimsOf(op, e, 2) = e
      BY <1>4, <2>3 DEF DimsOf, Enlarges
    <3>2. QED
      BY <3>1
  <2>4. QED
    BY <2>1, <2>2, <2>3
<1>5. QED
  BY <1>2, <1>3, <1>4

(* How many strides there are among the first j nodes: no more than there  *)
(* were in the graph, and one more with each.                              *)
StridesUpTo(g, j) == {n \in {g.nodes[i] : i \in 1 .. j} : n.op = "Half"}

LEMMA StridesCounted ==
  ASSUME NEW w, IsGraph(w), NEW g, IsGraph(g), CheckModel(g), Strides(g) \subseteq Strides(w)
  PROVE  /\ Cardinality(Strides(w)) \in Nat
         /\ \A j \in 0 .. Len(g.nodes) :
              /\ Cardinality(StridesUpTo(g, j)) \in Nat
              /\ Cardinality(StridesUpTo(g, j)) <= Cardinality(Strides(w))
         /\ Cardinality(StridesUpTo(g, 0)) = 0
         /\ \A j \in 1 .. Len(g.nodes) :
              Cardinality(StridesUpTo(g, j)) =
                IF g.nodes[j].op = "Half" THEN Cardinality(StridesUpTo(g, j - 1)) + 1
                ELSE Cardinality(StridesUpTo(g, j - 1))
<1> DEFINE N == Len(g.nodes)
<1>1. N \in Nat /\ DOMAIN g.nodes = 1 .. N
  BY GraphFacts
<1>2. IsFiniteSet(Strides(w))
  <2>1. IsFiniteSet(DOMAIN w.nodes)
    BY GraphFacts, FS_Interval
  <2> DEFINE T == {w.nodes[j] : j \in DOMAIN w.nodes}
             f == [j \in DOMAIN w.nodes |-> w.nodes[j]]
  <2>2. IsFiniteSet(T)
    <3>1. f \in Surjection(DOMAIN w.nodes, T)
      BY DEF Surjection
    <3> HIDE DEF f, T
    <3>2. QED
      BY <2>1, <3>1, FS_Surjection
  <2>3. Strides(w) \subseteq T
    BY DEF Strides, NodesOf, ToSet
  <2>4. QED
    BY <2>2, <2>3, FS_Subset
<1>3. \A j \in 0 .. N : StridesUpTo(g, j) \subseteq Strides(w)
  <2>1. ASSUME NEW j \in 0 .. N, NEW n \in StridesUpTo(g, j) PROVE n \in Strides(w)
    <3>1. PICK i \in 1 .. j : n = g.nodes[i] /\ n.op = "Half"
      BY DEF StridesUpTo
    <3>2. n \in Strides(g)
      BY <1>1, <3>1, GraphFacts DEF Strides
    <3>3. QED
      BY <3>2
  <2>2. QED
    BY <2>1
<1>4. \A j \in 0 .. N :
        /\ IsFiniteSet(StridesUpTo(g, j)) /\ Cardinality(StridesUpTo(g, j)) \in Nat
        /\ Cardinality(StridesUpTo(g, j)) <= Cardinality(Strides(w))
  BY <1>2, <1>3, FS_Subset, FS_CardinalityType
<1>5. StridesUpTo(g, 0) = {}
  BY DEF StridesUpTo
<1>6. ASSUME NEW j \in 1 .. N
      PROVE  Cardinality(StridesUpTo(g, j)) =
                IF g.nodes[j].op = "Half" THEN Cardinality(StridesUpTo(g, j - 1)) + 1
                ELSE Cardinality(StridesUpTo(g, j - 1))
  <2>1. 1 .. j = (1 .. j - 1) \cup {j} /\ j - 1 \in 0 .. N
    BY <1>1
  <2>2. CASE g.nodes[j].op = "Half"
    <3>1. StridesUpTo(g, j) = StridesUpTo(g, j - 1) \cup {g.nodes[j]}
      BY <2>1, <2>2 DEF StridesUpTo
    <3>2. g.nodes[j] \notin StridesUpTo(g, j - 1)
      <4>1. g.nodes[j].out \notin Before(g, j)
        BY <1>1 DEF CheckModel
      <4>2. QED
        BY <4>1 DEF StridesUpTo, Before
    <3>3. IsFiniteSet(StridesUpTo(g, j - 1))
      BY <1>4, <2>1
    <3>4. QED
      BY <2>2, <3>1, <3>2, <3>3, FS_AddElement
  <2>3. CASE g.nodes[j].op # "Half"
    <3>1. StridesUpTo(g, j) = StridesUpTo(g, j - 1)
      BY <2>1, <2>3 DEF StridesUpTo
    <3>2. QED
      BY <2>3, <3>1
  <2>4. QED
    BY <2>2, <2>3
<1>7. QED
  BY <1>2, <1>4, <1>5, <1>6, FS_EmptySet, FS_CardinalityType

Scaled(d, e, s, q, p, c, f) == \E M \in Nat \ {0} : Multiple(M, s) /\ ScaledBy(d, e, M, q, p, c, f)

LEMMA ScaledSteps ==
  ASSUME NEW q \in Nat \ {0}, NEW p \in Nat \ {0}, NEW c \in Nat \ {0}, NEW f \in Nat \ {0}, NEW s \in Nat, NEW d, NEW e
  PROVE  /\ Scaled(d, e, s + 1, q, p, c, f) => Scaled(d, e, s, q, p, c, f)
         /\ \A op : op \notin {"ToNHWC", "ToNCHW"} =>
              /\ op = "Half" /\ Scaled(d, e, s + 1, q, p, c, f) =>
                   Scaled(DimsOf(op, d, 2), DimsOf(op, e, 2), s, q, p, c, f)
              /\ op # "Half" /\ Scaled(d, e, s, q, p, c, f) =>
                   Scaled(DimsOf(op, d, 2), DimsOf(op, e, 2), s, q, p, c, f)
<1>1. ASSUME Scaled(d, e, s + 1, q, p, c, f) PROVE Scaled(d, e, s, q, p, c, f)
  <2>1. PICK M \in Nat \ {0} : Multiple(M, s + 1) /\ ScaledBy(d, e, M, q, p, c, f)
    BY <1>1 DEF Scaled
  <2>2. PICK K \in Nat \ {0} : M = 2 * K /\ Multiple(K, s)
    BY <2>1, Multiples
  <2>3. Multiple(M, s)
    BY <2>2, Multiples
  <2>4. QED
    BY <2>1, <2>3 DEF Scaled
<1>2. ASSUME NEW op, op \notin {"ToNHWC", "ToNCHW"}, op = "Half", Scaled(d, e, s + 1, q, p, c, f)
      PROVE  Scaled(DimsOf(op, d, 2), DimsOf(op, e, 2), s, q, p, c, f)
  <2>1. PICK M \in Nat \ {0} : Multiple(M, s + 1) /\ ScaledBy(d, e, M, q, p, c, f)
    BY <1>2 DEF Scaled
  <2>2. PICK K \in Nat \ {0} : M = 2 * K /\ Multiple(K, s)
    BY <2>1, Multiples
  <2>3. ScaledBy(DimsOf(op, d, 2), DimsOf(op, e, 2), K, q, p, c, f)
    BY <1>2, <2>1, <2>2, ScaledStep
  <2>4. QED
    BY <2>2, <2>3 DEF Scaled
<1>3. ASSUME NEW op, op \notin {"ToNHWC", "ToNCHW"}, op # "Half", Scaled(d, e, s, q, p, c, f)
      PROVE  Scaled(DimsOf(op, d, 2), DimsOf(op, e, 2), s, q, p, c, f)
  <2>1. PICK M \in Nat \ {0} : Multiple(M, s) /\ ScaledBy(d, e, M, q, p, c, f)
    BY <1>3 DEF Scaled
  <2>2. CASE Enlarges(op)
    <3>1. Multiple(2 * M, s) /\ 2 * M \in Nat \ {0}
      BY <2>1, Multiples
    <3>2. ScaledBy(DimsOf(op, d, 2), DimsOf(op, e, 2), 2 * M, q, p, c, f)
      BY <1>3, <2>1, <2>2, ScaledStep
    <3>3. QED
      BY <3>1, <3>2 DEF Scaled
  <2>3. CASE ~Enlarges(op)
    <3>1. ScaledBy(DimsOf(op, d, 2), DimsOf(op, e, 2), M, q, p, c, f)
      BY <1>3, <2>1, <2>3, ScaledStep
    <3>2. QED
      BY <2>1, <3>1 DEF Scaled
  <2>4. QED
    BY <2>2, <2>3
<1>4. QED
  BY <1>1, <1>2, <1>3

(* So along the nodes the sizes stay multiples of what the strides that    *)
(* are still to come will halve.                                           *)
LEMMA ScaledShapes ==
  ASSUME NEW w, IsGraph(w), NEW g, IsGraph(g), CheckModel(g), Strides(g) \subseteq Strides(w),
         \A n \in NodesOf(g) : n.op \notin {"ToNHWC", "ToNCHW"},
         NEW X, NEW r, NEW b, Mirrors(g, X, {2}, r, b),
         NEW q \in Nat \ {0}, NEW p \in Nat \ {0}, NEW c \in Nat \ {0}, NEW f \in Nat \ {0},
         \A m \in Given(g) \ X : Scaled(b[m].dims, r[m].dims, Cardinality(Strides(w)), q, p, c, f)
  PROVE  \A m \in Tensors(g) \ X : \E s \in Nat : Scaled(b[m].dims, r[m].dims, s, q, p, c, f)
<1> DEFINE N == Len(g.nodes)
           left(j) == Cardinality(Strides(w)) - Cardinality(StridesUpTo(g, j))
           Upto(j) == {m \in Tensors(g) : m \in X \/ Scaled(b[m].dims, r[m].dims, left(j), q, p, c, f)}
           S == [j \in 0 .. N |-> Upto(j)]
<1>1. N \in Nat /\ DOMAIN g.nodes = 1 .. N
  BY GraphFacts
<1>2. /\ \A j \in 0 .. N : left(j) \in Nat
      /\ left(0) = Cardinality(Strides(w))
      /\ \A j \in 1 .. N : left(j - 1) = IF g.nodes[j].op = "Half" THEN left(j) + 1 ELSE left(j)
  <2> DEFINE C == Cardinality(Strides(w))
             counted(j) == Cardinality(StridesUpTo(g, j))
  <2>1. /\ C \in Nat /\ counted(0) = 0
        /\ \A j \in 0 .. N : counted(j) \in Nat /\ counted(j) <= C
        /\ \A j \in 1 .. N : counted(j) = IF g.nodes[j].op = "Half" THEN counted(j - 1) + 1 ELSE counted(j - 1)
    BY StridesCounted
  <2>2. \A j \in 1 .. N : j \in 0 .. N /\ j - 1 \in 0 .. N
    BY <1>1
  <2>3. left(0) = C - counted(0) /\ \A j : left(j) = C - counted(j)
    OBVIOUS
  <2> HIDE DEF left, C, counted
  <2>4. \A j \in 0 .. N : left(j) \in Nat
    BY <2>1, <2>3
  <2>5. left(0) = C
    BY <2>1, <2>3
  <2>6. \A j \in 1 .. N : left(j - 1) = IF g.nodes[j].op = "Half" THEN left(j) + 1 ELSE left(j)
    BY <2>1, <2>2, <2>3
  <2>7. QED
    BY <2>4, <2>5, <2>6 DEF C
<1> HIDE DEF left
<1>3. Given(g) \subseteq S[0]
  <2>1. Given(g) \subseteq Upto(0)
    BY <1>2 DEF Tensors
  <2> HIDE DEF Upto
  <2>2. S[0] = Upto(0)
    BY <1>1
  <2>3. QED
    BY <2>1, <2>2
<1>4. ASSUME NEW j \in 1 .. N
      PROVE  /\ S[j - 1] \subseteq S[j]
             /\ ToSet(g.nodes[j].ins) \subseteq S[j - 1] \cup {NoName} => g.nodes[j].out \in S[j]
  <2> DEFINE n == g.nodes[j]
  <2>1. S[j - 1] = Upto(j - 1) /\ S[j] = Upto(j) /\ left(j) \in Nat
    <3>1. j \in 0 .. N /\ j - 1 \in 0 .. N
      BY <1>1
    <3> HIDE DEF Upto
    <3>2. QED
      BY <1>2, <3>1
  <2>2. left(j - 1) = IF n.op = "Half" THEN left(j) + 1 ELSE left(j)
    BY <1>2
  <2>3. \A m : Scaled(b[m].dims, r[m].dims, left(j - 1), q, p, c, f) => Scaled(b[m].dims, r[m].dims, left(j), q, p, c, f)
    BY <2>1, <2>2, ScaledSteps
  <2>4. Upto(j - 1) \subseteq Upto(j)
    BY <2>3
  <2>5. ASSUME ToSet(n.ins) \subseteq Upto(j - 1) \cup {NoName} PROVE n.out \in Upto(j)
    <3>1. n \in NodesOf(g) /\ n \in Node
      BY <1>1, GraphFacts
    <3>2. n.ins[1] \in ToSet(n.ins) /\ n.ins[1] # NoName
      BY <3>1, OperandsFacts DEF Node
    <3>3. Scaled(b[n.ins[1]].dims, r[n.ins[1]].dims, left(j - 1), q, p, c, f)
      BY <2>5, <3>1, <3>2 DEF Mirrors
    <3>4. /\ r[n.out].dims = DimsOf(n.op, r[n.ins[1]].dims, 2)
          /\ b[n.out].dims = DimsOf(n.op, b[n.ins[1]].dims, 2)
      BY <3>1 DEF Mirrors
    <3>5. n.op \notin {"ToNHWC", "ToNCHW"}
      BY <3>1
    <3> HIDE DEF n
    <3>6. Scaled(b[n.out].dims, r[n.out].dims, left(j), q, p, c, f)
      <4>1. left(j) \in Nat
        BY <2>1
      <4> HIDE DEF S, Upto
      <4>2. CASE n.op = "Half"
        <5>1. Scaled(b[n.ins[1]].dims, r[n.ins[1]].dims, left(j) + 1, q, p, c, f)
          BY <2>2, <3>3, <4>2
        <5>2. Scaled(DimsOf(n.op, b[n.ins[1]].dims, 2), DimsOf(n.op, r[n.ins[1]].dims, 2), left(j), q, p, c, f)
          BY <3>5, <4>1, <4>2, <5>1, ScaledSteps
        <5>3. QED
          BY <3>4, <5>2
      <4>3. CASE n.op # "Half"
        <5>1. Scaled(b[n.ins[1]].dims, r[n.ins[1]].dims, left(j), q, p, c, f)
          BY <2>2, <3>3, <4>3
        <5>2. QED
          BY <3>4, <3>5, <4>1, <4>3, <5>1, ScaledSteps
      <4>4. QED
        BY <4>2, <4>3
    <3>7. n.out \in Tensors(g)
      BY <3>1 DEF Tensors, Produced
    <3>8. QED
      BY <3>6, <3>7
  <2>6. QED
    BY <2>1, <2>4, <2>5
<1>5. Tensors(g) \subseteq S[N]
  <2> HIDE DEF S
  <2>1. QED
    BY <1>3, <1>4, StepwiseInduction
<1>6. S[N] = Upto(N) /\ left(N) \in Nat
  BY <1>1, <1>2
<1>7. QED
  BY <1>5, <1>6

(* The values a graph declares at its boundary, for images of a new size.  *)
ResizedTo(made, old, height, width) ==
  /\ DOMAIN made = DOMAIN old
  /\ \A j \in DOMAIN old :
       /\ made[j].name = old[j].name /\ made[j].elem = old[j].elem
       /\ made[j].dims = IF Len(old[j].dims) = 4 THEN <<1, old[j].dims[2], height, width>>
                        ELSE old[j].dims

LEMMA ResizedFacts ==
  ASSUME NEW values \in Seq(ValueInfo), NEW height, NEW width
  PROVE  ResizedTo(Resized(values, height, width), values, height, width)
<1>1. \A j \in DOMAIN values : values[j] \in ValueInfo
  OBVIOUS
<1>2. \A j \in DOMAIN values : DOMAIN values[j] = {"name", "elem", "dims"}
  BY <1>1 DEF ValueInfo
<1>3. \A j \in DOMAIN values :
        Resized(values, height, width)[j].dims =
          IF Len(values[j].dims) = 4 THEN <<1, values[j].dims[2], height, width>> ELSE values[j].dims
  BY <1>2 DEF Resized
<1>4. QED
  BY <1>3, ResizedNames DEF ResizedTo

LEMMA DividesFacts ==
  ASSUME NEW w, Cardinality(Strides(w)) \in Nat, NEW size, Divides(w, size)
  PROVE  \E q \in Nat \ {0} : size = Power(Cardinality(Strides(w))) * q
<1>1. PICK q \in 1 .. size : size = Power(Cardinality(Strides(w))) * q
  BY DEF Divides
<1>2. QED
  BY <1>1

LEMMA Cancelled ==
  ASSUME NEW x \in Nat \ {0}, NEW y \in Nat \ {0}, NEW z \in Nat \ {0}, x * y = z * y
  PROVE  x = z
BY Products

(* An image, and what prepare_style makes of it.                           *)
ScaledImage(image, resized, P, q, p, c, f) ==
  /\ DOMAIN image = 1 .. 4 /\ image[3] = P * q /\ image[4] = P * p
  /\ resized = <<1, image[2], P * c, P * f>>

LEMMA ImageScaled ==
  ASSUME NEW s \in Nat, NEW q \in Nat \ {0}, NEW p \in Nat \ {0}, NEW c \in Nat \ {0}, NEW f \in Nat \ {0},
         NEW image, NEW resized, ScaledImage(image, resized, Power(s), q, p, c, f)
  PROVE  /\ Scaled(image, resized, s, q, p, c, f) /\ Scaled(<<>>, <<>>, s, q, p, c, f)
         /\ \A d, e, t : Scaled(d, e, t, q, p, c, f) /\ Says(image, d) => Says(resized, e)
<1> DEFINE P == Power(s)
<1>1. Multiple(P, s) /\ P \in Nat \ {0}
  BY Multiples, PowerFacts
<1>0. DOMAIN image = 1 .. 4 /\ image[3] = P * q /\ image[4] = P * p
  BY DEF ScaledImage
<1>2. /\ DOMAIN resized = 1 .. 4 /\ resized[1] = 1 /\ resized[2] = image[2]
      /\ resized[3] = P * c /\ resized[4] = P * f
  BY DEF ScaledImage
<1> HIDE DEF P
<1>3. ScaledBy(image, resized, P, q, p, c, f)
  BY <1>0, <1>2 DEF ScaledBy
<1>4. ScaledBy(<<>>, <<>>, P, q, p, c, f)
  BY DEF ScaledBy
<1>5. ASSUME NEW d, NEW e, NEW t, Scaled(d, e, t, q, p, c, f), Says(image, d)
      PROVE  Says(resized, e)
  <2>1. PICK M \in Nat \ {0} : ScaledBy(d, e, M, q, p, c, f)
    BY <1>5 DEF Scaled
  <2>2. DOMAIN d = 1 .. 4 /\ DOMAIN e = 1 .. 4 /\ {1, 2, 3, 4} = 1 .. 4
    BY <1>0, <1>5, <2>1 DEF Says, ScaledBy
  <2>3. /\ e[1] = 1 /\ e[2] = d[2] /\ d[3] = M * q /\ e[3] = M * c /\ e[4] = M * f
        /\ image[2] \in {Symbol, Unset, d[2]} /\ image[3] \in {Symbol, Unset, d[3]}
    BY <1>0, <1>5, <2>1, <2>2 DEF Says, ScaledBy
  <2>4. P * q \in Nat \ {0}
    BY <1>1, Products
  <2>5. P * q = M * q
    BY <1>0, <2>3, <2>4 DEF Symbol, Unset
  <2>6. P = M
    BY <1>1, <2>5, Cancelled
  <2>7. resized[3] = e[3] /\ resized[4] = e[4]
    BY <1>2, <2>3, <2>6
  <2>8. \A i \in {1, 2, 3, 4} : resized[i] \in {Symbol, Unset, e[i]}
    BY <1>2, <2>3, <2>7
  <2>9. QED
    BY <1>2, <2>2, <2>8 DEF Says
<1>6. QED
  BY <1>1, <1>3, <1>4, <1>5 DEF Scaled

LEMMA FirstIsInput ==
  ASSUME NEW w, NEW g, Descends(g, w), IsGraph(g), g.ins # <<>>
  PROVE  g.ins[1].name \notin DOMAIN g.inits
<1>1. g.ins \in Seq(ValueInfo)
  BY GraphParts
<1>2. 1 \in DOMAIN g.ins
  BY <1>1
<1>3. g.ins[1].name \in NamesOf(g.ins)
  BY <1>2 DEF NamesOf
<1>4. QED
  BY <1>3, DescendantStarts

(* prepare_style, on what makes images of images.                          *)
LEMMA StyledHonest ==
  ASSUME NEW w, NEW g, IsGraph(w), IsGraph(g), Usable(w), Usable(g), Descends(g, w),
         NEW height, NEW width, ResizedTo(g.ins, RealInputs(w), height, width), ResizedTo(g.outs, w.outs, height, width),
         Honest(w), ImageToImage(w), Divides(w, height), Divides(w, width)
  PROVE  Honest(g)
<1> DEFINE r == RunFree(g)
           b == RunFree(w)
           X == Added(g, w)
           image == w.ins[1].dims
           s == Cardinality(Strides(w))
           P == Power(s)
<1>1. CheckModel(w) /\ CheckModel(g) /\ Typed(w) /\ NamesOf(g.outs) \subseteq Tensors(g)
  BY DEF Usable
<1>2. /\ w.ins # <<>> /\ Len(image) = 4 /\ Divides(w, image[3]) /\ Divides(w, image[4])
      /\ Doubles(w) /\ \A n \in NodesOf(w) : n.op \notin {"ToNHWC", "ToNCHW"}
      /\ \A v \in ToSet(w.ins) : v.name \in DOMAIN w.inits \/ v.dims = image
      /\ \A j \in DOMAIN w.outs : w.outs[j].dims = image
  BY DEF ImageToImage
<1>3. DOMAIN image = 1 .. 4
  <2>1. w.ins \in Seq(ValueInfo)
    BY GraphParts
  <2>2. w.ins[1] \in ValueInfo
    BY <1>2, <2>1
  <2>3. image \in Seq(Dim)
    BY <2>2 DEF ValueInfo
  <2>4. QED
    BY <1>2, <2>3
<1>4. /\ Strides(g) \subseteq Strides(w)
      /\ \A n \in NodesOf(g) : n.op \notin {"ToNHWC", "ToNCHW"}
  <2>1. ASSUME NEW n \in NodesOf(g) PROVE n.op = "Resize" \/ n \in NodesOf(w)
    BY DEF Descends, From
  <2>2. QED
    BY <1>2, <2>1 DEF Strides
<1>5. s \in Nat
  BY <1>1, <1>4, StridesCounted
<1>6. P \in Nat \ {0}
  BY <1>5, PowerFacts
<1>7. PICK q \in Nat \ {0} : image[3] = P * q
  BY <1>2, <1>5, DividesFacts
<1>8. PICK p \in Nat \ {0} : image[4] = P * p
  BY <1>2, <1>5, DividesFacts
<1>9. PICK c \in Nat \ {0} : height = P * c
  BY <1>5, DividesFacts
<1>0. PICK f \in Nat \ {0} : width = P * f
  BY <1>5, DividesFacts
<1> DEFINE resized == <<1, image[2], height, width>>
<1>10. /\ Scaled(image, resized, s, q, p, c, f) /\ Scaled(<<>>, <<>>, s, q, p, c, f)
       /\ \A d, e, t : Scaled(d, e, t, q, p, c, f) /\ Says(image, d) => Says(resized, e)
  <2>1. ScaledImage(image, resized, Power(s), q, p, c, f)
    BY <1>0, <1>3, <1>7, <1>8, <1>9 DEF ScaledImage
  <2> HIDE DEF image, s, resized
  <2>2. QED
    BY <1>5, <2>1, ImageScaled
<1>11. ASSUME NEW v \in ToSet(g.ins)
       PROVE  \E u \in ToSet(w.ins) :
                /\ v.name = u.name /\ v.elem = u.elem /\ u.name \notin DOMAIN w.inits
                /\ u.dims = image /\ v.dims = resized
  <2>1. PICK j \in DOMAIN g.ins : v = g.ins[j]
    BY DEF ToSet
  <2> DEFINE u == RealInputs(w)[j]
  <2>2. /\ v.name = u.name /\ v.elem = u.elem /\ j \in DOMAIN RealInputs(w)
        /\ v.dims = IF Len(u.dims) = 4 THEN <<1, u.dims[2], height, width>> ELSE u.dims
    BY <2>1 DEF ResizedTo
  <2>3. u \in ToSet(RealInputs(w))
    BY <2>2 DEF ToSet
  <2>4. u \in ToSet(w.ins) /\ u.name \notin DOMAIN w.inits
    BY <2>3, RealInputsTypes
  <2>5. u.dims = image
    BY <1>2, <2>4
  <2> HIDE DEF u
  <2>6. v.dims = resized
    BY <1>2, <2>2, <2>5
  <2>7. QED
    BY <2>2, <2>4, <2>5, <2>6
<1>21. NoZero(resized)
  <2>1. Sized(w.ins) /\ 1 \in DOMAIN w.ins
    <3>1. w.ins \in Seq(ValueInfo)
      BY GraphParts
    <3>2. QED
      BY <1>2, <3>1, HonestParts
  <2>2. image[2] # 0
    BY <1>3, <2>1 DEF Sized, NoZero
  <2>3. height # 0 /\ width # 0
    BY <1>0, <1>6, <1>9, Products
  <2> HIDE DEF image
  <2>4. QED
    BY <2>2, <2>3 DEF NoZero
<1> HIDE DEF resized, P
<1>12. InputsKeepTypes(g, w)
  BY <1>11 DEF InputsKeepTypes
<1>13. \A m \in NodesOf(w) : Enlarges(m.op) => RunFree(w)[Last(m.ins)].num \in {2}
  BY <1>2 DEF Doubles, Enlarging, Enlarges
<1>14. /\ Mirrors(g, X, {2}, r, b)
       /\ \A m \in Tensors(g) \ X : r[m].elem = b[m].elem
  BY <1>12, <1>13, DescendantMirrors
<1>15. ASSUME NEW y \in Given(g) \ X PROVE Scaled(b[y].dims, r[y].dims, s, q, p, c, f)
  <2>1. CASE y \in DOMAIN w.inits
    <3>1. y \in DOMAIN g.inits
      BY <2>1 DEF Descends
    <3>2. r[y].dims = <<>> /\ b[y].dims = <<>>
      BY <1>1, <2>1, <3>1, StartDeclared
    <3>3. QED
      BY <1>10, <3>2
  <2>2. CASE y \in NamesOf(g.ins)
    <3>1. PICK v \in ToSet(g.ins) : v.name = y
      BY <2>2, NamesOfElements
    <3>2. PICK u \in ToSet(w.ins) :
               /\ v.name = u.name /\ v.elem = u.elem /\ u.name \notin DOMAIN w.inits
               /\ u.dims = image /\ v.dims = resized
      BY <1>11
    <3>3. y \notin DOMAIN g.inits
      BY <2>2, DescendantStarts
    <3>4. r[y].dims = v.dims /\ b[y].dims = u.dims
      BY <1>1, <3>1, <3>2, <3>3, StartDeclared
    <3>5. QED
      BY <1>10, <3>2, <3>4
  <2>3. QED
    BY <2>1, <2>2, DescendantStarts
<1>16. \A m \in Tensors(g) \ X : \E t \in Nat : Scaled(b[m].dims, r[m].dims, t, q, p, c, f)
  <2> HIDE DEF r, b, X
  <2>1. QED
    BY <1>1, <1>4, <1>14, <1>15, ScaledShapes
<1>17. ASSUME NEW j \in DOMAIN g.outs
       PROVE  r[g.outs[j].name].elem = g.outs[j].elem /\ Says(g.outs[j].dims, r[g.outs[j].name].dims)
  <2> DEFINE y == g.outs[j].name
  <2>1. /\ j \in DOMAIN w.outs /\ y = w.outs[j].name /\ g.outs[j].elem = w.outs[j].elem
        /\ g.outs[j].dims = resized /\ w.outs[j].dims = image
    BY <1>2 DEF ResizedTo, resized
  <2>2. y \in Tensors(g) \ X
    <3>1. y \in Tensors(g) /\ y \in Tensors(w)
      BY <1>1, <2>1 DEF NamesOf, Usable
    <3>2. QED
      BY <3>1, DescendantStarts
  <2>3. b[y].elem = w.outs[j].elem /\ Says(image, b[y].dims)
    BY <2>1, HonestParts
  <2>4. PICK t \in Nat : r[y].elem = b[y].elem /\ Scaled(b[y].dims, r[y].dims, t, q, p, c, f)
    BY <1>14, <1>16, <2>2
  <2> HIDE DEF r, b, y, image
  <2>5. Says(resized, r[y].dims)
    BY <1>10, <2>3, <2>4
  <2>6. QED
    BY <2>1, <2>3, <2>4, <2>5 DEF y
<1>18. ASSUME NEW n \in NodesOf(g), n.op = "DequantizeLinear", Len(n.ins) > 2, n.ins[3] \in DOMAIN g.inits
       PROVE  r[n.ins[1]].elem = g.inits[n.ins[3]].elem
  BY <1>14, <1>18, DescendantDequantises
<1>19. g.ins # <<>> => g.ins[1].name \notin DOMAIN g.inits
  BY FirstIsInput
<1>20. Sized(g.ins) /\ Sized(g.outs)
  <2>1. \A j \in DOMAIN g.outs : j \in DOMAIN w.outs /\ g.outs[j].dims = resized
    BY <1>2 DEF ResizedTo, resized
  <2>2. \A j \in DOMAIN g.ins : g.ins[j].dims = resized
    BY <1>11 DEF ToSet
  <2>3. QED
    BY <1>21, <2>1, <2>2 DEF Sized
<1>22. QED
  BY <1>17, <1>18, <1>19, <1>20, HonestParts

(* What strip_io_quant declares of its first n outputs, and of its input.  *)
StripDeclared(w, g, values, n) ==
  /\ g.ins[1].dims = DimValues(w.ins[1].dims)
  /\ \A j \in 1 .. n : \E d \in NodesOf(w) :
       /\ d.op = "DequantizeLinear" /\ d.out = w.outs[j].name /\ d.ins[1] = values[j].name
       /\ Len(d.ins) > 2 /\ d.ins[3] \in DOMAIN w.inits
       /\ values[j].elem = w.inits[d.ins[3]].elem
       /\ values[j].dims = DimValues(w.outs[j].dims)

(* Where all dimensions are numbers the tools declare what was declared.   *)
Fixed(dims) == \A i \in DOMAIN dims : dims[i] >= 0

LEMMA DimValuesPinned ==
  ASSUME NEW dims \in Seq(Dim), Fixed(dims)
  PROVE  /\ DimValues(dims) = dims /\ Pinned(dims, Unset) = dims
         /\ \A d : Says(dims, d) => Tell(dims, d)
<1>1. \A i \in DOMAIN dims : dims[i] \in Int /\ ~(dims[i] < 0) /\ dims[i] # Symbol
  BY DEF Fixed, Dim, Symbol
<1>2. DimValues(dims) = [i \in DOMAIN dims |-> dims[i]]
  BY <1>1 DEF DimValues
<1>3. Pinned(dims, Unset) = [i \in DOMAIN dims |-> dims[i]]
  BY <1>1 DEF Pinned
<1>4. [i \in DOMAIN dims |-> dims[i]] = dims
  OBVIOUS
<1>5. QED
  BY <1>1, <1>2, <1>3, <1>4, TellSays

LEMMA BoundaryFixed ==
  ASSUME NEW w, IsGraph(w), w.ins # <<>>, FixedBoundary(w)
  PROVE  /\ w.ins[1].dims \in Seq(Dim) /\ Fixed(w.ins[1].dims)
         /\ \A j \in DOMAIN w.outs : w.outs[j].dims \in Seq(Dim) /\ Fixed(w.outs[j].dims)
<1>1. w.ins \in Seq(ValueInfo) /\ w.outs \in Seq(ValueInfo)
  BY GraphParts
<1>2. w.ins[1] \in ValueInfo /\ \A j \in DOMAIN w.outs : w.outs[j] \in ValueInfo
  BY <1>1
<1>3. w.ins[1].dims \in Seq(Dim) /\ \A j \in DOMAIN w.outs : w.outs[j].dims \in Seq(Dim)
  BY <1>2, ValueInfoFacts
<1>4. \A v \in ToSet(w.outs) \cup {w.ins[1]} : Fixed(v.dims)
  BY DEF FixedBoundary, Fixed
<1>5. QED
  BY <1>3, <1>4 DEF ToSet

(* The dimensions of an input, and the type where it is no weight.         *)
LEMMA InputDeclared ==
  ASSUME NEW g, IsGraph(g), CheckModel(g), NEW j \in DOMAIN g.ins, g.ins[j].name \notin DOMAIN g.inits
  PROVE  /\ RunFree(g)[g.ins[j].name].elem = g.ins[j].elem
         /\ RunFree(g)[g.ins[j].name].dims = g.ins[j].dims
         /\ RunFree(g)[g.ins[j].name].num = 0
         /\ g.ins[j].dims \in Seq(Dim)
<1>1. g.ins[j] \in ToSet(g.ins)
  BY DEF ToSet
<1>2. g.ins[j] \in ValueInfo
  <2>1. g.ins \in Seq(ValueInfo)
    BY GraphParts
  <2>2. QED
    BY <2>1
<1>3. g.ins[j].dims \in Seq(Dim)
  BY <1>2 DEF ValueInfo
<1>4. QED
  BY <1>1, <1>3, StartDeclared

(* A graph that goes through nodes of w, or is run along those.            *)
LEMMA SameNodesFit ==
  ASSUME NEW w, NEW h, IsGraph(w), IsGraph(h), CheckModel(w), CheckModel(h), Typed(w),
         NodesOf(h) \subseteq NodesOf(w), NEW r,
         \A n \in NodesOf(h) : r[n.out] = Apply(n.op, Operands(n, r)),
         \A y \in Given(h) : /\ r[y].num = RunFree(w)[y].num
                             /\ r[y].elem = RunFree(w)[y].elem
                             /\ Fits(RunFree(w)[y].dims, r[y].dims, Unset)
  PROVE  \A m \in Tensors(h) : /\ r[m].elem = RunFree(w)[m].elem
                               /\ Fits(RunFree(w)[m].dims, r[m].dims, Unset)
<1> DEFINE b == RunFree(w)
<1>1. \A n \in NodesOf(w) : b[n.out] = Apply(n.op, Operands(n, b))
  BY StartDeclared
<1>2. \A n \in NodesOf(h) : \E m \in NodesOf(w) : Kin(n, m, {})
  BY DEF Kin
<1>3. \A m \in NodesOf(w) : Enlarges(m.op) => b[Last(m.ins)].num \in Nat
  BY FactorsAreNumbers
<1> HIDE DEF b
<1>4. \A y \in Given(h) \ {} : r[y].num = b[y].num /\ r[y].elem = b[y].elem
  BY DEF b
<1>5. {} \cap (Tensors(w) \cup {NoName}) = {} /\ 2 \in Nat
  OBVIOUS
<1>6. Mirrors(h, {}, Nat, r, b)
  BY <1>1, <1>2, <1>3, <1>4, <1>5, Mirroring
<1>7. \A m \in Tensors(h) \ {} : r[m].elem = b[m].elem
  BY <1>4, <1>6, SameTypes
<1>8. \A y \in Given(h) \ {} : Fits(b[y].dims, r[y].dims, Unset)
  BY DEF b
<1>9. \A m \in Tensors(h) \ {} : Fits(b[m].dims, r[m].dims, Unset)
  BY <1>6, <1>8, FittingShapes
<1>10. QED
  BY <1>7, <1>9 DEF b

LEMMA QuantisedLike ==
  ASSUME NEW n \in Node, n.op \in {"QuantizeLinear", "DequantizeLinear"}, NEW e,
         e[n.out] = Apply(n.op, Operands(n, e))
  PROVE  e[n.out].dims = e[n.ins[1]].dims /\ e[n.out].num = 0
<1>1. ~Enlarges(n.op) /\ n.op \notin {"Shape", "Floor"} /\ FactorOf(n.op) = 0
  BY DEF Enlarges, FactorOf
<1>2. e[n.out].dims = DimsOf(n.op, e[n.ins[1]].dims, 0)
  BY <1>1, DimsBehind
<1>3. \A d : DimsOf(n.op, d, 0) = d
  BY DEF DimsOf, SizeOps
<1>4. QED
  BY <1>1, <1>2, <1>3, NumberBehind

(* strip_io_quant: what its input was the quantisation of had the shape    *)
(* that is declared of it, and dequantising has kept that of the outputs.  *)
LEMMA StrippedHonest ==
  ASSUME NEW w, NEW g, IsGraph(w), IsGraph(g), Usable(w), Usable(g),
         BehindQuantisation(w, g, g.outs, Len(w.outs)), StripDeclared(w, g, g.outs, Len(w.outs)),
         Honest(w), FixedBoundary(w)
  PROVE  Honest(g)
<1> DEFINE r == RunFree(g)
           b == RunFree(w)
<1>1. /\ CheckModel(w) /\ CheckModel(g) /\ Typed(w) /\ NamesOf(g.outs) \subseteq Tensors(g)
      /\ NodesOf(g) \subseteq NodesOf(w) /\ g.inits = w.inits
  BY DEF Usable, BehindQuantisation
<1>2. /\ w.ins # <<>> /\ DOMAIN g.ins = DOMAIN w.ins /\ 1 \in DOMAIN w.ins
      /\ \A j \in DOMAIN w.ins \ {1} : g.ins[j] = w.ins[j]
  <2>1. Len(g.ins) = Len(w.ins) /\ w.ins # <<>>
    BY DEF BehindQuantisation
  <2>2. g.ins \in Seq(ValueInfo) /\ w.ins \in Seq(ValueInfo)
    BY GraphParts
  <2>3. QED
    BY <2>1, <2>2 DEF BehindQuantisation
<1>3. PICK q \in NodesOf(w) :
        /\ q.op = "QuantizeLinear" /\ q.ins[1] = w.ins[1].name
        /\ Len(q.ins) > 2 /\ q.ins[3] \in DOMAIN w.inits
        /\ g.ins[1].name = q.out /\ g.ins[1].elem = w.inits[q.ins[3]].elem
  BY DEF BehindQuantisation
<1>4. w.ins[1].name \notin DOMAIN w.inits /\ q.out \notin DOMAIN w.inits
  <2>1. q.out \notin Given(w)
    BY <1>1, InOrder
  <2>2. w.ins[1].name \notin DOMAIN w.inits
    BY <1>2, HonestParts
  <2>3. QED
    BY <2>1, <2>2 DEF Given
<1>5. /\ \A n \in NodesOf(w) : b[n.out] = Apply(n.op, Operands(n, b))
      /\ \A n \in NodesOf(g) : r[n.out] = Apply(n.op, Operands(n, r))
      /\ \A m \in DOMAIN w.inits :
           /\ r[m].elem = w.inits[m].elem /\ r[m].dims = <<>> /\ r[m].num = w.inits[m].num
           /\ b[m].elem = w.inits[m].elem /\ b[m].dims = <<>> /\ b[m].num = w.inits[m].num
  BY <1>1, StartDeclared
<1>6. q \in Node
  BY GraphFacts
<1>7. /\ b[q.out].elem = w.inits[q.ins[3]].elem /\ b[q.out].num = 0
      /\ b[q.out].dims = w.ins[1].dims
  <2> HIDE DEF b
  <2>1. b[q.out].dims = b[q.ins[1]].dims /\ b[q.out].num = 0
    BY <1>3, <1>5, <1>6, QuantisedLike
  <2>2. b[w.ins[1].name].dims = w.ins[1].dims
    BY <1>1, <1>2, <1>4, InputDeclared DEF b
  <2>3. b[q.out].elem = Operands(q, b)[3].elem
    <3>1. Len(Operands(q, b)) > 2
      BY <1>3, <1>6, OperandsLength
    <3>2. b[q.out].elem = ElemOf(q.op, Operands(q, b))
      BY <1>5, ApplyParts
    <3>3. QED
      BY <1>3, <3>1, <3>2 DEF ElemOf, SizeOps
  <2>4. Operands(q, b)[3] = b[q.ins[3]]
    <3>1. q.ins[3] # NoName
      BY <1>3 DEF IsGraph, GivenName
    <3>2. 3 \in DOMAIN q.ins
      BY <1>3, <1>6, OperandsLength
    <3>3. QED
      BY <1>6, <3>1, <3>2, OperandsFacts
  <2>5. QED
    BY <1>3, <1>5, <2>1, <2>2, <2>3, <2>4
<1>8. ASSUME NEW y \in Given(g)
      PROVE  r[y].num = b[y].num /\ r[y].elem = b[y].elem /\ Fits(b[y].dims, r[y].dims, Unset)
  <2>1. CASE y \in DOMAIN w.inits
    <3> HIDE DEF r, b
    <3>1. QED
      BY <1>5, <2>1 DEF Fits
  <2>2. CASE y = q.out
    <3>1. /\ r[y].elem = g.ins[1].elem /\ r[y].dims = g.ins[1].dims /\ r[y].num = 0
      BY <1>1, <1>2, <1>3, <1>4, <2>2, InputDeclared
    <3>2. g.ins[1].dims = Pinned(w.ins[1].dims, Unset) /\ w.ins[1].dims \in Seq(Dim)
      BY <1>2, BoundaryFixed, DimValuesPinned DEF StripDeclared
    <3> HIDE DEF r, b
    <3>3. QED
      BY <1>3, <1>7, <2>2, <3>1, <3>2, PinnedFits
  <2>3. CASE y \notin DOMAIN w.inits /\ y # q.out
    <3>1. PICK j \in DOMAIN g.ins : y = g.ins[j].name
      BY <1>1, <2>3 DEF Given, NamesOf
    <3>2. j \in DOMAIN w.ins /\ g.ins[j] = w.ins[j]
      BY <1>2, <1>3, <2>3, <3>1
    <3>3. /\ r[y].elem = g.ins[j].elem /\ r[y].dims = g.ins[j].dims /\ r[y].num = 0
          /\ b[y].elem = g.ins[j].elem /\ b[y].dims = g.ins[j].dims /\ b[y].num = 0
          /\ g.ins[j].dims \in Seq(Dim)
      BY <1>1, <2>3, <3>1, <3>2, InputDeclared
    <3>4. Fits(g.ins[j].dims, g.ins[j].dims, Unset)
      BY <3>3 DEF Fits
    <3> HIDE DEF r, b
    <3>5. QED
      BY <3>3, <3>4
  <2>4. QED
    BY <2>1, <2>2, <2>3
<1>9. \A m \in Tensors(g) : r[m].elem = b[m].elem /\ Fits(b[m].dims, r[m].dims, Unset)
  <2> HIDE DEF r
  <2>1. QED
    BY <1>1, <1>5, <1>8, SameNodesFit
<1>10. \A n \in NodesOf(w) :
         n.op = "DequantizeLinear" /\ Len(n.ins) > 2 /\ n.ins[3] \in DOMAIN w.inits =>
           b[n.ins[1]].elem = w.inits[n.ins[3]].elem
  BY HonestParts
<1>11. ASSUME NEW j \in DOMAIN g.outs
       PROVE  r[g.outs[j].name].elem = g.outs[j].elem /\ Tell(g.outs[j].dims, r[g.outs[j].name].dims)
  <2> DEFINE y == g.outs[j].name
  <2>1. DOMAIN g.outs = 1 .. Len(w.outs) /\ DOMAIN w.outs = 1 .. Len(w.outs)
    <3>1. g.outs \in Seq(ValueInfo) /\ w.outs \in Seq(ValueInfo)
      BY GraphParts
    <3>2. Len(g.outs) = Len(w.outs)
      BY DEF BehindQuantisation
    <3>3. QED
      BY <3>1, <3>2
  <2>2. PICK d \in NodesOf(w) :
          /\ d.op = "DequantizeLinear" /\ d.out = w.outs[j].name /\ d.ins[1] = y
          /\ Len(d.ins) > 2 /\ d.ins[3] \in DOMAIN w.inits
          /\ g.outs[j].elem = w.inits[d.ins[3]].elem
          /\ g.outs[j].dims = DimValues(w.outs[j].dims)
    BY <2>1 DEF StripDeclared
  <2>3. y \in Tensors(g)
    BY <1>1 DEF NamesOf
  <2>4. b[d.out].dims = b[y].dims
    <3>1. d \in Node
      BY GraphFacts
    <3> HIDE DEF b
    <3>2. QED
      BY <1>5, <2>2, <3>1, QuantisedLike
  <2>5. Tell(w.outs[j].dims, b[d.out].dims) /\ NoZero(w.outs[j].dims)
    <3>1. Says(w.outs[j].dims, b[d.out].dims) /\ Sized(w.outs)
      BY <2>1, <2>2, HonestParts
    <3>2. w.outs[j].dims \in Seq(Dim) /\ Fixed(w.outs[j].dims)
      BY <1>2, <2>1, BoundaryFixed
    <3>3. QED
      BY <2>1, <3>1, <3>2, DimValuesPinned DEF Sized
  <2>8. w.outs[j].dims \in Seq(Dim) /\ Fixed(w.outs[j].dims)
    BY <1>2, <2>1, BoundaryFixed
  <2> HIDE DEF r, b, y
  <2>6. Tell(Pinned(w.outs[j].dims, Unset), r[y].dims)
    BY <1>9, <2>3, <2>4, <2>5, PinnedTell
  <2>7. QED
    BY <1>9, <1>10, <2>2, <2>3, <2>6, <2>8, DimValuesPinned DEF y
<1>12. ASSUME NEW n \in NodesOf(g), n.op = "DequantizeLinear", Len(n.ins) > 2, n.ins[3] \in DOMAIN g.inits
       PROVE  r[n.ins[1]].elem = g.inits[n.ins[3]].elem
  <2>1. n.ins[1] \in Tensors(g)
    BY <1>1, InOrder
  <2> HIDE DEF r, b
  <2>2. QED
    BY <1>1, <1>9, <1>10, <1>12, <2>1
<1>13. g.ins[1].name \notin DOMAIN g.inits
  BY <1>1, <1>3, <1>4
<1>14. Sized(g.ins) /\ Sized(g.outs)
  <2>1. Sized(w.ins) /\ Sized(w.outs)
    BY HonestParts
  <2>2. g.ins[1].dims = w.ins[1].dims
    BY <1>2, BoundaryFixed, DimValuesPinned DEF StripDeclared
  <2>3. Sized(g.ins)
    BY <1>2, <2>1, <2>2 DEF Sized
  <2>4. ASSUME NEW j \in DOMAIN g.outs PROVE j \in DOMAIN w.outs /\ g.outs[j].dims = w.outs[j].dims
    <3>1. g.outs \in Seq(ValueInfo) /\ w.outs \in Seq(ValueInfo) /\ Len(g.outs) = Len(w.outs)
      BY GraphParts DEF BehindQuantisation
    <3>2. j \in 1 .. Len(w.outs) /\ j \in DOMAIN w.outs
      BY <3>1
    <3>3. g.outs[j].dims = DimValues(w.outs[j].dims)
      BY <3>2 DEF StripDeclared
    <3>4. QED
      BY <1>2, <3>2, <3>3, BoundaryFixed, DimValuesPinned
  <2>5. QED
    BY <2>1, <2>3, <2>4 DEF Sized
<1>15. QED
  BY <1>11, <1>12, <1>13, <1>14, HonestParts, TellSays

(* A Transpose, and what is declared of it.                                *)
LEMMA NhwcDims ==
  ASSUME NEW dims \in Seq(Dim), Len(dims) = 4, Fixed(dims), NEW a
  PROVE  /\ Len(NHWC(DimValues(dims))) = 4
         /\ a.dims = NHWC(DimValues(dims)) => Apply("ToNCHW", <<a>>).dims = Pinned(dims, Unset)
         /\ Tell(Pinned(dims, Unset), a.dims) => Tell(NHWC(DimValues(dims)), Apply("ToNHWC", <<a>>).dims)
         /\ Apply("ToNCHW", <<a>>).elem = a.elem /\ Apply("ToNHWC", <<a>>).elem = a.elem
         /\ Apply("ToNCHW", <<a>>).num = 0
<1> DEFINE e == Pinned(dims, Unset)
<1>1. DOMAIN dims = 1 .. 4
  OBVIOUS
<1>2. DimValues(dims) = e /\ DOMAIN e = 1 .. 4
  BY <1>1, DimValuesPinned DEF Pinned
<1>3. e = <<e[1], e[2], e[3], e[4]>>
  BY <1>1 DEF Pinned
<1> HIDE DEF e
<1>4. NHWC(e) = <<e[1], e[3], e[4], e[2]>>
  BY DEF NHWC
<1>5. \A op \in {"ToNCHW", "ToNHWC"} :
        /\ Apply(op, <<a>>).dims = DimsOf(op, a.dims, 0)
        /\ Apply(op, <<a>>).elem = a.elem /\ Apply(op, <<a>>).num = 0
  <2>1. ASSUME NEW op \in {"ToNCHW", "ToNHWC"}
        PROVE  /\ Apply(op, <<a>>).dims = DimsOf(op, a.dims, 0)
               /\ Apply(op, <<a>>).elem = a.elem /\ Apply(op, <<a>>).num = 0
    <3>1. ~Enlarges(op) /\ op \notin SizeOps /\ op \notin {"Shape", "Floor"} /\ FactorOf(op) = 0
      BY DEF Enlarges, SizeOps, FactorOf
    <3>2. ElemOf(op, <<a>>) = a.elem
      BY <3>1 DEF ElemOf
    <3>3. QED
      BY <3>1, <3>2, ApplyParts
  <2>2. QED
    BY <2>1
<1>6. \A d : DOMAIN d = 1 .. 4 =>
        /\ DimsOf("ToNHWC", d, 0) = <<d[1], d[3], d[4], d[2]>>
        /\ DimsOf("ToNCHW", d, 0) = <<d[1], d[4], d[2], d[3]>>
  BY DEF DimsOf, SizeOps
<1>7. ASSUME a.dims = NHWC(e) PROVE DimsOf("ToNCHW", a.dims, 0) = e
  <2>1. /\ DOMAIN a.dims = 1 .. 4 /\ a.dims[1] = e[1] /\ a.dims[2] = e[3]
        /\ a.dims[3] = e[4] /\ a.dims[4] = e[2]
    BY <1>4, <1>7
  <2>2. DimsOf("ToNCHW", a.dims, 0) = <<e[1], e[2], e[3], e[4]>>
    BY <1>6, <2>1
  <2>3. QED
    BY <1>3, <2>2
<1>8. ASSUME Tell(e, a.dims) PROVE Tell(NHWC(e), DimsOf("ToNHWC", a.dims, 0))
  <2>1. DOMAIN a.dims = 1 .. 4 /\ \A i \in 1 .. 4 : e[i] \in {Unset, a.dims[i]}
    BY <1>2, <1>8 DEF Tell
  <2>2. DimsOf("ToNHWC", a.dims, 0) = <<a.dims[1], a.dims[3], a.dims[4], a.dims[2]>>
    BY <1>6, <2>1
  <2> DEFINE s == <<a.dims[1], a.dims[3], a.dims[4], a.dims[2]>>
             t == <<e[1], e[3], e[4], e[2]>>
  <2>3. \A i \in 1 .. 4 : t[i] \in {Unset, s[i]}
    BY <2>1
  <2>4. DOMAIN t = 1 .. 4 /\ DOMAIN s = 1 .. 4
    OBVIOUS
  <2> HIDE DEF s, t
  <2>5. Tell(t, s)
    BY <2>3, <2>4 DEF Tell
  <2>6. QED
    BY <1>4, <2>2, <2>5 DEF s, t
<1>9. Len(NHWC(e)) = 4
  BY <1>4
<1>10. QED
  BY <1>2, <1>5, <1>7, <1>8, <1>9 DEF e

(* nhwc_io: behind and before its Transposes everything is as it was.      *)
LEMMA WrappedHonest ==
  ASSUME NEW w, NEW g, IsGraph(w), IsGraph(g), Usable(w), Usable(g), NEW nodes,
         WrappedUpTo(w, g, nodes, g.outs, Len(w.outs)), NodesOf(g) = NodesOf(w) \cup nodes,
         Honest(w), FixedBoundary(w)
  PROVE  Honest(g)
<1> DEFINE r == RunFree(g)
           b == RunFree(w)
<1>1. /\ CheckModel(w) /\ CheckModel(g) /\ Typed(w) /\ NamesOf(w.outs) \subseteq Tensors(w)
      /\ w.ins # <<>> /\ Len(w.ins[1].dims) = 4 /\ g.ins = InputWrapped(w).ins /\ g.inits = w.inits
  BY DEF Usable, WrappedUpTo
<1>2. /\ DOMAIN g.ins = DOMAIN w.ins /\ 1 \in DOMAIN w.ins /\ g.ins[1] = Nhwc(w.ins[1])
      /\ w.ins[1] \in ValueInfo
      /\ \A j \in DOMAIN w.ins \ {1} : g.ins[j] = w.ins[j]
  <2>1. /\ Len(g.ins) = Len(w.ins) /\ g.ins[1] = Nhwc(w.ins[1]) /\ w.ins[1] \in ValueInfo
        /\ \A j \in DOMAIN w.ins \ {1} : g.ins[j] = w.ins[j]
    BY <1>1, InputWrappedFacts
  <2>2. g.ins \in Seq(ValueInfo) /\ w.ins \in Seq(ValueInfo)
    BY GraphParts
  <2>3. QED
    BY <1>1, <2>1, <2>2
<1>3. /\ DOMAIN g.outs = DOMAIN w.outs
      /\ ToInput(w.ins[1]) \in NodesOf(g)
      /\ \A j \in DOMAIN w.outs :
           /\ FromOutput(w.outs[j]) \in NodesOf(g) /\ Len(w.outs[j].dims) = 4
           /\ g.outs[j] = Nhwc(w.outs[j]) /\ w.outs[j] \in ValueInfo
      /\ \A n \in nodes : n.op \in {"ToNCHW", "ToNHWC"}
  <2>1. g.outs \in Seq(ValueInfo) /\ w.outs \in Seq(ValueInfo)
    BY GraphParts
  <2>2. Len(g.outs) = Len(w.outs)
    BY DEF WrappedUpTo
  <2>3. DOMAIN g.outs = 1 .. Len(w.outs) /\ DOMAIN w.outs = 1 .. Len(w.outs)
    BY <2>1, <2>2
  <2>4. nodes = {ToInput(w.ins[1])} \cup {FromOutput(w.outs[j]) : j \in 1 .. Len(w.outs)}
    BY DEF WrappedUpTo
  <2>5. \A n \in nodes : n.op \in {"ToNCHW", "ToNHWC"}
    BY <2>4 DEF ToInput, FromOutput
  <2>6. QED
    BY <2>1, <2>3, <2>4, <2>5 DEF WrappedUpTo
<1>4. w.ins[1].name \notin DOMAIN w.inits /\ Nhwc(w.ins[1]).name \notin DOMAIN g.inits
  <2>1. Nhwc(w.ins[1]).name = Append(w.ins[1].name, "_nhwc")
    BY <1>1, <1>2, NhwcTypes
  <2>2. w.ins[1].name \in Name /\ "_nhwc" \in Words
    BY <1>2, ValueInfoFacts, GraphToolsAssumption DEF GivenName
  <2>3. Last(Nhwc(w.ins[1]).name) = "_nhwc"
    BY <2>1, <2>2, NameEnds
  <2>4. w.ins[1].name \notin DOMAIN w.inits
    BY <1>1, HonestParts
  <2>5. QED
    BY <2>3, <2>4 DEF Usable, NamesFree
<1>5. /\ \A n \in NodesOf(g) : r[n.out] = Apply(n.op, Operands(n, r))
      /\ \A m \in DOMAIN w.inits :
           /\ r[m].elem = w.inits[m].elem /\ r[m].dims = <<>> /\ r[m].num = w.inits[m].num
           /\ b[m].elem = w.inits[m].elem /\ b[m].dims = <<>> /\ b[m].num = w.inits[m].num
  BY <1>1, StartDeclared
<1> DEFINE x == r[Nhwc(w.ins[1]).name]
<1>6. /\ x.elem = w.ins[1].elem /\ x.dims = NHWC(DimValues(w.ins[1].dims))
      /\ w.ins[1].dims \in Seq(Dim) /\ Fixed(w.ins[1].dims)
  <2>1. x.elem = Nhwc(w.ins[1]).elem /\ x.dims = Nhwc(w.ins[1]).dims
    BY <1>1, <1>2, <1>4, InputDeclared
  <2>2. QED
    BY <1>1, <1>2, <2>1, ValueInfoFacts, BoundaryFixed DEF Nhwc
<1>7. r[w.ins[1].name] = Apply("ToNCHW", <<x>>)
  <2>1. Nhwc(w.ins[1]).name \in GivenName
    BY <1>1, <1>2, NhwcTypes, ValueInfoFacts
  <2>2. Operands(ToInput(w.ins[1]), r) = <<x>>
    BY <2>1, OneOperand DEF ToInput
  <2>3. ToInput(w.ins[1]).op = "ToNCHW" /\ ToInput(w.ins[1]).out = w.ins[1].name
    BY DEF ToInput
  <2> HIDE DEF r, x
  <2>4. QED
    BY <1>3, <1>5, <2>2, <2>3
<1>8. ASSUME NEW y \in Given(w)
      PROVE  r[y].num = b[y].num /\ r[y].elem = b[y].elem /\ Fits(b[y].dims, r[y].dims, Unset)
  <2>1. CASE y \in DOMAIN w.inits
    <3> HIDE DEF r, b
    <3>1. QED
      BY <1>5, <2>1 DEF Fits
  <2>2. CASE y = w.ins[1].name
    <3>1. b[y].elem = w.ins[1].elem /\ b[y].dims = w.ins[1].dims /\ b[y].num = 0
      BY <1>1, <1>2, <1>4, <2>2, InputDeclared
    <3> HIDE DEF r, b, x
    <3>2. r[y].elem = x.elem /\ r[y].num = 0 /\ r[y].dims = Pinned(w.ins[1].dims, Unset)
      BY <1>1, <1>6, <1>7, <2>2, NhwcDims
    <3>3. QED
      BY <1>6, <3>1, <3>2, PinnedFits
  <2>3. CASE y \notin DOMAIN w.inits /\ y # w.ins[1].name
    <3>1. PICK j \in DOMAIN w.ins : y = w.ins[j].name
      BY <2>3 DEF Given, NamesOf
    <3>2. j \in DOMAIN g.ins /\ g.ins[j] = w.ins[j]
      BY <1>2, <2>3, <3>1
    <3>3. /\ r[y].elem = w.ins[j].elem /\ r[y].dims = w.ins[j].dims /\ r[y].num = 0
          /\ b[y].elem = w.ins[j].elem /\ b[y].dims = w.ins[j].dims /\ b[y].num = 0
          /\ w.ins[j].dims \in Seq(Dim)
      BY <1>1, <2>3, <3>1, <3>2, InputDeclared
    <3>4. Fits(w.ins[j].dims, w.ins[j].dims, Unset)
      BY <3>3 DEF Fits
    <3> HIDE DEF r, b
    <3>5. QED
      BY <3>3, <3>4
  <2>4. QED
    BY <2>1, <2>2, <2>3
<1>9. \A m \in Tensors(w) : r[m].elem = b[m].elem /\ Fits(b[m].dims, r[m].dims, Unset)
  <2>1. \A n \in NodesOf(w) : r[n.out] = Apply(n.op, Operands(n, r))
    BY <1>5
  <2> HIDE DEF r
  <2>2. QED
    BY <1>1, <1>8, <2>1, SameNodesFit
<1>10. ASSUME NEW j \in DOMAIN g.outs
       PROVE  r[g.outs[j].name].elem = g.outs[j].elem /\ Tell(g.outs[j].dims, r[g.outs[j].name].dims)
  <2> DEFINE y == w.outs[j].name
             v == w.outs[j]
  <2>1. /\ v \in ValueInfo /\ g.outs[j] = Nhwc(v) /\ FromOutput(v) \in NodesOf(g)
        /\ Len(v.dims) = 4 /\ v.dims \in Seq(Dim) /\ y \in GivenName /\ y \in Tensors(w)
    BY <1>1, <1>3, ValueInfoFacts DEF NamesOf
  <2>2. /\ Operands(FromOutput(v), r) = <<r[y]>>
        /\ FromOutput(v).op = "ToNHWC" /\ FromOutput(v).out = g.outs[j].name
    BY <2>1, OneOperand DEF FromOutput
  <2>3. r[g.outs[j].name] = Apply("ToNHWC", <<r[y]>>)
    <3> HIDE DEF r, y, v
    <3>1. QED
      BY <1>5, <2>1, <2>2
  <2>8. Fixed(v.dims)
    BY <1>1, <1>3, BoundaryFixed
  <2>4. b[y].elem = v.elem /\ Tell(v.dims, b[y].dims) /\ NoZero(v.dims)
    <3>1. b[y].elem = v.elem /\ Says(v.dims, b[y].dims) /\ Sized(w.outs) /\ j \in DOMAIN w.outs
      BY <1>3, HonestParts
    <3> HIDE DEF b, y
    <3>2. QED
      BY <2>1, <2>8, <3>1, DimValuesPinned DEF Sized
  <2>5. Nhwc(v).elem = v.elem /\ Nhwc(v).dims = NHWC(DimValues(v.dims))
    BY DEF Nhwc
  <2> HIDE DEF r, b, y, v
  <2>6. Tell(Pinned(v.dims, Unset), r[y].dims)
    BY <1>9, <2>1, <2>4, PinnedTell
  <2>7. QED
    BY <1>9, <2>1, <2>3, <2>4, <2>5, <2>6, <2>8, NhwcDims
<1>11. ASSUME NEW n \in NodesOf(g), n.op = "DequantizeLinear", Len(n.ins) > 2, n.ins[3] \in DOMAIN g.inits
       PROVE  r[n.ins[1]].elem = g.inits[n.ins[3]].elem
  <2>1. n \in NodesOf(w)
    BY <1>3, <1>11
  <2>2. n.ins[1] \in Tensors(w)
    BY <1>1, <2>1, InOrder
  <2>3. b[n.ins[1]].elem = w.inits[n.ins[3]].elem
    BY <1>1, <1>11, <2>1, HonestParts
  <2> HIDE DEF r, b
  <2>4. QED
    BY <1>1, <1>9, <2>2, <2>3
<1>12. g.ins[1].name \notin DOMAIN g.inits
  BY <1>2, <1>4
<1>13. Sized(g.ins) /\ Sized(g.outs)
  <2>1. Sized(w.ins) /\ Sized(w.outs)
    BY HonestParts
  <2>2. ASSUME NEW v, v.dims \in Seq(Dim), Len(v.dims) = 4, Fixed(v.dims), NoZero(v.dims)
        PROVE  NoZero(Nhwc(v).dims)
    <3>1. Nhwc(v).dims = <<v.dims[1], v.dims[3], v.dims[4], v.dims[2]>>
      BY <2>2, DimValuesPinned DEF Nhwc, NHWC
    <3>2. \A i \in 1 .. 4 : v.dims[i] # 0
      BY <2>2 DEF NoZero
    <3>3. QED
      BY <3>1, <3>2 DEF NoZero
  <2>3. \A j \in DOMAIN g.ins : NoZero(g.ins[j].dims)
    <3>1. NoZero(g.ins[1].dims)
      BY <1>1, <1>2, <2>1, <2>2, BoundaryFixed DEF Sized
    <3>2. QED
      BY <1>2, <2>1, <3>1 DEF Sized
  <2>4. \A j \in DOMAIN g.outs : NoZero(g.outs[j].dims)
    BY <1>1, <1>3, <2>1, <2>2, BoundaryFixed DEF Sized
  <2>5. QED
    BY <2>3, <2>4 DEF Sized
<1>14. QED
  BY <1>10, <1>11, <1>12, <1>13, HonestParts, TellSays

-----------------------------------------------------------------------------
(* What a run has declared so far.                                         *)
Ending(tool) == pc \in {"check", "save", "saving"} /\ job.tool = tool

DeclInv ==
  /\ DeclaredIsActual
  /\ pc = "convert" \/ Ending("prepare_model") =>
       PinnedTo(model.ins, RealInputs(was), Batch) /\ PinnedTo(model.outs, was.outs, Batch)
  /\ pc \in {"upgrade", "freeze", "prune"} \/ Ending("prepare_style") =>
       /\ ResizedTo(model.ins, RealInputs(was), job.height, job.width)
       /\ ResizedTo(model.outs, was.outs, job.height, job.width)
  /\ pc = "outputs" => StripDeclared(was, model, new.values, k)
  /\ Ending("strip_io_quant") => StripDeclared(was, model, model.outs, Len(was.outs))

LEMMA DeclaredFiles ==
  ASSUME DeclaredIsActual, \A p \in Paths : files'[p] = files[p] \/ ~Whole(files'[p])
  PROVE  DeclaredIsActual'
<1>1. Written(Tools)' \subseteq Written(Tools)
  BY DEF Written
<1>2. QED
  BY <1>1 DEF DeclaredIsActual

LEMMA InitDeclared == Init => DeclInv
<1> SUFFICES ASSUME Init PROVE DeclInv
  OBVIOUS
<1>1. ASSUME NEW p \in Paths, Whole(files[p]) PROVE files[p].job.tool = "none"
  <2>1. PICK g \in Sources : files[p] = [graph |-> g, was |-> g, job |-> NoJob]
    BY <1>1 DEF Init, Whole
  <2>2. QED
    BY <2>1 DEF NoJob
<1>2. pc = "idle"
  BY DEF Init
<1>3. "none" \notin Tools
  BY DEF Tools
<1>4. DeclaredIsActual
  BY <1>1, <1>3 DEF DeclaredIsActual, Written
<1>5. QED
  BY <1>2, <1>4 DEF DeclInv, Ending

(* Steps after which nothing is known, and none was needed before.         *)
LEMMA OtherDeclared ==
  ASSUME TypeInv, UseInv, DeclInv,
         \/ Start \/ Load \/ LoadFails \/ ConversionFails
         \/ StripInputFails \/ StripOutputFails
         \/ WrapInput \/ WrapOutput \/ WrapFails \/ WrapEnds
         \/ CheckFails \/ Kill
  PROVE  DeclInv'
<1>1. files' = files
  BY DEF Start, Load, LoadFails, ConversionFails, StripInputFails, StripOutputFails,
         WrapInput, WrapOutput, WrapFails, WrapEnds, CheckFails, Kill, Raise, Step
<1>2. DeclaredIsActual'
  BY <1>1, DeclaredFiles DEF DeclInv
<1>3. \/ pc' \in {"idle", "load", "wrap"} \cup Tools
      \/ pc' = "check" /\ job'.tool = "nhwc_io"
  <2>1. CASE \/ Start \/ LoadFails \/ ConversionFails \/ StripInputFails
             \/ StripOutputFails \/ WrapInput \/ WrapOutput \/ WrapFails
             \/ CheckFails \/ Kill
    BY <2>1 DEF Start, LoadFails, ConversionFails, StripInputFails,
         StripOutputFails, WrapInput, WrapOutput, WrapFails, CheckFails, Kill, Raise, Gone, Step
  <2>2. CASE Load
    BY <2>2 DEF Load, TypeInv
  <2>3. CASE WrapEnds
    <3>1. pc = "wrap" /\ pc' = "check" /\ job' = job
      BY <2>3 DEF WrapEnds, Step
    <3>2. pc \in StageOf(job.tool) /\ job.tool \in Tools
      BY <3>1 DEF UseInv, Progress, TypeInv
    <3>3. QED
      BY <3>1, <3>2, Stages
  <2>4. QED
    BY <2>1, <2>2, <2>3
<1>4. QED
  BY <1>2, <1>3 DEF DeclInv, Ending, Tools

LEMMA PrepareDeclared ==
  ASSUME TypeInv, UseInv, DeclInv, PrepareModel \/ Retarget
  PROVE  DeclInv'
<1>1. IsGraph(model) /\ UNCHANGED <<files, job, was>> /\ pc \in Tools
  BY DEF TypeInv, TypeOK, PrepareModel, Retarget, Step, Tools
<1>2. model = was
  BY <1>1 DEF UseInv, Progress, Tools
<1>3. RealInputs(was) \in Seq(ValueInfo) /\ was.outs \in Seq(ValueInfo)
  BY <1>1, <1>2, RealInputsTypes, GraphParts
<1>4. DeclaredIsActual'
  BY <1>1, DeclaredFiles DEF DeclInv
<1>5. CASE PrepareModel
  <2>1. /\ model'.ins = PinSymbols(RealInputs(was)) /\ model'.outs = PinSymbols(was.outs)
        /\ pc' = "convert"
    BY <1>1, <1>2, <1>5 DEF PrepareModel, Step, IsGraph
  <2>2. PinnedTo(model'.ins, RealInputs(was), Batch) /\ PinnedTo(model'.outs, was.outs, Batch)
    BY <1>3, <2>1, PinSymbolsFacts DEF PinnedTo
  <2>3. QED
    BY <1>1, <1>4, <2>1, <2>2 DEF DeclInv, Ending
<1>6. CASE Retarget
  <2>1. /\ model'.ins = Resized(RealInputs(was), job.height, job.width)
        /\ model'.outs = Resized(was.outs, job.height, job.width) /\ pc' = "upgrade"
    BY <1>1, <1>2, <1>6 DEF Retarget, Retargeted, Step, IsGraph
  <2>2. /\ ResizedTo(model'.ins, RealInputs(was), job.height, job.width)
        /\ ResizedTo(model'.outs, was.outs, job.height, job.width)
    BY <1>3, <2>1, ResizedFacts
  <2>3. QED
    BY <1>1, <1>4, <2>1, <2>2 DEF DeclInv, Ending
<1>7. QED
  BY <1>5, <1>6

(* Steps that leave what is declared as it is.                             *)
LEMMA BoundaryKept ==
  ASSUME TypeInv,
         Converted \/ Upgrade \/ FreezeRound \/ FreezeEnds \/ PruneRound \/ PruneEnds \/ Check \/ Save
  PROVE  model'.ins = model.ins /\ model'.outs = model.outs
<1>1. IsGraph(model)
  BY DEF TypeInv, TypeOK
<1>2. CASE Converted \/ Upgrade
  <2>1. \E version \in Nat : model' = model \/ model' = ConvertVersion(model, version)
    <3>1. TARGET_OPSET \in Nat /\ 13 \in Nat
      BY DEF TARGET_OPSET
    <3>2. QED
      BY <1>2, <3>1 DEF Converted, Upgrade, Step
  <2>2. QED
    BY <1>1, <2>1, ConvertNodes
<1>3. CASE FreezeRound
  <2>1. model' = Freeze(model, Freezable(model))
    BY <1>3 DEF FreezeRound
  <2>2. Freezable(model) \subseteq NodesOf(model) /\ \A n \in Freezable(model) : n.op = "Resize"
    BY DEF Freezable
  <2>3. QED
    BY <1>1, <2>1, <2>2, FreezeFacts
<1>4. CASE PruneRound
  BY <1>1, <1>4, TakenOut DEF PruneRound
<1>5. CASE FreezeEnds \/ PruneEnds \/ Check \/ Save
  BY <1>5 DEF FreezeEnds, PruneEnds, Check, Save, Step
<1>6. QED
  BY <1>2, <1>3, <1>4, <1>5

LEMMA KeptDeclared ==
  ASSUME TypeInv, UseInv, DeclInv,
         Converted \/ Upgrade \/ FreezeRound \/ FreezeEnds \/ PruneRound \/ PruneEnds \/ Check \/ Save
  PROVE  DeclInv'
<1>1. /\ \/ pc = "convert" /\ pc' = "check"
         \/ pc = "upgrade" /\ pc' = "freeze"
         \/ pc = "freeze" /\ pc' \in {"freeze", "prune"}
         \/ pc = "prune" /\ pc' \in {"prune", "check"}
         \/ pc = "check" /\ pc' = "save"
         \/ pc = "save" /\ pc' = "saving"
      /\ UNCHANGED <<job, was>>
  BY DEF Converted, Upgrade, FreezeRound, FreezeEnds, PruneRound, PruneEnds, Check, Save, Step
<1>2. model'.ins = model.ins /\ model'.outs = model.outs
  BY BoundaryKept
<1>3. /\ pc = "convert" => job.tool = "prepare_model"
      /\ pc = "prune" => job.tool = "prepare_style"
  <2>1. job.tool \in Tools /\ Progress
    BY <1>1 DEF TypeInv, UseInv
  <2>2. QED
    BY <2>1, Stages DEF Progress
<1>4. \A p \in Paths : files'[p] = files[p] \/ ~Whole(files'[p])
  BY DEF Converted, Upgrade, FreezeRound, FreezeEnds, PruneRound, PruneEnds, Check, Save, Step,
         TypeInv, TypeOK, Whole
<1>5. DeclaredIsActual'
  BY <1>4, DeclaredFiles DEF DeclInv
<1>6. pc' = "convert" \/ Ending("prepare_model")' => pc = "convert" \/ Ending("prepare_model")
  BY <1>1, <1>3 DEF Ending
<1>7. pc' \in {"upgrade", "freeze", "prune"} \/ Ending("prepare_style")' =>
        pc \in {"upgrade", "freeze", "prune"} \/ Ending("prepare_style")
  BY <1>1, <1>3 DEF Ending
<1>8. Ending("strip_io_quant")' => Ending("strip_io_quant")
  BY <1>1, <1>3 DEF Ending
<1>9. pc' # "outputs"
  BY <1>1
<1>10. Ending("strip_io_quant")' => StripDeclared(was, model, model.outs, Len(was.outs))'
  BY <1>1, <1>2, <1>8 DEF DeclInv, StripDeclared
<1>11. QED
  BY <1>1, <1>2, <1>5, <1>6, <1>7, <1>9, <1>10 DEF DeclInv

LEMMA StripInputDeclared ==
  ASSUME TypeInv, UseInv, DeclInv, StripInput
  PROVE  DeclInv'
<1>1. IsGraph(model)
  BY DEF TypeInv, TypeOK
<1>2. PICK q \in Quantizers :
        /\ TheOnly(Quantizers) /\ model.ins # <<>> /\ pc = "strip_io_quant"
        /\ Step("strip_io_quant", "outputs", InputStripped(model, q, ElemType(q)))
  BY <1>1, StripInputChanges
<1>3. model = was /\ new = Nobody
  BY <1>2 DEF UseInv, Progress, Tools
<1>4. q \in Node /\ ElemType(q) \in Elem
  BY <1>1, <1>2, OnlyNode DEF Quantizers
<1>5. /\ pc' = "outputs" /\ k' = 0 /\ UNCHANGED <<files, new, was>>
      /\ model' = InputStripped(was, q, ElemType(q))
  BY <1>2, <1>3 DEF Step
<1>6. model'.ins[1].dims = DimValues(was.ins[1].dims)
  BY <1>1, <1>2, <1>3, <1>4, <1>5, InputStrippedFacts
<1>7. StripDeclared(was, model, new.values, k)'
  BY <1>5, <1>6 DEF StripDeclared
<1>8. DeclaredIsActual'
  BY <1>5, DeclaredFiles DEF DeclInv
<1>9. QED
  BY <1>5, <1>7, <1>8 DEF DeclInv, Ending

LEMMA StripOutputDeclared ==
  ASSUME TypeInv, UseInv, DeclInv, StripOutput
  PROVE  DeclInv'
<1>1. IsGraph(model) /\ k \in Nat /\ new.values \in Seq(ValueInfo)
  BY DEF TypeInv, TypeOK
<1> DEFINE out == model.outs[k + 1]
           v(d) == [name |-> d.ins[1], elem |-> ElemType(d), dims |-> DimValues(out.dims)]
<1>2. PICK d \in Dequantizers(out) :
        /\ pc = "outputs" /\ k < Len(model.outs) /\ TheOnly(Dequantizers(out))
        /\ new' = [new EXCEPT !.values = Append(new.values, v(d))]
        /\ model' = [model EXCEPT !.nodes = Without(d)]
        /\ k' = k + 1
        /\ UNCHANGED <<files, pc, job, was, runs>>
  BY DEF StripOutput, Replacements
<1>3. /\ BehindQuantisation(was, model, new.values, k) /\ model.outs = was.outs
  BY <1>2 DEF UseInv, Progress
<1>4. d \in NodesOf(was) /\ d.op = "DequantizeLinear" /\ d.out = was.outs[k + 1].name
  BY <1>3 DEF Dequantizers, BehindQuantisation
<1>5. Len(d.ins) > 2 /\ d.ins[3] \in DOMAIN was.inits /\ ElemType(d) = was.inits[d.ins[3]].elem
  <2>1. HasElemType(d) /\ model.inits = was.inits
    BY <1>2, <1>3 DEF TheOnly, BehindQuantisation
  <2>2. QED
    BY <2>1 DEF HasElemType, ElemType
<1>6. /\ v(d).name = d.ins[1] /\ v(d).elem = was.inits[d.ins[3]].elem
      /\ v(d).dims = DimValues(was.outs[k + 1].dims)
  BY <1>3, <1>5
<1> HIDE DEF v
<1>7. new'.values = Append(new.values, v(d))
  <2>1. new \in [values : Seq(ValueInfo), nodes : Seq(Node)]
    BY DEF TypeInv, TypeOK
  <2>2. QED
    BY <1>2, <2>1
<1>8. /\ new'.values[k + 1] = v(d)
      /\ \A j \in 1 .. k : new'.values[j] = new.values[j]
  <2>1. Len(new.values) = k
    BY <1>3 DEF BehindQuantisation
  <2>2. QED
    BY <1>1, <1>7, <2>1
<1>9. model'.ins = model.ins
  BY <1>1, <1>2 DEF IsGraph
<1>10. StripDeclared(was, model, new.values, k)
  BY <1>2 DEF DeclInv
<1>11. ASSUME NEW j \in 1 .. k + 1
       PROVE  \E n \in NodesOf(was) :
                /\ n.op = "DequantizeLinear" /\ n.out = was.outs[j].name /\ n.ins[1] = new'.values[j].name
                /\ Len(n.ins) > 2 /\ n.ins[3] \in DOMAIN was.inits
                /\ new'.values[j].elem = was.inits[n.ins[3]].elem
                /\ new'.values[j].dims = DimValues(was.outs[j].dims)
  <2>1. CASE j = k + 1
    BY <1>4, <1>5, <1>6, <1>8, <2>1
  <2>2. CASE j # k + 1
    <3>1. j \in 1 .. k
      BY <1>1, <2>2
    <3>2. QED
      BY <1>8, <1>10, <3>1 DEF StripDeclared
  <2>3. QED
    BY <2>1, <2>2
<1>12. StripDeclared(was, model, new.values, k)'
  <2>1. was' = was /\ k' = k + 1
    BY <1>2
  <2>2. QED
    BY <1>9, <1>10, <1>11, <2>1 DEF StripDeclared
<1>13. DeclaredIsActual'
  BY <1>2, DeclaredFiles DEF DeclInv
<1>14. QED
  BY <1>2, <1>12, <1>13 DEF DeclInv, Ending

LEMMA StrippedDeclared ==
  ASSUME TypeInv, UseInv, DeclInv, Stripped
  PROVE  DeclInv'
<1>1. /\ pc = "outputs" /\ pc' = "check" /\ k = Len(model.outs)
      /\ model' = [model EXCEPT !.outs = new.values]
      /\ UNCHANGED <<files, job, was>>
  BY DEF Stripped, Step
<1>2. job.tool \in Tools /\ Progress /\ IsGraph(model)
  BY <1>1 DEF TypeInv, TypeOK, UseInv
<1>3. job.tool = "strip_io_quant" /\ model.outs = was.outs
  BY <1>1, <1>2, Stages DEF Progress
<1>4. model'.outs = new.values /\ model'.ins = model.ins
  BY <1>1, <1>2 DEF IsGraph
<1>5. StripDeclared(was, model, new.values, k)
  BY <1>1 DEF DeclInv
<1>6. StripDeclared(was, model, model.outs, Len(was.outs))'
  BY <1>1, <1>3, <1>4, <1>5 DEF StripDeclared
<1>7. DeclaredIsActual'
  BY <1>1, DeclaredFiles DEF DeclInv
<1>8. QED
  BY <1>1, <1>3, <1>6, <1>7 DEF DeclInv, Ending

(* The file that is saved last.                                            *)
LEMMA SavedDeclared ==
  ASSUME TypeInv, UseInv, SameInv, DeclInv, Saved
  PROVE  DeclInv'
<1> DEFINE f == [graph |-> model, was |-> was, job |-> job]
<1>1. pc = "saving" /\ files' = [files EXCEPT ![job.dst] = f] /\ pc' = "idle"
  BY DEF Saved, Gone
<1>2. f.graph = model /\ f.was = was /\ f.job = job
  OBVIOUS
<1> HIDE DEF f
<1>3. Progress
  BY <1>1 DEF UseInv
<1>4. IsGraph(model) /\ IsGraph(was) /\ Usable(model) /\ Usable(was) /\ job.tool \in Tools
  BY <1>1, <1>3 DEF Progress, Usable, TypeInv, TypeOK
<1>5. SUFFICES ASSUME Honest(was) PROVE
        \/ Honest(model)
        \/ job.tool = "prepare_model" /\ ~SymbolsPass(was)
        \/ /\ job.tool = "prepare_style"
           /\ ImageToImage(was) => ~(Divides(was, job.height) /\ Divides(was, job.width))
        \/ job.tool \in {"strip_io_quant", "nhwc_io"} /\ ~FixedBoundary(was)
  <2>1. \A p \in Paths : files'[p] = files[p] \/ files'[p] = f
    BY <1>1 DEF TypeInv, TypeOK
  <2>2. \A h \in Written(Tools)' : h \in Written(Tools) \/ h = f
    BY <2>1 DEF Written
  <2>3. DeclaredIsActual'
    BY <1>2, <1>5, <2>2 DEF DeclaredIsActual, DeclInv
  <2>4. QED
    BY <1>1, <2>3 DEF DeclInv, Ending
<1>6. CASE job.tool = "prepare_model"
  <2>1. Descends(model, was) /\ Added(model, was) = {}
    BY <1>1, <1>6 DEF SameInv, Preparing
  <2>2. PinnedTo(model.ins, RealInputs(was), Batch) /\ PinnedTo(model.outs, was.outs, Batch)
    BY <1>1, <1>6 DEF DeclInv, Ending
  <2>3. QED
    BY <1>4, <1>5, <1>6, <2>1, <2>2, PreparedHonest
<1>7. CASE job.tool = "prepare_style"
  <2>1. SUFFICES ASSUME ImageToImage(was), Divides(was, job.height), Divides(was, job.width)
        PROVE  Honest(model)
    BY <1>7
  <2>2. Descends(model, was)
    BY <1>1, <1>7 DEF SameInv, Preparing
  <2>3. /\ ResizedTo(model.ins, RealInputs(was), job.height, job.width)
        /\ ResizedTo(model.outs, was.outs, job.height, job.width)
    BY <1>1, <1>7 DEF DeclInv, Ending
  <2>4. QED
    BY <1>4, <1>5, <2>1, <2>2, <2>3, StyledHonest
<1>8. CASE job.tool = "strip_io_quant"
  <2>1. /\ BehindQuantisation(was, model, model.outs, Len(was.outs))
        /\ StripDeclared(was, model, model.outs, Len(was.outs))
    BY <1>1, <1>3, <1>8 DEF Progress, DeclInv, Ending
  <2>2. QED
    BY <1>4, <1>5, <1>8, <2>1, StrippedHonest
<1>9. CASE job.tool = "nhwc_io"
  <2>1. PICK nodes \in SUBSET NodesOf(model) :
          /\ WrappedUpTo(was, model, nodes, model.outs, Len(was.outs))
          /\ NodesOf(model) = NodesOf(was) \cup nodes
    BY <1>1, <1>3, <1>9 DEF Progress
  <2>2. QED
    BY <1>4, <1>5, <1>9, <2>1, WrappedHonest
<1>10. QED
  BY <1>4, <1>6, <1>7, <1>8, <1>9 DEF Tools

LEMMA StutterDeclared ==
  ASSUME DeclInv, UNCHANGED vars
  PROVE  DeclInv'
BY DEF DeclInv, Ending, DeclaredIsActual, Written, StripDeclared, vars

LEMMA DeclInvNext == TypeInv /\ UseInv /\ SameInv /\ DeclInv /\ [Next]_vars => DeclInv'
<1> SUFFICES ASSUME TypeInv, UseInv, SameInv, DeclInv, [Next]_vars PROVE DeclInv'
  OBVIOUS
<1>1. CASE \/ Start \/ Load \/ LoadFails \/ ConversionFails
           \/ StripInputFails \/ StripOutputFails
           \/ WrapInput \/ WrapOutput \/ WrapFails \/ WrapEnds
           \/ CheckFails \/ Kill
  BY <1>1, OtherDeclared
<1>2. CASE PrepareModel \/ Retarget
  BY <1>2, PrepareDeclared
<1>3. CASE Converted \/ Upgrade \/ FreezeRound \/ FreezeEnds \/ PruneRound \/ PruneEnds \/ Check \/ Save
  BY <1>3, KeptDeclared
<1>4. CASE StripInput
  BY <1>4, StripInputDeclared
<1>5. CASE StripOutput
  BY <1>5, StripOutputDeclared
<1>6. CASE Stripped
  BY <1>6, StrippedDeclared
<1>7. CASE Saved
  BY <1>7, SavedDeclared
<1>8. CASE UNCHANGED vars
  BY <1>8, StutterDeclared
<1>9. QED
  BY <1>1, <1>2, <1>3, <1>4, <1>5, <1>6, <1>7, <1>8 DEF Next

(* What a saved graph declares of its tensors is what they are when it     *)
(* runs, if that was so of the graph the tool was given: prepare_model     *)
(* pins symbols on both sides of the network, if those of the outputs are  *)
(* passed on from the inputs; strip_io_quant declares behind its           *)
(* quantisations what was quantised, nhwc_io in NHWC what was in NCHW, if  *)
(* that were numbers; and prepare_style is right to declare the output to  *)
(* be of the size of the input where the network makes images of images    *)
(* and its strides divide the height and the width.                        *)
THEOREM DeclarationsHold == Spec => []DeclaredIsActual
<1>1. DeclInv => DeclaredIsActual
  BY DEF DeclInv
<1>2. QED
  BY InitTypes, TypeInvNext, InitUse, UseInvNext, InitSame, SameInvNext,
     InitDeclared, DeclInvNext, <1>1, PTL DEF Spec

-----------------------------------------------------------------------------
(* How many nodes of a kind are on the ways to a tensor                    *)

(* The lengths behind a node, from those of its operands.                  *)
Behind(n, counted, chains) ==
  {IF n \in counted THEN l + 1 ELSE l :
     l \in UNION {chains[m] : m \in ToSet(n.ins) \ {NoName}}}

Longer(g, counted, chains, j) ==
  [m \in DOMAIN chains \cup {g.nodes[j].out} |->
     IF m = g.nodes[j].out THEN Behind(g.nodes[j], counted, chains) ELSE chains[m]]

IsChains(chains, g, counted, n) ==
  chains = [j \in 0 .. n |-> IF j = 0 THEN [m \in Given(g) |-> {0}]
                             ELSE Longer(g, counted, chains[j - 1], j)]

LEMMA ChainsExist ==
  ASSUME NEW g, NEW counted, NEW n \in Nat
  PROVE  \E chains : IsChains(chains, g, counted, n)
<1> DEFINE base == [m \in Given(g) |-> {0}]
           Have == {m \in 0 .. n : \E chains : IsChains(chains, g, counted, m)}
<1>1. 0 \in Have
  <2>1. IsChains([j \in 0 .. 0 |-> base], g, counted, 0)
    BY DEF IsChains
  <2>2. QED
    BY <2>1
<1>2. ASSUME NEW m \in 1 .. n, m - 1 \in Have PROVE m \in Have
  <2>1. PICK chains : IsChains(chains, g, counted, m - 1)
    BY <1>2
  <2> DEFINE more == [j \in 0 .. m |->
                        IF j = m THEN Longer(g, counted, chains[m - 1], m) ELSE chains[j]]
  <2>2. \A j \in 0 .. m - 1 : more[j] = chains[j]
    OBVIOUS
  <2>3. more[m] = Longer(g, counted, more[m - 1], m)
    BY <2>2
  <2>4. ASSUME NEW j \in 0 .. m
        PROVE  more[j] = IF j = 0 THEN base ELSE Longer(g, counted, more[j - 1], j)
    <3> HIDE DEF more
    <3>1. CASE j = m
      BY <3>1, <2>3
    <3>2. CASE j # m
      <4>1. j \in 0 .. m - 1 /\ (j # 0 => j - 1 \in 0 .. m - 1)
        BY <3>2
      <4>2. QED
        BY <2>1, <2>2, <4>1 DEF IsChains
    <3>3. QED
      BY <3>1, <3>2
  <2>5. IsChains(more, g, counted, m)
    BY <2>4 DEF IsChains
  <2>6. QED
    BY <2>5
<1> HIDE DEF Have
<1>3. n \in Have
  BY <1>1, <1>2, UpTo
<1>4. QED
  BY <1>3 DEF Have

LEMMA ChainsRecursion ==
  ASSUME NEW g, NEW counted, Len(g.nodes) \in Nat
  PROVE  \E chains :
           /\ Chains(g, counted) = chains[Len(g.nodes)]
           /\ chains[0] = [m \in Given(g) |-> {0}]
           /\ \A j \in 1 .. Len(g.nodes) : chains[j] = Longer(g, counted, chains[j - 1], j)
<1> DEFINE chains == CHOOSE f : IsChains(f, g, counted, Len(g.nodes))
<1>1. IsChains(chains, g, counted, Len(g.nodes))
  BY ChainsExist
<1>2. Chains(g, counted) = chains[Len(g.nodes)]
  BY DEF Chains, IsChains, Longer, Behind
<1> HIDE DEF chains
<1>3. chains[0] = [m \in Given(g) |-> {0}]
  BY <1>1 DEF IsChains
<1>4. ASSUME NEW j \in 1 .. Len(g.nodes)
      PROVE  chains[j] = Longer(g, counted, chains[j - 1], j)
  <2>1. j \in 0 .. Len(g.nodes) /\ j # 0
    OBVIOUS
  <2>2. QED
    BY <1>1, <2>1 DEF IsChains
<1>5. QED
  BY <1>2, <1>3, <1>4

(* In a graph in order, of what is given none, and behind each node what   *)
(* is behind its operands.                                                 *)
LEMMA ChainsSolve ==
  ASSUME NEW g, IsGraph(g), CheckModel(g), NEW counted
  PROVE  /\ \A m \in Given(g) : Chains(g, counted)[m] = {0}
         /\ \A n \in NodesOf(g) : Chains(g, counted)[n.out] = Behind(n, counted, Chains(g, counted))
<1> DEFINE N == Len(g.nodes)
<1>1. N \in Nat /\ DOMAIN g.nodes = 1 .. N
  BY GraphFacts
<1>2. PICK chains :
        /\ Chains(g, counted) = chains[N]
        /\ chains[0] = [m \in Given(g) |-> {0}]
        /\ \A j \in 1 .. N : chains[j] = Longer(g, counted, chains[j - 1], j)
  BY <1>1, ChainsRecursion
<1> DEFINE Right(j) ==
             /\ DOMAIN chains[j] = Before(g, j + 1)
             /\ \A m \in Given(g) : chains[j][m] = {0}
             /\ \A i \in 1 .. j :
                  chains[j][g.nodes[i].out] = Behind(g.nodes[i], counted, chains[j])
           Good == {j \in 0 .. N : Right(j)}
<1>4. 0 \in Good
  <2>1. Right(0)
    <3>1. Before(g, 0 + 1) = Given(g)
      BY DEF Before
    <3>2. QED
      BY <1>2, <3>1
  <2>2. 0 \in 0 .. N
    BY <1>1
  <2> HIDE DEF Right
  <2>3. QED
    BY <2>1, <2>2
<1>5. ASSUME NEW j \in 1 .. N, j - 1 \in Good PROVE j \in Good
  <2> DEFINE n == g.nodes[j]
             c == chains[j - 1]
  <2>1. /\ DOMAIN c = Before(g, j)
        /\ \A m \in Given(g) : c[m] = {0}
        /\ \A i \in 1 .. j - 1 : c[g.nodes[i].out] = Behind(g.nodes[i], counted, c)
    <3>1. Right(j - 1) /\ (j - 1) + 1 = j
      BY <1>1, <1>5
    <3>2. QED
      BY <3>1
  <2>2. n.out \notin Before(g, j)
    BY <1>1 DEF CheckModel
  <2>3. /\ DOMAIN chains[j] = Before(g, j) \cup {n.out}
        /\ chains[j][n.out] = Behind(n, counted, c)
        /\ \A m \in Before(g, j) : chains[j][m] = c[m]
    <3>1. chains[j] = Longer(g, counted, c, j)
      BY <1>2
    <3>2. QED
      BY <2>1, <2>2, <3>1 DEF Longer
  <2>4. Before(g, j + 1) = Before(g, j) \cup {n.out}
    <3>1. 1 .. (j + 1) - 1 = (1 .. j - 1) \cup {j}
      BY <1>1
    <3>2. QED
      BY <3>1 DEF Before
  <2>5. ASSUME NEW i \in 1 .. j
        PROVE  Behind(g.nodes[i], counted, chains[j]) = Behind(g.nodes[i], counted, c)
    <3>1. i \in 1 .. N /\ 1 .. i - 1 \subseteq 1 .. j - 1
      BY <1>1
    <3>2. ToSet(g.nodes[i].ins) \subseteq Before(g, i) \cup {NoName}
      BY <1>1, <3>1 DEF CheckModel
    <3>3. Before(g, i) \subseteq Before(g, j)
      BY <3>1 DEF Before
    <3>4. \A m \in ToSet(g.nodes[i].ins) \ {NoName} : chains[j][m] = c[m]
      BY <2>3, <3>2, <3>3
    <3> HIDE DEF c
    <3>5. QED
      BY <3>4 DEF Behind
  <2> HIDE DEF c
  <2>6. ASSUME NEW i \in 1 .. j
        PROVE  chains[j][g.nodes[i].out] = Behind(g.nodes[i], counted, chains[j])
    <3>1. CASE i = j
      BY <2>3, <2>5, <3>1
    <3>2. CASE i # j
      <4>1. i \in 1 .. j - 1
        BY <1>1, <3>2
      <4>2. g.nodes[i].out \in Before(g, j)
        BY <4>1 DEF Before
      <4>3. QED
        BY <2>1, <2>3, <2>5, <4>1, <4>2
    <3>3. QED
      BY <3>1, <3>2
  <2>7. \A m \in Given(g) : chains[j][m] = {0}
    <3>1. Given(g) \subseteq Before(g, j)
      BY DEF Before
    <3>2. QED
      BY <2>1, <2>3, <3>1
  <2>8. Right(j)
    BY <2>3, <2>4, <2>6, <2>7
  <2>9. j \in 0 .. N
    BY <1>1
  <2> HIDE DEF Right
  <2>10. QED
    BY <2>8, <2>9
<1>6. N \in Good
  <2> HIDE DEF Good, N
  <2>1. \A j \in 0 .. N : j \in Good
    BY <1>1, <1>4, <1>5, UpTo
  <2>2. QED
    BY <1>1, <2>1
<1>7. Right(N)
  BY <1>6
<1>8. \A n \in NodesOf(g) : chains[N][n.out] = Behind(n, counted, chains[N])
  BY <1>7, GraphFacts
<1>9. QED
  BY <1>2, <1>7, <1>8

(* So each is a number, there is one, and a node comes after its operands. *)
LEMMA ChainFacts ==
  ASSUME NEW g, IsGraph(g), CheckModel(g), NEW counted
  PROVE  LET c == Chains(g, counted)
         IN  /\ \A m \in Tensors(g) : c[m] # {} /\ c[m] \subseteq Nat
             /\ \A n \in NodesOf(g) : \A m \in ToSet(n.ins) \ {NoName} : \A l \in c[m] :
                  (IF n \in counted THEN l + 1 ELSE l) \in c[n.out]
             /\ \A n \in NodesOf(g) : n \in counted => \E l \in c[n.out] : l >= 1
<1> DEFINE c == Chains(g, counted)
           S == {m \in Tensors(g) : c[m] # {} /\ c[m] \subseteq Nat}
<1>1. /\ \A m \in Given(g) : c[m] = {0}
      /\ \A n \in NodesOf(g) : c[n.out] = Behind(n, counted, c)
  BY ChainsSolve
<1> HIDE DEF c
<1>2. ASSUME NEW n \in NodesOf(g), NEW m \in ToSet(n.ins) \ {NoName}, NEW l \in c[m]
      PROVE  (IF n \in counted THEN l + 1 ELSE l) \in c[n.out]
  BY <1>1 DEF Behind
<1>3. \A n \in NodesOf(g) : n.ins[1] \in ToSet(n.ins) \ {NoName} /\ n.ins[1] \in Tensors(g) /\ n.out \in Tensors(g)
  <2>1. \A n \in NodesOf(g) : n \in Node
    BY GraphFacts
  <2>2. QED
    BY <2>1, InOrder DEF Node
<1>4. ASSUME NEW n \in NodesOf(g), ToSet(n.ins) \subseteq S \cup {NoName} PROVE n.out \in S
  <2>1. c[n.ins[1]] # {}
    BY <1>3, <1>4
  <2>2. c[n.out] # {}
    BY <1>2, <1>3, <2>1
  <2>3. ASSUME NEW l \in UNION {c[m] : m \in ToSet(n.ins) \ {NoName}} PROVE l \in Nat /\ l + 1 \in Nat
    <3>1. l \in Nat
      BY <1>4, <2>3
    <3>2. QED
      BY <3>1
  <2>4. c[n.out] \subseteq Nat
    <3>1. SUFFICES ASSUME NEW x \in Behind(n, counted, c) PROVE x \in Nat
      BY <1>1
    <3>2. PICK l \in UNION {c[m] : m \in ToSet(n.ins) \ {NoName}} :
            x = IF n \in counted THEN l + 1 ELSE l
      BY DEF Behind
    <3>3. QED
      BY <2>3, <3>2
  <2>5. QED
    BY <1>3, <2>2, <2>4
<1>5. Given(g) \subseteq S
  BY <1>1 DEF Tensors
<1> HIDE DEF S
<1>6. Tensors(g) \subseteq S
  BY <1>4, <1>5, NodeInduction
<1>7. ASSUME NEW n \in NodesOf(g), n \in counted PROVE \E l \in c[n.out] : l >= 1
  <2>1. n.ins[1] \in S
    BY <1>3, <1>6
  <2>2. PICK l \in c[n.ins[1]] : l \in Nat
    BY <2>1 DEF S
  <2>3. l + 1 \in c[n.out]
    BY <1>2, <1>3, <1>7
  <2>4. l + 1 >= 1
    BY <2>2
  <2>5. QED
    BY <2>3, <2>4
<1>8. QED
  BY <1>2, <1>6, <1>7 DEF S, c

-----------------------------------------------------------------------------
(* No size is computed when the graph runs                                 *)

(* None of the exceptions of StaticUnless.                                 *)
Bakeable(w, height, width) ==
  /\ WithinRounds(w, Dynamic(w)) /\ WithinRounds(w, Computing(w))
  /\ \A n \in Dynamic(w) : n.ins[1] \in Pictures(w, height, width) /\ ~LooksFrozen(n)
  /\ SizesForFactors(w)

(* What freezing has made of the node m.                                   *)
InPlace(n, m, g) ==
  /\ n.out = m.out /\ n.ins[1] = m.ins[1]
  /\ ~Enlarges(m.op) => n = m
  /\ Enlarges(m.op) =>
       /\ Enlarges(n.op)
       /\ \/ n \in {m, AsResize(m)}
          \/ Last(n.ins) \in DOMAIN g.inits /\ ToSet(n.ins) \subseteq {m.ins[1], NoName, Last(n.ins)}

(* The graph g is w with another size of image, node by node.              *)
Lined(g, w, height, width) ==
  /\ Declared(g) = Declared(Retargeted(w, height, width))
  /\ Len(g.nodes) = Len(w.nodes)
  /\ DOMAIN w.inits \subseteq DOMAIN g.inits
  /\ \A j \in 1 .. Len(w.nodes) : InPlace(g.nodes[j], w.nodes[j], g)

(* On some way to this tensor there are more than d of the Resizes that    *)
(* are to be frozen;                                                       *)
Farther(w, t, d) == \E l \in Chains(w, Dynamic(w))[t] : l > d

(* and so it is behind each that was not, after d rounds.                  *)
Waiting(g, w, d) == \A n \in Dynamic(g) : Farther(w, n.out, d)

LEMMA FartherBehind ==
  ASSUME NEW w, IsGraph(w), CheckModel(w), NEW d \in Nat,
         NEW n \in NodesOf(w), Farther(w, n.ins[1], d)
  PROVE  Farther(w, n.out, d) /\ (n \in Dynamic(w) => Farther(w, n.out, d + 1))
<1> DEFINE c == Chains(w, Dynamic(w))
<1>1. PICK l \in c[n.ins[1]] : l > d
  BY DEF Farther
<1>2. n.ins[1] \in ToSet(n.ins) \ {NoName} /\ n.ins[1] \in Tensors(w)
  <2>1. n \in Node
    BY GraphFacts
  <2>2. QED
    BY <2>1, InOrder DEF Node
<1>3. /\ l \in Nat
      /\ (IF n \in Dynamic(w) THEN l + 1 ELSE l) \in c[n.out]
  BY <1>1, <1>2, ChainFacts
<1> HIDE DEF c
<1>4. l + 1 > d + 1 /\ l + 1 > d
  BY <1>1, <1>3
<1>5. QED
  BY <1>1, <1>3, <1>4 DEF Farther, c

(* A picture has a known shape by then, or has to wait.                    *)
LEMMA KnownOrWaits ==
  ASSUME NEW w, IsGraph(w), CheckModel(w), NEW g, IsGraph(g), NEW height, NEW width, Lined(g, w, height, width),
         NEW d \in Nat, Waiting(g, w, d), NEW t \in Pictures(w, height, width)
  PROVE  t \in KnownShapes(g) \/ Farther(w, t, d)
<1> DEFINE N == Len(w.nodes)
           nodes == [j \in DOMAIN w.nodes |->
                       IF w.nodes[j] \in Enlarging(w) THEN [w.nodes[j] EXCEPT !.op = "Half"]
                                                      ELSE w.nodes[j]]
           r == Retargeted(w, height, width)
           p == [r EXCEPT !.nodes = nodes]
<1>1. N \in Nat /\ DOMAIN w.nodes = 1 .. N /\ Len(g.nodes) = N /\ DOMAIN g.nodes = 1 .. N
  BY GraphFacts DEF Lined
<1>2. /\ DOMAIN r = {"nodes", "ins", "outs", "inits", "opset"}
      /\ r.nodes = w.nodes /\ r.inits = w.inits
  BY DEF Retargeted, IsGraph
<1> HIDE DEF r
<1>3. p.nodes = nodes /\ p.ins = r.ins /\ p.outs = r.outs /\ p.inits = w.inits
  BY <1>2
<1>4. Pictures(w, height, width) = KnownShapes(p)
  BY <1>2 DEF Pictures, r
<1>5. Declared(p) = Declared(g)
  BY <1>3 DEF Lined, Declared, r
<1> HIDE DEF p
<1>6. /\ Len(p.nodes) = N
      /\ \A j \in 1 .. N :
           LET m == w.nodes[j]
           IN  p.nodes[j] = IF Enlarges(m.op) THEN [m EXCEPT !.op = "Half"] ELSE m
  <2>1. DOMAIN nodes = 1 .. N
    BY <1>1
  <2>2. nodes \in [1 .. N -> {nodes[j] : j \in 1 .. N}]
    BY <2>1
  <2>3. Len(nodes) = N
    <3> HIDE DEF nodes
    <3>1. QED
      BY <1>1, <2>2
  <2>4. \A j \in 1 .. N : w.nodes[j] \in Enlarging(w) <=> Enlarges(w.nodes[j].op)
    BY <1>1, GraphFacts DEF Enlarging, Enlarges
  <2>5. QED
    BY <1>1, <1>3, <2>3, <2>4
<1>7. PICK P : /\ KnownShapes(p) = P[N]
               /\ P[0] = Declared(p)
               /\ \A j \in 1 .. N : P[j] = Inferred(p, P[j - 1], j)
  BY <1>1, <1>6, ShapesRecursion
<1>8. PICK G : /\ KnownShapes(g) = G[N]
               /\ G[0] = Declared(g)
               /\ \A j \in 1 .. N : G[j] = Inferred(g, G[j - 1], j)
  BY <1>1, ShapesRecursion
<1> HIDE DEF nodes
<1> DEFINE S == {j \in 0 .. N : \A y \in P[j] : y \in G[j] \/ Farther(w, y, d)}
<1>9. 0 \in S
  BY <1>1, <1>5, <1>7, <1>8
<1>10. ASSUME NEW j \in 1 .. N, j - 1 \in S PROVE j \in S
  <2> DEFINE n == g.nodes[j]
             m == w.nodes[j]
             q == p.nodes[j]
  <2>1. /\ P[j] = IF PassesShape(q, P[j - 1], p) THEN P[j - 1] \cup {q.out} ELSE P[j - 1]
        /\ G[j] = IF PassesShape(n, G[j - 1], g) THEN G[j - 1] \cup {n.out} ELSE G[j - 1]
    BY <1>7, <1>8 DEF Inferred
  <2>2. InPlace(n, m, g) /\ m \in NodesOf(w) /\ n \in NodesOf(g) /\ m \in Node
    BY <1>1, GraphFacts DEF Lined
  <2>3. q = IF Enlarges(m.op) THEN [m EXCEPT !.op = "Half"] ELSE m
    BY <1>6
  <2>4. /\ q.out = m.out /\ q.ins = m.ins
        /\ ~Enlarges(m.op) => q = m
    BY <2>2, <2>3 DEF Node
  <2>5. \A y \in P[j - 1] : y \in G[j - 1] \/ Farther(w, y, d)
    BY <1>10
  <2> HIDE DEF n, m, q
  <2>6. ASSUME NEW y \in P[j], y \notin P[j - 1]
        PROVE  y \in G[j] \/ Farther(w, y, d)
    <3>1. y = m.out /\ PassesShape(q, P[j - 1], p)
      BY <2>1, <2>4, <2>6
    <3>2. m.ins[1] \in G[j - 1] \/ Farther(w, m.ins[1], d)
      BY <2>4, <2>5, <3>1 DEF PassesShape
    <3>3. CASE Farther(w, m.ins[1], d)
      BY <2>2, <3>1, <3>3, FartherBehind
    <3>4. CASE m.ins[1] \in G[j - 1]
      <4>1. n.ins[1] = m.ins[1] /\ n.out = m.out
        BY <2>2 DEF InPlace
      <4>2. CASE Enlarges(n.op) /\ Last(n.ins) \notin DOMAIN g.inits
        <5>1. n \in Dynamic(g)
          BY <2>2, <4>2 DEF Dynamic, Enlarging, Enlarges
        <5>2. QED
          BY <3>1, <4>1, <5>1 DEF Waiting
      <4>3. CASE Enlarges(n.op) /\ Last(n.ins) \in DOMAIN g.inits
        <5>1. PassesShape(n, G[j - 1], g)
          BY <3>4, <4>1, <4>3 DEF PassesShape, Enlarges
        <5>2. QED
          BY <2>1, <3>1, <4>1, <5>1
      <4>4. CASE ~Enlarges(n.op)
        <5>1. n = m /\ q = m
          BY <2>2, <2>4, <4>4 DEF InPlace
        <5>2. PassesShape(n, G[j - 1], g)
          BY <3>1, <3>4, <4>4, <5>1 DEF PassesShape, Enlarges
        <5>3. QED
          BY <2>1, <3>1, <4>1, <5>2
      <4>5. QED
        BY <4>2, <4>3, <4>4
    <3>5. QED
      BY <3>2, <3>3, <3>4
  <2>7. G[j - 1] \subseteq G[j]
    BY <2>1
  <2>8. QED
    BY <1>1, <2>5, <2>6, <2>7
<1>11. N \in S
  <2> HIDE DEF S, N
  <2>1. \A j \in 0 .. N : j \in S
    BY <1>1, <1>9, <1>10, UpTo
  <2>2. QED
    BY <1>1, <2>1
<1>12. QED
  BY <1>4, <1>7, <1>8, <1>11

(* What still waits is one of those that are to be frozen.                 *)
LEMMA DynamicBefore ==
  ASSUME NEW w, IsGraph(w), NEW g, IsGraph(g), NEW height, NEW width, Lined(g, w, height, width), NEW n \in Dynamic(g)
  PROVE  \E m \in Dynamic(w) :
           m \in NodesOf(w) /\ n.out = m.out /\ n.ins[1] = m.ins[1] /\ n \in {m, AsResize(m)}
<1>1. n \in NodesOf(g) /\ Enlarges(n.op) /\ Last(n.ins) \notin DOMAIN g.inits
  BY DEF Dynamic, Enlarging, Enlarges
<1>2. PICK j \in 1 .. Len(w.nodes) : n = g.nodes[j] /\ InPlace(n, w.nodes[j], g)
  BY <1>1, GraphFacts DEF Lined
<1> DEFINE m == w.nodes[j]
<1>3. m \in NodesOf(w) /\ m \in Node
  BY GraphFacts
<1> HIDE DEF m
<1>4. Enlarges(m.op) /\ n \in {m, AsResize(m)} /\ n.out = m.out /\ n.ins[1] = m.ins[1]
  BY <1>1, <1>2 DEF InPlace, m
<1>5. Last(m.ins) \notin DOMAIN w.inits
  <2>1. Last(n.ins) = Last(m.ins)
    BY <1>3, <1>4, AsResizeFacts
  <2>2. QED
    BY <1>1, <2>1 DEF Lined
<1>6. m \in Dynamic(w)
  BY <1>3, <1>4, <1>5 DEF Dynamic, Enlarging, Enlarges
<1>7. QED
  BY <1>3, <1>4, <1>6

(* Before the first round each has one Resize on its ways, itself.         *)
LEMMA FirstRound ==
  ASSUME NEW w, IsGraph(w), CheckModel(w), NEW g, IsGraph(g), NEW height, NEW width, Lined(g, w, height, width)
  PROVE  Waiting(g, w, 0)
<1>1. SUFFICES ASSUME NEW n \in Dynamic(g) PROVE Farther(w, n.out, 0)
  BY DEF Waiting
<1>2. PICK m \in Dynamic(w) : m \in NodesOf(w) /\ n.out = m.out
  BY DynamicBefore
<1>3. m.out \in Tensors(w)
  BY <1>2, InOrder
<1> DEFINE c == Chains(w, Dynamic(w))
<1>4. \E l \in c[m.out] : l >= 1
  BY <1>2, ChainFacts
<1>5. c[m.out] \subseteq Nat
  BY <1>3, ChainFacts
<1> HIDE DEF c
<1>6. \E l \in c[m.out] : l > 0
  BY <1>4, <1>5
<1>7. QED
  BY <1>2, <1>6 DEF Farther, c

(* One that a round does not freeze has one more in front of it.           *)
LEMMA NextRound ==
  ASSUME NEW w, IsGraph(w), CheckModel(w), NEW g, IsGraph(g), NEW height, NEW width, Lined(g, w, height, width),
         Bakeable(w, height, width), \A n \in NodesOf(g) : n.op # "Upsample",
         NEW d \in Nat, Waiting(g, w, d), NEW n \in Dynamic(g), n \notin Freezable(g)
  PROVE  Farther(w, n.out, d + 1)
<1>1. PICK m \in Dynamic(w) :
        m \in NodesOf(w) /\ n.out = m.out /\ n.ins[1] = m.ins[1] /\ n \in {m, AsResize(m)}
  BY DynamicBefore
<1>2. n \in NodesOf(g) /\ n.op = "Resize"
  BY DEF Dynamic, Enlarging
<1>3. m.ins[1] \in Pictures(w, height, width) /\ ~LooksFrozen(m) /\ m \in Node
  BY <1>1, GraphFacts DEF Bakeable
<1>4. ~Frozen(n)
  <2>1. SUFFICES ASSUME Frozen(n) PROVE LooksFrozen(m)
    BY <1>3
  <2>2. m.ins \in Seq(Name) /\ Len(m.ins) \in Nat
    BY <1>3 DEF Node
  <2>3. CASE n = m
    <3>1. 3 \in 2 .. Len(m.ins)
      BY <2>1, <2>2, <2>3 DEF Frozen
    <3>2. QED
      BY <2>1, <2>3, <3>1 DEF Frozen, LooksFrozen
  <2>4. CASE n # m
    <3>1. n = AsResize(m) /\ m.op = "Upsample" /\ Len(m.ins) = 2
      BY <1>1, <1>3, <2>4, AsResizeFacts DEF Node
    <3>2. n.ins = <<m.ins[1], NoName, m.ins[2]>>
      BY <3>1 DEF AsResize
    <3>3. n.ins[3] = m.ins[2] /\ 2 \in 2 .. Len(m.ins)
      BY <3>1, <3>2
    <3>4. QED
      BY <2>1, <3>3 DEF Frozen, LooksFrozen
  <2>5. QED
    BY <2>3, <2>4
<1>5. n.ins[1] \notin KnownShapes(g)
  BY <1>2, <1>4 DEF Freezable
<1>6. Farther(w, m.ins[1], d)
  BY <1>1, <1>3, <1>5, KnownOrWaits
<1>7. QED
  BY <1>1, <1>6, FartherBehind

(* When the rounds are over, or one would find nothing, none waits.        *)
LEMMA NoneWaits ==
  ASSUME NEW w, IsGraph(w), CheckModel(w), NEW g, IsGraph(g), NEW height, NEW width, Lined(g, w, height, width),
         Bakeable(w, height, width), \A n \in NodesOf(g) : n.op # "Upsample",
         NEW d \in Nat, Waiting(g, w, d), d = Rounds \/ Freezable(g) = {}
  PROVE  Dynamic(g) = {}
<1>1. SUFFICES ASSUME NEW n \in Dynamic(g) PROVE FALSE
  OBVIOUS
<1>2. Rounds \in Nat
  BY GraphToolsAssumption
<1>3. \E e \in Nat : e >= Rounds /\ Waiting(g, w, e)
  <2>1. CASE d = Rounds
    BY <1>2, <2>1
  <2>2. CASE Freezable(g) = {}
    <3> DEFINE S == {i \in 0 .. Rounds : Waiting(g, w, d + i)}
    <3>1. 0 \in S
      BY <1>2
    <3>2. ASSUME NEW i \in 1 .. Rounds, i - 1 \in S PROVE i \in S
      <4>1. d + (i - 1) \in Nat /\ (d + (i - 1)) + 1 = d + i /\ i \in 0 .. Rounds
        BY <1>2
      <4>2. Waiting(g, w, d + (i - 1))
        BY <3>2
      <4>3. \A m \in Dynamic(g) : Farther(w, m.out, d + i)
        BY <2>2, <4>1, <4>2, NextRound
      <4>4. QED
        BY <4>1, <4>3 DEF Waiting
    <3> HIDE DEF S
    <3>3. Rounds \in S
      BY <1>2, <3>1, <3>2, UpTo
    <3>4. d + Rounds \in Nat /\ d + Rounds >= Rounds
      BY <1>2
    <3>5. QED
      BY <3>3, <3>4 DEF S
  <2>3. QED
    BY <2>1, <2>2
<1>4. PICK e \in Nat : e >= Rounds /\ Waiting(g, w, e)
  BY <1>3
<1>5. PICK m \in Dynamic(w) : m \in NodesOf(w) /\ n.out = m.out
  BY DynamicBefore
<1>6. m.out \in Tensors(w)
  BY <1>5, InOrder
<1>7. PICK l \in Chains(w, Dynamic(w))[m.out] : l > e
  BY <1>4, <1>5 DEF Waiting, Farther
<1>8. l <= Rounds
  BY <1>6 DEF Bakeable, WithinRounds
<1>9. l \in Nat
  BY <1>6, ChainFacts
<1>10. QED
  BY <1>2, <1>4, <1>7, <1>8, <1>9

(* The converter and the freezing leave each node in its place.            *)
LEMMA ConvertedLined ==
  ASSUME NEW w, IsGraph(w), NEW height, NEW width, NEW g, g = ConvertVersion(Retargeted(w, height, width), 13), IsGraph(g)
  PROVE  Lined(g, w, height, width) /\ \A n \in NodesOf(g) : n.op # "Upsample"
<1> DEFINE r == Retargeted(w, height, width)
           N == Len(w.nodes)
<1>1. /\ DOMAIN r = {"nodes", "ins", "outs", "inits", "opset"}
      /\ r.nodes = w.nodes /\ r.inits = w.inits
  BY DEF Retargeted, IsGraph
<1> HIDE DEF r
<1>2. /\ g.ins = r.ins /\ g.outs = r.outs /\ g.inits = w.inits
      /\ g.nodes = [j \in DOMAIN w.nodes |-> AsResize(w.nodes[j])]
  BY <1>1 DEF ConvertVersion, AsResize, r
<1>3. N \in Nat /\ DOMAIN w.nodes = 1 .. N /\ \A j \in 1 .. N : w.nodes[j] \in Node
  BY GraphFacts
<1>4. Declared(g) = Declared(r)
  BY <1>2 DEF Declared
<1>5. Len(g.nodes) = N
  <2>1. g.nodes \in [1 .. N -> {AsResize(w.nodes[j]) : j \in 1 .. N}]
    BY <1>2, <1>3
  <2>2. QED
    BY <1>3, <2>1
<1>6. ASSUME NEW j \in 1 .. N
      PROVE  InPlace(g.nodes[j], w.nodes[j], g) /\ g.nodes[j].op # "Upsample"
  <2> DEFINE m == w.nodes[j]
  <2>1. m \in Node /\ g.nodes[j] = AsResize(m)
    BY <1>2, <1>3
  <2> HIDE DEF m
  <2>2. /\ AsResize(m).out = m.out /\ AsResize(m).ins[1] = m.ins[1] /\ AsResize(m).op # "Upsample"
        /\ Enlarges(m.op) => Enlarges(AsResize(m).op)
        /\ ~Enlarges(m.op) => AsResize(m) = m
    BY <2>1, AsResizeFacts DEF Like, Enlarges
  <2>3. QED
    BY <2>1, <2>2 DEF InPlace, m
<1>7. Lined(g, w, height, width)
  BY <1>2, <1>4, <1>5, <1>6 DEF Lined, r
<1>8. \A n \in NodesOf(g) : n.op # "Upsample"
  BY <1>5, <1>6, GraphFacts
<1>9. QED
  BY <1>7, <1>8

LEMMA FrozenLined ==
  ASSUME NEW w, IsGraph(w), NEW g, IsGraph(g), NEW height, NEW width, Lined(g, w, height, width),
         \A n \in NodesOf(g) : n.op # "Upsample",
         NEW now, now \subseteq NodesOf(g), \A n \in now : n.op = "Resize",
         NEW r, r = Freeze(g, now)
  PROVE  /\ Lined(r, w, height, width) /\ \A n \in NodesOf(r) : n.op # "Upsample"
         /\ Dynamic(r) \subseteq Dynamic(g) \ now
<1> DEFINE N == Len(w.nodes)
<1>1. /\ IsGraph(r) /\ r.ins = g.ins /\ r.outs = g.outs
      /\ NodesOf(r) = (NodesOf(g) \ now) \cup {AsFrozen(n) : n \in now}
      /\ DOMAIN r.inits = DOMAIN g.inits \cup {Scales(n) : n \in now}
  BY FreezeFacts
<1>2. r.nodes = [j \in DOMAIN g.nodes |-> IF g.nodes[j] \in now THEN AsFrozen(g.nodes[j]) ELSE g.nodes[j]]
  BY DEF Freeze, IsGraph
<1>3. N \in Nat /\ Len(g.nodes) = N /\ DOMAIN g.nodes = 1 .. N
  BY GraphFacts DEF Lined
<1>4. \A n \in now :
        /\ AsFrozen(n).op = "Resize" /\ AsFrozen(n).out = n.out /\ AsFrozen(n).ins[1] = n.ins[1]
        /\ ToSet(AsFrozen(n).ins) = {n.ins[1], NoName, Scales(n)}
        /\ Last(AsFrozen(n).ins) = Scales(n)
  BY GraphFacts, AsFrozenLike DEF Like
<1>5. Len(r.nodes) = N
  <2>1. r.nodes \in [1 .. N -> {r.nodes[j] : j \in 1 .. N}]
    BY <1>2, <1>3
  <2>2. QED
    BY <1>3, <2>1
<1>6. ASSUME NEW j \in 1 .. N PROVE InPlace(r.nodes[j], w.nodes[j], r)
  <2> DEFINE m == w.nodes[j]
             n == g.nodes[j]
  <2>1. InPlace(n, m, g) /\ r.nodes[j] = IF n \in now THEN AsFrozen(n) ELSE n
    BY <1>2, <1>3 DEF Lined
  <2> HIDE DEF m, n
  <2>2. CASE n \notin now
    BY <1>1, <2>1, <2>2 DEF InPlace, m
  <2>3. CASE n \in now
    <3>1. Enlarges(m.op)
      <4>1. Enlarges(n.op)
        BY <2>3 DEF Enlarges
      <4>2. QED
        BY <2>1, <4>1 DEF InPlace
    <3>2. Enlarges(AsFrozen(n).op) /\ n.out = m.out /\ n.ins[1] = m.ins[1]
      BY <1>4, <2>1, <2>3 DEF Enlarges, InPlace
    <3>3. Last(AsFrozen(n).ins) \in DOMAIN r.inits
      BY <1>1, <1>4, <2>3
    <3>4. InPlace(AsFrozen(n), m, r)
      BY <1>4, <2>3, <3>1, <3>2, <3>3 DEF InPlace
    <3>5. QED
      BY <2>1, <2>3, <3>4 DEF m
  <2>4. QED
    BY <2>2, <2>3
<1>7. Declared(r) = Declared(g)
  BY <1>1 DEF Declared
<1>8. Lined(r, w, height, width)
  BY <1>1, <1>5, <1>6, <1>7 DEF Lined
<1>9. \A n \in NodesOf(r) : n.op # "Upsample"
  BY <1>1, <1>4
<1>10. Dynamic(r) \subseteq Dynamic(g) \ now
  <2>1. SUFFICES ASSUME NEW n \in Dynamic(r) PROVE n \in Dynamic(g) \ now
    OBVIOUS
  <2>2. n \in NodesOf(r) /\ n.op \in {"Resize", "Upsample"} /\ Last(n.ins) \notin DOMAIN r.inits
    BY DEF Dynamic, Enlarging
  <2>3. n \in NodesOf(g) \ now
    BY <1>1, <1>4, <2>2
  <2>4. QED
    BY <1>1, <2>2, <2>3 DEF Dynamic, Enlarging
<1>11. QED
  BY <1>8, <1>9, <1>10

(* The nodes that compute sizes now serve nothing but each other.          *)
SizesOf(w) == {n.out : n \in Computing(w)}

Baked(g, w) ==
  /\ Dynamic(g) = {}
  /\ Computing(g) \subseteq Computing(w)
  /\ NamesOf(g.outs) \cap SizesOf(w) = {}
  /\ \A n \in NodesOf(g) \ Computing(g) : ToSet(n.ins) \cap SizesOf(w) = {}

LEMMA AllBaked ==
  ASSUME NEW w, IsGraph(w), CheckModel(w), NEW g, IsGraph(g), Descends(g, w),
         NEW height, NEW width, Lined(g, w, height, width), Bakeable(w, height, width), Dynamic(g) = {}
  PROVE  Baked(g, w)
<1>1. /\ NamesOf(w.outs) \cap SizesOf(w) = {}
      /\ \A n \in NodesOf(w) \ Computing(w) : \A j \in DOMAIN n.ins :
           n.ins[j] \in SizesOf(w) => n \in Enlarging(w) /\ j = Len(n.ins)
  BY DEF Bakeable, SizesForFactors, SizesOf
<1>2. NamesOf(g.outs) = NamesOf(w.outs)
  BY DEF Descends, NamesOf
<1>3. ASSUME NEW x \in SizesOf(w) PROVE x \notin DOMAIN g.inits /\ x # NoName
  <2>1. PICK n \in NodesOf(w) : x = n.out
    BY DEF SizesOf, Computing
  <2>2. x \notin Given(w) /\ x \in Tensors(w) /\ x # NoName
    BY <2>1, InOrder
  <2>3. QED
    BY <2>2 DEF Given, Descends, Added
<1>4. ASSUME NEW n \in NodesOf(g)
      PROVE  /\ n \in Computing(g) => n \in Computing(w)
             /\ n \notin Computing(g) => ToSet(n.ins) \cap SizesOf(w) = {}
  <2>1. PICK j \in 1 .. Len(w.nodes) : n = g.nodes[j] /\ InPlace(n, w.nodes[j], g)
    BY GraphFacts DEF Lined
  <2> DEFINE m == w.nodes[j]
  <2>2. m \in NodesOf(w) /\ m \in Node
    BY GraphFacts
  <2>3. InPlace(n, m, g)
    BY <2>1
  <2> HIDE DEF m
  <2>4. CASE ~Enlarges(m.op)
    <3>1. n = m
      BY <2>3, <2>4 DEF InPlace
    <3>2. n \in Computing(g) <=> n \in Computing(w)
      BY <2>2, <3>1 DEF Computing
    <3>3. n \notin Enlarging(w)
      BY <2>4, <3>1 DEF Enlarging, Enlarges
    <3>4. n \notin Computing(w) => \A i \in DOMAIN n.ins : n.ins[i] \notin SizesOf(w)
      BY <1>1, <2>2, <3>1, <3>3
    <3>5. QED
      BY <3>2, <3>4 DEF ToSet
  <2>5. CASE Enlarges(m.op)
    <3>1. m \notin Computing(w) /\ n \notin Computing(g) /\ n \in Enlarging(g)
      BY <2>3, <2>5 DEF InPlace, Computing, Enlarges, SizeOps, Enlarging
    <3>2. m.ins \in Seq(Name) /\ Len(m.ins) \in Nat /\ Len(m.ins) > 1 /\ DOMAIN m.ins = 1 .. Len(m.ins)
      BY <2>2, <2>5 DEF Node, Enlarges
    <3>3. \A i \in DOMAIN m.ins : m.ins[i] \in SizesOf(w) => m.ins[i] = Last(m.ins) /\ i = Len(m.ins)
      BY <1>1, <2>2, <3>1 DEF Last
    <3>4. m.ins[1] \notin SizesOf(w)
      BY <3>2, <3>3
    <3>5. Last(n.ins) \in DOMAIN g.inits
      BY <3>1 DEF Dynamic
    <3>6. NoName \notin SizesOf(w) /\ Last(n.ins) \notin SizesOf(w)
      BY <1>3, <3>5
    <3>7. CASE n = m
      <4>1. \A i \in DOMAIN n.ins : n.ins[i] \notin SizesOf(w)
        BY <3>3, <3>6, <3>7
      <4>2. QED
        BY <3>1, <4>1 DEF ToSet
    <3>8. CASE n = AsResize(m) /\ n # m
      <4>1. m.op = "Upsample" /\ Len(m.ins) = 2 /\ n.ins = <<m.ins[1], NoName, m.ins[2]>>
        BY <2>2, <3>8 DEF AsResize, Node
      <4>2. Last(n.ins) = m.ins[2]
        BY <2>2, <3>8, <4>1, AsResizeFacts DEF Last
      <4>3. ToSet(n.ins) \subseteq {m.ins[1], NoName, m.ins[2]}
        BY <4>1 DEF ToSet
      <4>4. QED
        BY <3>1, <3>4, <3>6, <4>2, <4>3
    <3>9. CASE ToSet(n.ins) \subseteq {m.ins[1], NoName, Last(n.ins)}
      BY <3>1, <3>4, <3>6, <3>9
    <3>10. QED
      BY <2>3, <2>5, <3>7, <3>8, <3>9 DEF InPlace
  <2>6. QED
    BY <2>4, <2>5
<1>5. Computing(g) \subseteq NodesOf(g)
  BY DEF Computing
<1>6. QED
  BY <1>1, <1>2, <1>4, <1>5 DEF Baked

(* After d rounds of pruning there are, from each such node, d more on     *)
(* some way onwards.                                                       *)
Carried(g, w, d) ==
  \A n \in Computing(g) : \A l \in Chains(w, Computing(w))[n.out] :
    \E m \in Tensors(w) : \E i \in Chains(w, Computing(w))[m] : i >= l + d

LEMMA FirstPruned ==
  ASSUME NEW w, IsGraph(w), CheckModel(w), NEW g, Baked(g, w)
  PROVE  Carried(g, w, 0)
<1> DEFINE c == Chains(w, Computing(w))
<1>1. ASSUME NEW n \in Computing(g), NEW l \in c[n.out]
      PROVE  \E m \in Tensors(w) : \E i \in c[m] : i >= l + 0
  <2>1. n.out \in Tensors(w)
    BY InOrder DEF Baked, Computing
  <2>2. l \in Nat
    BY <2>1, ChainFacts
  <2> HIDE DEF c
  <2>3. l >= l + 0
    BY <2>2
  <2>4. QED
    BY <2>1, <2>3
<1>2. QED
  BY <1>1 DEF Carried

(* A node that is not dead serves another one.                             *)
LEMMA NextPruned ==
  ASSUME NEW w, IsGraph(w), CheckModel(w), NEW g, IsGraph(g), Baked(g, w),
         NEW d \in Nat, Carried(g, w, d), NEW r, Computing(r) \subseteq Computing(g) \ Dead(g)
  PROVE  Carried(r, w, d + 1)
<1> DEFINE c == Chains(w, Computing(w))
<1>1. ASSUME NEW n \in Computing(r), NEW l \in c[n.out]
      PROVE  \E m \in Tensors(w) : \E i \in c[m] : i >= l + (d + 1)
  <2>1. n \in Computing(g) /\ n \notin Dead(g) /\ n \in Computing(w) /\ n \in NodesOf(g) /\ n \in NodesOf(w)
    BY DEF Baked, Computing
  <2>2. n.out \in SizesOf(w) /\ n.out \in Tensors(w) /\ n.out # NoName
    BY <2>1, InOrder DEF SizesOf
  <2>3. n.out \notin NamesOf(g.outs)
    BY <2>2 DEF Baked
  <2>4. n.out \in Consumed(g)
    BY <2>1, <2>3 DEF Dead
  <2>5. PICK m \in NodesOf(g) : n.out \in ToSet(m.ins)
    BY <2>4 DEF Consumed
  <2>6. m \in Computing(g) /\ m \in Computing(w) /\ m \in NodesOf(w)
    BY <2>2, <2>5 DEF Baked, Computing
  <2>7. l \in Nat /\ l + 1 \in c[m.out]
    BY <2>2, <2>5, <2>6, ChainFacts
  <2>8. PICK t \in Tensors(w) : \E i \in c[t] : i >= (l + 1) + d
    BY <2>6, <2>7 DEF Carried
  <2>9. (l + 1) + d = l + (d + 1)
    BY <2>7
  <2> HIDE DEF c
  <2>10. QED
    BY <2>8, <2>9
<1>2. QED
  BY <1>1 DEF Carried

(* When the rounds are over, or nothing is dead, all of them are gone.     *)
LEMMA NoneLeft ==
  ASSUME NEW w, IsGraph(w), CheckModel(w), NEW g, IsGraph(g), Baked(g, w),
         WithinRounds(w, Computing(w)),
         NEW d \in Nat, Carried(g, w, d), d = Rounds \/ Dead(g) = {}
  PROVE  Static(g)
<1>1. SUFFICES ASSUME NEW n \in Computing(g) PROVE FALSE
  BY DEF Static, Baked
<1>2. Rounds \in Nat
  BY GraphToolsAssumption
<1>3. \E e \in Nat : e >= Rounds /\ Carried(g, w, e)
  <2>1. CASE d = Rounds
    BY <1>2, <2>1
  <2>2. CASE Dead(g) = {}
    <3> DEFINE S == {i \in 0 .. Rounds : Carried(g, w, d + i)}
    <3>1. 0 \in S
      BY <1>2
    <3>2. ASSUME NEW i \in 1 .. Rounds, i - 1 \in S PROVE i \in S
      <4>1. d + (i - 1) \in Nat /\ (d + (i - 1)) + 1 = d + i /\ i \in 0 .. Rounds
        BY <1>2
      <4>2. Carried(g, w, d + (i - 1))
        BY <3>2
      <4>3. Carried(g, w, d + i)
        BY <2>2, <4>1, <4>2, NextPruned
      <4>4. QED
        BY <4>1, <4>3
    <3> HIDE DEF S
    <3>3. Rounds \in S
      BY <1>2, <3>1, <3>2, UpTo
    <3>4. d + Rounds \in Nat /\ d + Rounds >= Rounds
      BY <1>2
    <3>5. QED
      BY <3>3, <3>4 DEF S
  <2>3. QED
    BY <2>1, <2>2
<1>4. PICK e \in Nat : e >= Rounds /\ Carried(g, w, e)
  BY <1>3
<1> DEFINE c == Chains(w, Computing(w))
<1>5. n \in Computing(w) /\ n \in NodesOf(w) /\ n.out \in Tensors(w)
  BY InOrder DEF Baked, Computing
<1>6. PICK l \in c[n.out] : l >= 1 /\ l \in Nat
  BY <1>5, ChainFacts
<1>7. PICK t \in Tensors(w) : \E i \in c[t] : i >= l + e
  BY <1>4, <1>6 DEF Carried
<1>8. PICK i \in c[t] : i >= l + e
  BY <1>7
<1>9. i \in Nat /\ i <= Rounds
  BY ChainFacts DEF WithinRounds
<1>10. QED
  BY <1>2, <1>4, <1>6, <1>8, <1>9

-----------------------------------------------------------------------------
(* How far prepare_style is, if the graph is not one of the exceptions.    *)
StaticInv ==
  /\ StaticUnless
  /\ pc = "upgrade" => model = Retargeted(was, job.height, job.width)
  /\ pc = "freeze" =>
       /\ Lined(model, was, job.height, job.width) /\ \A n \in NodesOf(model) : n.op # "Upsample"
       /\ Bakeable(was, job.height, job.width) => Waiting(model, was, k)
  /\ pc = "prune" /\ Bakeable(was, job.height, job.width) =>
       Baked(model, was) /\ Carried(model, was, k)
  /\ Ending("prepare_style") /\ Bakeable(was, job.height, job.width) => Static(model)

LEMMA StaticFiles ==
  ASSUME StaticUnless, \A p \in Paths : files'[p] = files[p] \/ ~Whole(files'[p])
  PROVE  StaticUnless'
<1>1. Written({"prepare_style"})' \subseteq Written({"prepare_style"})
  BY DEF Written
<1>2. QED
  BY <1>1 DEF StaticUnless

LEMMA InitStatic == Init => StaticInv
<1> SUFFICES ASSUME Init PROVE StaticInv
  OBVIOUS
<1>1. ASSUME NEW p \in Paths, Whole(files[p]) PROVE files[p].job.tool = "none"
  <2>1. PICK g \in Sources : files[p] = [graph |-> g, was |-> g, job |-> NoJob]
    BY <1>1 DEF Init, Whole
  <2>2. QED
    BY <2>1 DEF NoJob
<1>2. pc = "idle"
  BY DEF Init
<1>3. StaticUnless
  BY <1>1 DEF StaticUnless, Written
<1>4. QED
  BY <1>2, <1>3 DEF StaticInv, Ending

(* Steps of the other tools, and those that end a run without a file.      *)
LEMMA OtherStatic ==
  ASSUME TypeInv, UseInv, StaticInv,
         \/ Start \/ Load \/ LoadFails \/ ConversionFails \/ PrepareModel \/ Converted
         \/ StripInput \/ StripInputFails \/ StripOutput \/ StripOutputFails \/ Stripped
         \/ WrapInput \/ WrapOutput \/ WrapFails \/ WrapEnds
         \/ CheckFails \/ Kill
  PROVE  StaticInv'
<1>1. files' = files
  BY DEF Start, Load, LoadFails, ConversionFails, PrepareModel, Converted, StripInput,
         StripInputFails, StripOutput, StripOutputFails, Stripped,
         WrapInput, WrapOutput, WrapFails, WrapEnds, CheckFails, Kill, Raise, Step
<1>2. StaticUnless'
  BY <1>1, StaticFiles DEF StaticInv
<1>3. \/ pc' \in {"idle", "load", "convert", "outputs", "wrap"} \cup Tools
      \/ pc' = "check" /\ job'.tool # "prepare_style"
  <2>1. CASE \/ Start \/ LoadFails \/ ConversionFails \/ PrepareModel \/ StripInput
             \/ StripInputFails \/ StripOutputFails \/ WrapInput \/ WrapOutput \/ WrapFails
             \/ CheckFails \/ Kill
    BY <2>1 DEF Start, LoadFails, ConversionFails, PrepareModel, StripInput, StripInputFails,
         StripOutputFails, WrapInput, WrapOutput, WrapFails, CheckFails, Kill, Raise, Gone, Step
  <2>2. CASE Load
    BY <2>2 DEF Load, TypeInv
  <2>3. CASE StripOutput
    BY <2>3 DEF StripOutput
  <2>4. CASE Converted \/ Stripped \/ WrapEnds
    <3>1. pc \in {"convert", "outputs", "wrap"} /\ pc' = "check" /\ job' = job
      BY <2>4 DEF Converted, Stripped, WrapEnds, Step
    <3>2. pc \in StageOf(job.tool) /\ job.tool \in Tools
      BY <3>1 DEF UseInv, Progress, TypeInv
    <3>3. QED
      BY <3>1, <3>2, Stages
  <2>5. QED
    BY <2>1, <2>2, <2>3, <2>4
<1>4. QED
  BY <1>2, <1>3 DEF StaticInv, Ending, Tools

LEMMA RetargetStatic ==
  ASSUME TypeInv, UseInv, StaticInv, Retarget
  PROVE  StaticInv'
<1>1. /\ model' = Retargeted(model, job.height, job.width) /\ pc = "prepare_style" /\ pc' = "upgrade"
      /\ UNCHANGED <<files, job, was>>
  BY DEF Retarget, Step
<1>2. model = was
  BY <1>1 DEF UseInv, Progress, Tools
<1>3. StaticUnless'
  BY <1>1, StaticFiles DEF StaticInv
<1>4. QED
  BY <1>1, <1>2, <1>3 DEF StaticInv, Ending

LEMMA UpgradeStatic ==
  ASSUME TypeInv, UseInv, StaticInv, Upgrade
  PROVE  StaticInv'
<1>1. /\ model' = ConvertVersion(model, 13) /\ pc = "upgrade" /\ pc' = "freeze" /\ k' = 0
      /\ UNCHANGED <<files, job, was>>
  BY DEF Upgrade, Step
<1>2. IsGraph(was) /\ CheckModel(was) /\ IsGraph(model')
  BY <1>1, ConvertNodes DEF TypeInv, TypeOK, UseInv, Progress, Usable
<1>3. model' = ConvertVersion(Retargeted(was, job.height, job.width), 13)
  BY <1>1 DEF StaticInv
<1>4. Lined(model', was, job.height, job.width) /\ \A n \in NodesOf(model') : n.op # "Upsample"
  BY <1>2, <1>3, ConvertedLined
<1>5. Waiting(model', was, 0)
  BY <1>2, <1>4, FirstRound
<1>6. StaticUnless'
  BY <1>1, StaticFiles DEF StaticInv
<1>7. QED
  BY <1>1, <1>4, <1>5, <1>6 DEF StaticInv, Ending

LEMMA FreezeStatic ==
  ASSUME TypeInv, UseInv, StaticInv, FreezeRound
  PROVE  StaticInv'
<1>1. /\ model' = Freeze(model, Freezable(model)) /\ pc = "freeze" /\ pc' = "freeze" /\ k' = k + 1
      /\ UNCHANGED <<files, job, was>>
  BY DEF FreezeRound
<1>2. /\ IsGraph(was) /\ CheckModel(was) /\ IsGraph(model) /\ k \in Nat
      /\ Lined(model, was, job.height, job.width) /\ \A n \in NodesOf(model) : n.op # "Upsample"
  BY <1>1 DEF TypeInv, TypeOK, UseInv, Progress, Usable, StaticInv
<1>3. Freezable(model) \subseteq NodesOf(model) /\ \A n \in Freezable(model) : n.op = "Resize"
  BY DEF Freezable
<1>4. /\ Lined(model', was, job.height, job.width) /\ \A n \in NodesOf(model') : n.op # "Upsample"
      /\ Dynamic(model') \subseteq Dynamic(model) \ Freezable(model)
  BY <1>1, <1>2, <1>3, FrozenLined
<1>5. ASSUME Bakeable(was, job.height, job.width) PROVE Waiting(model', was, k + 1)
  <2>1. Waiting(model, was, k)
    BY <1>1, <1>5 DEF StaticInv
  <2>2. \A n \in Dynamic(model') : Farther(was, n.out, k + 1)
    BY <1>2, <1>4, <1>5, <2>1, NextRound
  <2>3. QED
    BY <2>2 DEF Waiting
<1>6. StaticUnless'
  BY <1>1, StaticFiles DEF StaticInv
<1>7. QED
  BY <1>1, <1>4, <1>5, <1>6 DEF StaticInv, Ending

LEMMA FrozenStatic ==
  ASSUME TypeInv, UseInv, SameInv, StaticInv, FreezeEnds
  PROVE  StaticInv'
<1>1. /\ model' = model /\ pc = "freeze" /\ pc' = "prune" /\ k' = 0
      /\ UNCHANGED <<files, job, was>>
      /\ ~MoreRounds \/ Freezable(model) = {}
  BY DEF FreezeEnds, Step
<1>2. /\ IsGraph(was) /\ CheckModel(was) /\ IsGraph(model) /\ k \in Nat /\ k <= Rounds
      /\ Lined(model, was, job.height, job.width) /\ \A n \in NodesOf(model) : n.op # "Upsample"
      /\ Descends(model, was)
  BY <1>1 DEF TypeInv, TypeOK, UseInv, Progress, Usable, StaticInv, SameInv
<1>3. k = Rounds \/ Freezable(model) = {}
  <2>1. Rounds \in Nat
    BY GraphToolsAssumption
  <2>2. QED
    BY <1>1, <1>2, <2>1 DEF MoreRounds
<1>4. ASSUME Bakeable(was, job.height, job.width) PROVE Baked(model, was) /\ Carried(model, was, 0)
  <2>1. Waiting(model, was, k)
    BY <1>1, <1>4 DEF StaticInv
  <2>2. Dynamic(model) = {}
    BY <1>2, <1>3, <1>4, <2>1, NoneWaits
  <2>3. Baked(model, was)
    BY <1>2, <1>4, <2>2, AllBaked
  <2>4. QED
    BY <1>2, <2>3, FirstPruned
<1>5. StaticUnless'
  BY <1>1, StaticFiles DEF StaticInv
<1>6. QED
  BY <1>1, <1>4, <1>5 DEF StaticInv, Ending

LEMMA PruneStatic ==
  ASSUME TypeInv, UseInv, StaticInv, PruneRound
  PROVE  StaticInv'
<1>1. /\ model' = [model EXCEPT !.nodes = Kept(@, NodesOf(model) \ Dead(model))]
      /\ pc = "prune" /\ pc' = "prune" /\ k' = k + 1 /\ UNCHANGED <<files, job, was>>
  BY DEF PruneRound
<1>2. IsGraph(was) /\ CheckModel(was) /\ IsGraph(model) /\ k \in Nat
  BY <1>1 DEF TypeInv, TypeOK, UseInv, Progress, Usable
<1>3. /\ NodesOf(model') = NodesOf(model) \ Dead(model)
      /\ model'.outs = model.outs /\ model'.inits = model.inits
  BY <1>1, <1>2, TakenOut
<1>4. Computing(model') \subseteq Computing(model) \ Dead(model) /\ Dynamic(model') \subseteq Dynamic(model)
  BY <1>3 DEF Computing, Dynamic, Enlarging
<1>5. ASSUME Bakeable(was, job.height, job.width) PROVE Baked(model', was) /\ Carried(model', was, k + 1)
  <2>1. Baked(model, was) /\ Carried(model, was, k)
    BY <1>1, <1>5 DEF StaticInv
  <2>2. Carried(model', was, k + 1)
    BY <1>2, <1>4, <2>1, NextPruned
  <2>3. NodesOf(model') \ Computing(model') \subseteq NodesOf(model) \ Computing(model)
    BY <1>3 DEF Computing
  <2>4. Baked(model', was)
    BY <1>3, <1>4, <2>1, <2>3 DEF Baked
  <2>5. QED
    BY <2>2, <2>4
<1>6. StaticUnless'
  BY <1>1, StaticFiles DEF StaticInv
<1>7. QED
  BY <1>1, <1>5, <1>6 DEF StaticInv, Ending

LEMMA PrunedStatic ==
  ASSUME TypeInv, UseInv, StaticInv, PruneEnds
  PROVE  StaticInv'
<1>1. /\ model' = model /\ pc = "prune" /\ pc' = "check"
      /\ UNCHANGED <<files, job, was>>
      /\ ~MoreRounds \/ Dead(model) = {}
  BY DEF PruneEnds, Step
<1>2. IsGraph(was) /\ CheckModel(was) /\ IsGraph(model) /\ k \in Nat /\ k <= Rounds
  BY <1>1 DEF TypeInv, TypeOK, UseInv, Progress, Usable
<1>3. k = Rounds \/ Dead(model) = {}
  <2>1. Rounds \in Nat
    BY GraphToolsAssumption
  <2>2. QED
    BY <1>1, <1>2, <2>1 DEF MoreRounds
<1>4. ASSUME Bakeable(was, job.height, job.width) PROVE Static(model)
  <2>1. Baked(model, was) /\ Carried(model, was, k) /\ WithinRounds(was, Computing(was))
    BY <1>1, <1>4 DEF StaticInv, Bakeable
  <2>2. QED
    BY <1>2, <1>3, <2>1, NoneLeft
<1>5. StaticUnless'
  BY <1>1, StaticFiles DEF StaticInv
<1>6. QED
  BY <1>1, <1>4, <1>5 DEF StaticInv, Ending

LEMMA CheckedStatic ==
  ASSUME TypeInv, StaticInv, Check \/ Save
  PROVE  StaticInv'
<1>1. /\ model' = model /\ pc \in {"check", "save"} /\ pc' \in {"save", "saving"}
      /\ UNCHANGED <<job, was>>
  BY DEF Check, Save, Step
<1>2. \A p \in Paths : files'[p] = files[p] \/ ~Whole(files'[p])
  BY DEF Check, Save, Step, TypeInv, TypeOK, Whole
<1>3. StaticUnless'
  BY <1>2, StaticFiles DEF StaticInv
<1>4. QED
  BY <1>1, <1>3 DEF StaticInv, Ending

LEMMA SavedStatic ==
  ASSUME TypeInv, UseInv, StaticInv, Saved
  PROVE  StaticInv'
<1> DEFINE f == [graph |-> model, was |-> was, job |-> job]
<1>1. pc = "saving" /\ files' = [files EXCEPT ![job.dst] = f] /\ pc' = "idle"
  BY DEF Saved, Gone
<1>2. f.graph = model /\ f.was = was /\ f.job = job
  OBVIOUS
<1> HIDE DEF f
<1>3. job.tool = "prepare_style" /\ Bakeable(was, job.height, job.width) => Static(model)
  BY <1>1 DEF StaticInv, Ending
<1>4. \A p \in Paths : files'[p] = files[p] \/ files'[p] = f
  BY <1>1 DEF TypeInv, TypeOK
<1>5. \A h \in Written({"prepare_style"})' : h \in Written({"prepare_style"}) \/ h = f
  BY <1>4 DEF Written
<1>6. ASSUME NEW h \in Written({"prepare_style"})', Bakeable(h.was, h.job.height, h.job.width)
      PROVE  Static(h.graph)
  <2>1. CASE h \in Written({"prepare_style"})
    BY <1>6, <2>1 DEF StaticInv, StaticUnless, Bakeable
  <2>2. CASE h = f
    <3>1. h.job.tool = "prepare_style"
      BY DEF Written
    <3>2. QED
      BY <1>2, <1>3, <1>6, <2>2, <3>1
  <2>3. QED
    BY <1>5, <2>1, <2>2
<1>7. StaticUnless'
  BY <1>6 DEF StaticUnless, Bakeable
<1>8. QED
  BY <1>1, <1>7 DEF StaticInv, Ending

LEMMA StaticInvNext == TypeInv /\ UseInv /\ SameInv /\ StaticInv /\ [Next]_vars => StaticInv'
<1> SUFFICES ASSUME TypeInv, UseInv, SameInv, StaticInv, [Next]_vars PROVE StaticInv'
  OBVIOUS
<1>1. CASE \/ Start \/ Load \/ LoadFails \/ ConversionFails \/ PrepareModel \/ Converted
           \/ StripInput \/ StripInputFails \/ StripOutput \/ StripOutputFails \/ Stripped
           \/ WrapInput \/ WrapOutput \/ WrapFails \/ WrapEnds
           \/ CheckFails \/ Kill
  BY <1>1, OtherStatic
<1>2. CASE Retarget
  BY <1>2, RetargetStatic
<1>3. CASE Upgrade
  BY <1>3, UpgradeStatic
<1>4. CASE FreezeRound
  BY <1>4, FreezeStatic
<1>5. CASE FreezeEnds
  BY <1>5, FrozenStatic
<1>6. CASE PruneRound
  BY <1>6, PruneStatic
<1>7. CASE PruneEnds
  BY <1>7, PrunedStatic
<1>8. CASE Check \/ Save
  BY <1>8, CheckedStatic
<1>9. CASE Saved
  BY <1>9, SavedStatic
<1>10. CASE UNCHANGED vars
  BY <1>10 DEF StaticInv, Ending, StaticUnless, Written, vars
<1>11. QED
  BY <1>1, <1>2, <1>3, <1>4, <1>5, <1>6, <1>7, <1>8, <1>9, <1>10 DEF Next

(* prepare_style leaves no computed size in a graph, unless one waits for  *)
(* more Resizes than freezing has rounds, or takes more nodes to compute   *)
(* than pruning has; or a Resize is not of a picture of known channels, or *)
(* has factors with the name of frozen ones; or sizes are used for more    *)
(* than factors.  The loops that stop when a round finds nothing, or after *)
(* the last round, stop too early only then.                               *)
THEOREM SizesAreStatic == Spec => []StaticUnless
<1>1. StaticInv => StaticUnless
  BY DEF StaticInv
<1>2. QED
  BY InitTypes, TypeInvNext, InitUse, UseInvNext, InitSame, SameInvNext,
     InitStatic, StaticInvNext, <1>1, PTL DEF Spec
=============================================================================
