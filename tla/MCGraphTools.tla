---------------------------- MODULE MCGraphTools ----------------------------
(* Small graphs of the kinds the tools are run on, and of those they must  *)
(* refuse or cannot handle.                                                *)
EXTENDS GraphTools, TLC

CONSTANTS a, b

N(op, ins, out) ==
  [op |-> op, ins |-> [j \in DOMAIN ins |-> <<ins[j]>>], out |-> <<out>>]
V(name, dims) == [name |-> <<name>>, elem |-> "float", dims |-> dims]

Weight == [elem |-> "float", num |-> 0]
Zero(elem) == [elem |-> elem, num |-> 0]

G(nodes, ins, outs, inits, opset) ==
  [nodes |-> nodes, ins |-> ins, outs |-> outs, inits |-> inits, opset |-> opset]

W == <<"w">> :> Weight
Float4 == <<1, 3, 16, 16>>
Several == <<Symbol, 3, 16, 16>>

(* An upsampling by a factor computed from the size of its input.          *)
UpsampleBy(ratio, name, from, to) ==
  <<N("Shape", <<from>>, to \o "_s"), N("Floor", <<to \o "_s">>, to \o "_f"),
    N(ratio, <<to \o "_f">>, name), N("Upsample", <<from, name>>, to)>>

(* A style network: two strides, two upsamplings, the weights among the    *)
(* inputs.                                                                 *)
Style ==
  G(<<N("Half", <<"x", "w">>, "h1"), N("Half", <<"h1", "w">>, "h2")>>
      \o UpsampleBy("Ratio2", "r1", "h2", "u1")
      \o UpsampleBy("Ratio2", "r2", "u1", "u2")
      \o <<N("Conv", <<"u2", "w">>, "y")>>,
    <<V("x", Float4), V("w", <<3, 3, 1, 1>>)>>, <<V("y", Float4)>>, W, 9)

(* Four upsamplings, and four nodes to compute a factor: one more than the *)
(* rounds the instance has.                                                *)
Deep ==
  G(<<N("Half", <<"x", "w">>, "h1"), N("Half", <<"h1", "w">>, "h2"),
      N("Half", <<"h2", "w">>, "h3"), N("Half", <<"h3", "w">>, "h4")>>
      \o UpsampleBy("Ratio2", "r1", "h4", "u1")
      \o UpsampleBy("Ratio2", "r2", "u1", "u2")
      \o UpsampleBy("Ratio2", "r3", "u2", "u3")
      \o UpsampleBy("Ratio2", "r4", "u3", "y"),
    <<V("x", Float4)>>, <<V("y", Float4)>>, W, 9)
Long ==
  G(<<N("Half", <<"x", "w">>, "h"), N("Shape", <<"h">>, "s"), N("Floor", <<"s">>, "f1"),
      N("Floor", <<"f1">>, "f2"), N("Ratio2", <<"f2">>, "r"), N("Upsample", <<"h", "r">>, "y")>>,
    <<V("x", Float4)>>, <<V("y", Float4)>>, W, 9)

(* An upsampling by three; one with factors that are called _scales.       *)
Triple ==
  G(UpsampleBy("Ratio3", "r1", "x", "u1") \o <<N("Conv", <<"u1", "w">>, "y")>>,
    <<V("x", Float4)>>, <<V("y", Float4)>>, W, 9)
Named ==
  LET g == G(UpsampleBy("Ratio2", "r1", "x", "u1") \o <<N("Conv", <<"u1", "w">>, "y")>>,
             <<V("x", Float4)>>, <<V("y", Float4)>>, W, 9)
      renamed(n) == IF n = <<"r1">> THEN <<"r1", "_scales">> ELSE n
  IN  [g EXCEPT !.nodes = [j \in DOMAIN @ |->
         [@[j] EXCEPT !.out = renamed(@), !.ins = [m \in DOMAIN @ |-> renamed(@[m])]]]]

(* A factor that is an output, too.                                        *)
Shared == G(UpsampleBy("Ratio2", "r1", "x", "y") \o <<N("Identity", <<"r1">>, "t")>>,
            <<V("x", Float4)>>,
            <<V("y", <<1, 3, 32, 32>>), [V("t", <<>>) EXCEPT !.elem = "int64"]>>, W, 9)

(* A symbolic batch, as exporters write it; everything symbolic; a channel *)
(* count that is not set.                                                  *)
Batched == G(<<N("Conv", <<"x", "w">>, "y")>>, <<V("x", Several)>>, <<V("y", Several)>>, W, 17)
Open == G(<<N("Half", <<"x", "w">>, "h1")>> \o UpsampleBy("Ratio2", "r1", "h1", "y"),
          <<V("x", <<Symbol, 3, Symbol, Symbol>>)>>,
          <<V("y", <<Symbol, 3, Symbol, Symbol>>)>>, W, 9)
NoChannels == G(UpsampleBy("Ratio2", "r1", "x", "u1") \o <<N("Conv", <<"u1", "w">>, "y")>>,
                <<V("x", <<1, Unset, 16, 16>>)>>, <<V("y", <<1, Unset, 16, 16>>)>>, W, 9)

(* What the quantiser writes: two outputs, uint8 here for the second.      *)
QInits == W @@ <<"s">> :> Weight @@ <<"z">> :> Zero("int8") @@ <<"zu">> :> Zero("uint8")
Q(from, z, to) == N("QuantizeLinear", <<from, "s", z>>, to)
DQ(from, z, to) == N("DequantizeLinear", <<from, "s", z>>, to)
QdqNodes ==
  <<Q("x", "z", "xq"), DQ("xq", "z", "xd"), N("Conv", <<"xd", "w">>, "c"),
    Q("c", "z", "cq"), DQ("cq", "z", "kpn"),
    N("Sigmoid", <<"xd">>, "t"), Q("t", "zu", "tq"), DQ("tq", "zu", "temporal")>>
Qdq == G(QdqNodes, <<V("x", Float4)>>,
         <<V("kpn", Float4), V("temporal", Float4)>>, QInits, 17)

(* The same for any number of pictures.                                    *)
QdqBatched == [Qdq EXCEPT !.ins = <<V("x", Several)>>,
                          !.outs = <<V("kpn", Several), V("temporal", Several)>>]

(* What strip_io_quant must not break: another use of the input, of an     *)
(* output; two quantisers; a zero-point that is computed; an output that   *)
(* is not quantised; one of two dimensions.                                *)
InputReused == [Qdq EXCEPT !.nodes = @ \o <<N("Identity", <<"x">>, "y")>>, !.outs = SubSeq(@, 1, 1)]
OutputReused == [Qdq EXCEPT !.nodes = @ \o <<N("Identity", <<"kpn">>, "y")>>, !.outs = SubSeq(@, 1, 1)]
TwoQuantizers == [Qdq EXCEPT !.nodes = @ \o <<Q("x", "z", "x2")>>]
ComputedZero == [Qdq EXCEPT !.nodes = <<N("Identity", <<"zu">>, "zc"), Q("x", "zc", "xq")>> \o Tail(@)]
FloatOutput == [Qdq EXCEPT !.outs = <<V("kpn", Float4), V("t", Float4)>>]
Flat == [Qdq EXCEPT !.nodes = @ \o <<N("Mean", <<"temporal">>, "m")>>,
                    !.outs = <<V("kpn", Float4), V("m", <<1, 3>>)>>]

(* The name nhwc_io has for its output is taken.                           *)
Taken == G(<<N("Conv", <<"x", "w">>, "y"), [op |-> "Identity", ins |-> <<<<"y">>>>, out |-> <<"y", "_nhwc">>]>>,
           <<V("x", Float4)>>, <<V("y", Float4)>>, W, 17)

(* Two pictures of different sizes.                                        *)
Pair == G(<<N("Half", <<"h", "w">>, "y")>>, <<V("x", Float4), V("h", <<1, 3, 32, 32>>)>>,
          <<V("y", Float4)>>, W, 17)

MCSources == {Style, Deep, Long, Triple, Named, Shared, Batched, Open, NoChannels, Qdq, QdqBatched,
              InputReused, OutputReused, TwoQuantizers, ComputedZero, FloatOutput, Flat, Taken, Pair}
MCHeights == {16, 10}
MCWidths == {16, 10}
=============================================================================
