-------------------------- MODULE OnnxGraph_proofs --------------------------
(***************************************************************************)
(* Lemmas about OnnxGraph.  The recursive functions of that module count   *)
(* along a sequence: what holds of them is shown by induction on its       *)
(* length, a set of numbers that has 0 and with each number the next one   *)
(* being all of them.                                                      *)
(***************************************************************************)
EXTENDS OnnxGraph, WellFoundedInduction, TLAPS

LEMMA LeastOfSome ==
  ASSUME NEW S, S \subseteq Nat, S # {}
  PROVE  \E m \in S : \A n \in S : m <= n
<1> DEFINE R == OpToRel(<, Nat)
<1>1. IsWellFoundedOn(R, Nat)
  BY NatLessThanWellFounded
<1> HIDE DEF R
<1>2. PICK m \in S : \A n \in S : ~ (<<n, m>> \in R)
  BY <1>1, WFMin
<1>3. \A j, i \in Nat : j < i => <<j, i>> \in R
  BY DEF R, OpToRel
<1>4. ASSUME NEW n \in S PROVE m <= n
  <2>1. ~ (n < m)
    BY <1>2, <1>3
  <2>2. QED
    BY <2>1
<1>5. QED
  BY <1>4

(* Induction up to N.                                                      *)
LEMMA UpTo ==
  ASSUME NEW N \in Nat, NEW S, 0 \in S,
         \A j \in 1 .. N : j - 1 \in S => j \in S
  PROVE  \A j \in 0 .. N : j \in S
<1> DEFINE Missing == {j \in 0 .. N : j \notin S}
<1>1. SUFFICES ASSUME Missing # {} PROVE FALSE
  OBVIOUS
<1>2. PICK m \in Missing : \A n \in Missing : m <= n
  <2>1. Missing \subseteq Nat
    OBVIOUS
  <2>2. QED
    BY <1>1, <2>1, LeastOfSome
<1>3. m \in 1 .. N
  BY <1>2
<1>4. m - 1 \notin Missing
  BY <1>2, <1>3
<1>5. QED
  BY <1>2, <1>3, <1>4

-----------------------------------------------------------------------------
(* Kept *)

(* What Kept has found when it has looked at so many elements.             *)
IsKept(kept, s, S, n) ==
  kept = [j \in 0 .. n |->
            IF j = 0 THEN <<>>
            ELSE IF s[j] \in S THEN Append(kept[j - 1], s[j]) ELSE kept[j - 1]]

LEMMA KeptExists ==
  ASSUME NEW s, NEW S, NEW n \in Nat
  PROVE  \E kept : IsKept(kept, s, S, n)
<1> DEFINE Have == {m \in 0 .. n : \E kept : IsKept(kept, s, S, m)}
<1>1. 0 \in Have
  <2>1. IsKept([j \in 0 .. 0 |-> <<>>], s, S, 0)
    BY DEF IsKept
  <2>2. QED
    BY <2>1
<1>2. ASSUME NEW m \in 1 .. n, m - 1 \in Have PROVE m \in Have
  <2>1. PICK kept : IsKept(kept, s, S, m - 1)
    BY <1>2
  <2> DEFINE last == IF s[m] \in S THEN Append(kept[m - 1], s[m]) ELSE kept[m - 1]
             more == [j \in 0 .. m |-> IF j = m THEN last ELSE kept[j]]
  <2>2. \A j \in 0 .. m - 1 : more[j] = kept[j]
    OBVIOUS
  <2>3. more[m] = IF s[m] \in S THEN Append(more[m - 1], s[m]) ELSE more[m - 1]
    BY <2>2
  <2>4. ASSUME NEW j \in 0 .. m
        PROVE  more[j] = IF j = 0 THEN <<>>
                         ELSE IF s[j] \in S THEN Append(more[j - 1], s[j]) ELSE more[j - 1]
    <3> HIDE DEF more
    <3>1. CASE j = m
      BY <3>1, <2>3
    <3>2. CASE j # m
      <4>1. j \in 0 .. m - 1 /\ (j # 0 => j - 1 \in 0 .. m - 1)
        BY <3>2
      <4>2. QED
        BY <2>1, <2>2, <4>1 DEF IsKept
    <3>3. QED
      BY <3>1, <3>2
  <2>5. IsKept(more, s, S, m)
    BY <2>4 DEF IsKept
  <2>6. QED
    BY <2>5
<1> HIDE DEF Have
<1>3. n \in Have
  BY <1>1, <1>2, UpTo
<1>4. QED
  BY <1>3 DEF Have

LEMMA KeptRecursion ==
  ASSUME NEW s, NEW S, Len(s) \in Nat
  PROVE  \E kept :
           /\ Kept(s, S) = kept[Len(s)]
           /\ kept[0] = <<>>
           /\ \A j \in 1 .. Len(s) :
                kept[j] = IF s[j] \in S THEN Append(kept[j - 1], s[j]) ELSE kept[j - 1]
<1> DEFINE kept == CHOOSE f : IsKept(f, s, S, Len(s))
<1>1. IsKept(kept, s, S, Len(s))
  BY KeptExists
<1>2. Kept(s, S) = kept[Len(s)]
  BY DEF Kept, IsKept
<1> HIDE DEF kept
<1>3. kept[0] = <<>>
  BY <1>1 DEF IsKept
<1>4. ASSUME NEW j \in 1 .. Len(s)
      PROVE  kept[j] = IF s[j] \in S THEN Append(kept[j - 1], s[j]) ELSE kept[j - 1]
  <2>1. j \in 0 .. Len(s) /\ j # 0
    OBVIOUS
  <2>2. QED
    BY <1>1, <2>1 DEF IsKept
<1>5. QED
  BY <1>2, <1>3, <1>4

LEMMA AppendElements ==
  ASSUME NEW T, NEW s \in Seq(T), NEW x \in T
  PROVE  ToSet(Append(s, x)) = ToSet(s) \cup {x}
<1>1. /\ Len(s) \in Nat /\ DOMAIN s = 1 .. Len(s)
      /\ DOMAIN Append(s, x) = 1 .. Len(s) + 1
      /\ \A j \in 1 .. Len(s) : Append(s, x)[j] = s[j]
      /\ Append(s, x)[Len(s) + 1] = x
  OBVIOUS
<1>2. ToSet(Append(s, x)) \subseteq ToSet(s) \cup {x}
  <2>1. \A j \in 1 .. Len(s) + 1 : j \in 1 .. Len(s) \/ j = Len(s) + 1
    BY <1>1
  <2>2. QED
    BY <1>1, <2>1 DEF ToSet
<1>3. ToSet(s) \cup {x} \subseteq ToSet(Append(s, x))
  <2>1. 1 .. Len(s) \subseteq 1 .. Len(s) + 1 /\ Len(s) + 1 \in 1 .. Len(s) + 1
    BY <1>1
  <2>2. QED
    BY <1>1, <2>1 DEF ToSet
<1>4. QED
  BY <1>2, <1>3

(* The elements that are kept are those in the set.                        *)
LEMMA KeptElements ==
  ASSUME NEW T, NEW s \in Seq(T), NEW S
  PROVE  /\ Kept(s, S) \in Seq(T)
         /\ ToSet(Kept(s, S)) = ToSet(s) \cap S
<1>0. Len(s) \in Nat /\ DOMAIN s = 1 .. Len(s)
  OBVIOUS
<1>1. PICK kept :
        /\ Kept(s, S) = kept[Len(s)]
        /\ kept[0] = <<>>
        /\ \A j \in 1 .. Len(s) :
             kept[j] = IF s[j] \in S THEN Append(kept[j - 1], s[j]) ELSE kept[j - 1]
  BY <1>0, KeptRecursion
<1> DEFINE Upto(j) == {s[i] : i \in 1 .. j}
           Good == {j \in 0 .. Len(s) : kept[j] \in Seq(T) /\ ToSet(kept[j]) = Upto(j) \cap S}
<1>2. 0 \in Good
  <2>1. ToSet(<<>>) = {} /\ Upto(0) = {}
    BY DEF ToSet
  <2>2. kept[0] \in Seq(T) /\ ToSet(kept[0]) = Upto(0) \cap S
    BY <1>1, <2>1
  <2>3. 0 \in 0 .. Len(s)
    BY <1>0
  <2>4. QED
    BY <2>2, <2>3
<1>3. ASSUME NEW j \in 1 .. Len(s), j - 1 \in Good PROVE j \in Good
  <2>1. Upto(j) = Upto(j - 1) \cup {s[j]}
    OBVIOUS
  <2>2. s[j] \in T
    OBVIOUS
  <2>3. kept[j - 1] \in Seq(T) /\ ToSet(kept[j - 1]) = Upto(j - 1) \cap S
    BY <1>3
  <2>4. kept[j] \in Seq(T) /\ ToSet(kept[j]) = Upto(j) \cap S
    <3> HIDE DEF Upto, Good
    <3>1. CASE s[j] \in S
      <4>1. kept[j] = Append(kept[j - 1], s[j])
        BY <1>1, <3>1
      <4>2. ToSet(Append(kept[j - 1], s[j])) = ToSet(kept[j - 1]) \cup {s[j]}
        BY <2>2, <2>3, AppendElements
      <4>3. QED
        BY <2>1, <2>2, <2>3, <3>1, <4>1, <4>2
    <3>2. CASE s[j] \notin S
      BY <1>1, <2>1, <2>3, <3>2
    <3>3. QED
      BY <3>1, <3>2
  <2>5. j \in 0 .. Len(s)
    BY <1>0
  <2>6. QED
    BY <2>4, <2>5
<1>4. Len(s) \in Good
  <2> HIDE DEF Good
  <2>1. \A j \in 0 .. Len(s) : j \in Good
    BY <1>0, <1>2, <1>3, UpTo
  <2>2. QED
    BY <1>0, <2>1
<1>5. Upto(Len(s)) = ToSet(s)
  BY DEF ToSet
<1>6. QED
  BY <1>1, <1>4, <1>5

-----------------------------------------------------------------------------
(* Run *)

(* What a node is given when so much is known.                             *)
Operands(n, env) ==
  [j \in DOMAIN n.ins |-> IF n.ins[j] = NoName THEN Nothing ELSE env[n.ins[j]]]

(* A run past one more node, and past so many.                             *)
Past(g, e, j) ==
  [m \in DOMAIN e \cup {g.nodes[j].out} |->
     IF m = g.nodes[j].out THEN Apply(g.nodes[j].op, Operands(g.nodes[j], e)) ELSE e[m]]

IsEnv(env, g, inputs, n) ==
  env = [j \in 0 .. n |-> IF j = 0 THEN Feed(g, inputs) ELSE Past(g, env[j - 1], j)]

LEMMA EnvExists ==
  ASSUME NEW g, NEW inputs, NEW n \in Nat
  PROVE  \E env : IsEnv(env, g, inputs, n)
<1> DEFINE Have == {m \in 0 .. n : \E env : IsEnv(env, g, inputs, m)}
<1>1. 0 \in Have
  <2>1. IsEnv([j \in 0 .. 0 |-> Feed(g, inputs)], g, inputs, 0)
    BY DEF IsEnv
  <2>2. QED
    BY <2>1
<1>2. ASSUME NEW m \in 1 .. n, m - 1 \in Have PROVE m \in Have
  <2>1. PICK env : IsEnv(env, g, inputs, m - 1)
    BY <1>2
  <2> DEFINE more == [j \in 0 .. m |-> IF j = m THEN Past(g, env[m - 1], m) ELSE env[j]]
  <2>2. \A j \in 0 .. m - 1 : more[j] = env[j]
    OBVIOUS
  <2>3. more[m] = Past(g, more[m - 1], m)
    BY <2>2
  <2>4. ASSUME NEW j \in 0 .. m
        PROVE  more[j] = IF j = 0 THEN Feed(g, inputs) ELSE Past(g, more[j - 1], j)
    <3> HIDE DEF more
    <3>1. CASE j = m
      BY <3>1, <2>3
    <3>2. CASE j # m
      <4>1. j \in 0 .. m - 1 /\ (j # 0 => j - 1 \in 0 .. m - 1)
        BY <3>2
      <4>2. QED
        BY <2>1, <2>2, <4>1 DEF IsEnv
    <3>3. QED
      BY <3>1, <3>2
  <2>5. IsEnv(more, g, inputs, m)
    BY <2>4 DEF IsEnv
  <2>6. QED
    BY <2>5
<1> HIDE DEF Have
<1>3. n \in Have
  BY <1>1, <1>2, UpTo
<1>4. QED
  BY <1>3 DEF Have

LEMMA RunRecursion ==
  ASSUME NEW g, NEW inputs, Len(g.nodes) \in Nat
  PROVE  \E env :
           /\ Run(g, inputs) = env[Len(g.nodes)]
           /\ env[0] = Feed(g, inputs)
           /\ \A j \in 1 .. Len(g.nodes) : env[j] = Past(g, env[j - 1], j)
<1> DEFINE env == CHOOSE f : IsEnv(f, g, inputs, Len(g.nodes))
<1>1. IsEnv(env, g, inputs, Len(g.nodes))
  BY EnvExists
<1>2. Run(g, inputs) = env[Len(g.nodes)]
  BY DEF Run, IsEnv, Past, Operands
<1> HIDE DEF env
<1>3. env[0] = Feed(g, inputs)
  BY <1>1 DEF IsEnv
<1>4. ASSUME NEW j \in 1 .. Len(g.nodes)
      PROVE  env[j] = Past(g, env[j - 1], j)
  <2>1. j \in 0 .. Len(g.nodes) /\ j # 0
    OBVIOUS
  <2>2. QED
    BY <1>1, <2>1 DEF IsEnv
<1>5. QED
  BY <1>2, <1>3, <1>4

-----------------------------------------------------------------------------
(* Graphs that are in order *)

LEMMA GraphFacts ==
  ASSUME NEW g, IsGraph(g)
  PROVE  /\ Len(g.nodes) \in Nat /\ DOMAIN g.nodes = 1 .. Len(g.nodes)
         /\ \A n \in NodesOf(g) : n \in Node
         /\ \A j \in 1 .. Len(g.nodes) : g.nodes[j] \in NodesOf(g)
         /\ \A n \in NodesOf(g) : \E j \in 1 .. Len(g.nodes) : n = g.nodes[j]
<1>1. g.nodes \in Seq(Node)
  BY DEF IsGraph
<1>2. Len(g.nodes) \in Nat /\ DOMAIN g.nodes = 1 .. Len(g.nodes)
  BY <1>1
<1>3. \A j \in 1 .. Len(g.nodes) : g.nodes[j] \in Node
  BY <1>1
<1>4. QED
  BY <1>2, <1>3 DEF NodesOf, ToSet

(* Induction over the nodes of a graph: a set of names that has what is    *)
(* given and, with its operands, the output of each node, has every tensor.*)
LEMMA NodeInduction ==
  ASSUME NEW g, IsGraph(g), CheckModel(g), NEW S, Given(g) \subseteq S,
         \A n \in NodesOf(g) : ToSet(n.ins) \subseteq S \cup {NoName} => n.out \in S
  PROVE  Tensors(g) \subseteq S
<1> DEFINE Good == {j \in 0 .. Len(g.nodes) : Before(g, j + 1) \subseteq S}
           N == Len(g.nodes)
<1>1. N \in Nat /\ DOMAIN g.nodes = 1 .. N
  BY GraphFacts
<1>2. 0 \in Good
  BY <1>1 DEF Before
<1>3. ASSUME NEW j \in 1 .. N, j - 1 \in Good PROVE j \in Good
  <2>1. Before(g, j) \subseteq S
    BY <1>1, <1>3
  <2>2. ToSet(g.nodes[j].ins) \subseteq Before(g, j) \cup {NoName}
    BY <1>1 DEF CheckModel
  <2>3. g.nodes[j].out \in S
    BY <2>1, <2>2, GraphFacts
  <2>4. Before(g, j + 1) = Before(g, j) \cup {g.nodes[j].out}
    <3>1. 1 .. (j + 1) - 1 = (1 .. j - 1) \cup {j}
      BY <1>1
    <3>2. QED
      BY <3>1 DEF Before
  <2>5. QED
    BY <1>1, <2>1, <2>3, <2>4
<1>4. N \in Good
  <2> HIDE DEF Good, N
  <2>1. \A j \in 0 .. N : j \in Good
    BY <1>1, <1>2, <1>3, UpTo
  <2>2. QED
    BY <1>1, <2>1
<1>5. Before(g, N + 1) = Tensors(g)
  <2>1. 1 .. (N + 1) - 1 = 1 .. N
    BY <1>1
  <2>2. Produced(g) = {g.nodes[j].out : j \in 1 .. N}
    BY <1>1, GraphFacts DEF Produced
  <2>3. QED
    BY <2>1, <2>2 DEF Before, Tensors
<1>6. QED
  BY <1>4, <1>5

-----------------------------------------------------------------------------
(* What a graph computes, without an order: the values that are fed, and   *)
(* behind each node what its operator makes of its operands.               *)
Solves(g, inputs, e) ==
  /\ \A m \in Given(g) : e[m] = Feed(g, inputs)[m]
  /\ \A n \in NodesOf(g) : e[n.out] = Apply(n.op, Operands(n, e))

LEMMA OperandsAgree ==
  ASSUME NEW n \in Node, NEW e1, NEW e2,
         \A m \in ToSet(n.ins) \ {NoName} : e1[m] = e2[m]
  PROVE  Operands(n, e1) = Operands(n, e2)
<1>1. \A j \in DOMAIN n.ins : n.ins[j] \in ToSet(n.ins)
  BY DEF ToSet
<1>2. QED
  BY <1>1 DEF Operands

(* What a caller feeds a graph: those of its inputs that are not weights.  *)
Feeds(inputs, g) == DOMAIN inputs = NamesOf(g.ins) \ DOMAIN g.inits

(* A run solves a graph that is in order,                                  *)
LEMMA RunSolves ==
  ASSUME NEW g, IsGraph(g), CheckModel(g), NEW inputs, Feeds(inputs, g)
  PROVE  Solves(g, inputs, Run(g, inputs))
<1> DEFINE N == Len(g.nodes)
<1>1. N \in Nat /\ DOMAIN g.nodes = 1 .. N
  BY GraphFacts
<1>2. PICK env :
        /\ Run(g, inputs) = env[N]
        /\ env[0] = Feed(g, inputs)
        /\ \A j \in 1 .. N : env[j] = Past(g, env[j - 1], j)
  BY <1>1, RunRecursion
<1>3. DOMAIN Feed(g, inputs) = Given(g)
  BY DEF Feed, Given, Feeds
<1> DEFINE Right(j) ==
             /\ DOMAIN env[j] = Before(g, j + 1)
             /\ \A m \in Given(g) : env[j][m] = Feed(g, inputs)[m]
             /\ \A i \in 1 .. j :
                  env[j][g.nodes[i].out] = Apply(g.nodes[i].op, Operands(g.nodes[i], env[j]))
           Good == {j \in 0 .. N : Right(j)}
<1>4. 0 \in Good
  <2>1. Right(0)
    <3>1. Before(g, 0 + 1) = Given(g)
      BY DEF Before
    <3>2. QED
      BY <1>2, <1>3, <3>1
  <2>2. 0 \in 0 .. N
    BY <1>1
  <2> HIDE DEF Right
  <2>3. QED
    BY <2>1, <2>2
<1>5. ASSUME NEW j \in 1 .. N, j - 1 \in Good PROVE j \in Good
  <2> DEFINE n == g.nodes[j]
             e == env[j - 1]
  <2>1. /\ DOMAIN e = Before(g, j)
        /\ \A m \in Given(g) : e[m] = Feed(g, inputs)[m]
        /\ \A i \in 1 .. j - 1 :
             e[g.nodes[i].out] = Apply(g.nodes[i].op, Operands(g.nodes[i], e))
    <3>1. Right(j - 1) /\ (j - 1) + 1 = j
      BY <1>1, <1>5
    <3>2. QED
      BY <3>1
  <2>2. n.out \notin Before(g, j) /\ \A i \in 1 .. N : g.nodes[i] \in Node
    BY <1>1, GraphFacts DEF CheckModel
  <2>3. /\ DOMAIN env[j] = Before(g, j) \cup {n.out}
        /\ env[j][n.out] = Apply(n.op, Operands(n, e))
        /\ \A m \in Before(g, j) : env[j][m] = e[m]
    <3>1. env[j] = Past(g, e, j)
      BY <1>2
    <3>2. QED
      BY <2>1, <2>2, <3>1 DEF Past
  <2>4. Before(g, j + 1) = Before(g, j) \cup {n.out}
    <3>1. 1 .. (j + 1) - 1 = (1 .. j - 1) \cup {j}
      BY <1>1
    <3>2. QED
      BY <3>1 DEF Before
  <2>5. ASSUME NEW i \in 1 .. j
        PROVE  Operands(g.nodes[i], env[j]) = Operands(g.nodes[i], e)
    <3>1. i \in 1 .. N /\ 1 .. i - 1 \subseteq 1 .. j - 1
      BY <1>1
    <3>2. ToSet(g.nodes[i].ins) \subseteq Before(g, i) \cup {NoName}
      BY <1>1, <3>1 DEF CheckModel
    <3>3. Before(g, i) \subseteq Before(g, j)
      BY <3>1 DEF Before
    <3>4. \A m \in ToSet(g.nodes[i].ins) \ {NoName} : env[j][m] = e[m]
      BY <2>3, <3>2, <3>3
    <3> HIDE DEF e
    <3>5. QED
      BY <2>2, <3>1, <3>4, OperandsAgree
  <2> HIDE DEF e
  <2>6. ASSUME NEW i \in 1 .. j
        PROVE  env[j][g.nodes[i].out] = Apply(g.nodes[i].op, Operands(g.nodes[i], env[j]))
    <3>1. CASE i = j
      BY <2>3, <2>5, <3>1
    <3>2. CASE i # j
      <4>1. i \in 1 .. j - 1
        BY <1>1, <3>2
      <4>2. g.nodes[i].out \in Before(g, j)
        BY <4>1 DEF Before
      <4>3. QED
        BY <2>1, <2>3, <2>5, <4>1, <4>2
    <3>3. QED
      BY <3>1, <3>2
  <2>7. \A m \in Given(g) : env[j][m] = Feed(g, inputs)[m]
    <3>1. Given(g) \subseteq Before(g, j)
      BY DEF Before
    <3>2. QED
      BY <2>1, <2>3, <3>1
  <2>8. Right(j)
    BY <2>3, <2>4, <2>6, <2>7
  <2>9. j \in 0 .. N
    BY <1>1
  <2> HIDE DEF Right
  <2>10. QED
    BY <2>8, <2>9
<1>6. N \in Good
  <2> HIDE DEF Good, N
  <2>1. \A j \in 0 .. N : j \in Good
    BY <1>1, <1>4, <1>5, UpTo
  <2>2. QED
    BY <1>1, <2>1
<1>7. Right(N)
  BY <1>6
<1>8. \A n \in NodesOf(g) : env[N][n.out] = Apply(n.op, Operands(n, env[N]))
  BY <1>7, GraphFacts
<1>9. QED
  BY <1>2, <1>7, <1>8 DEF Solves

(* and nothing else does.                                                  *)
LEMMA SolutionUnique ==
  ASSUME NEW g, IsGraph(g), CheckModel(g), NEW inputs, NEW e1, NEW e2,
         Solves(g, inputs, e1), Solves(g, inputs, e2)
  PROVE  \A m \in Tensors(g) : e1[m] = e2[m]
<1> DEFINE S == {m \in Tensors(g) : e1[m] = e2[m]}
<1>1. Given(g) \subseteq S
  BY DEF Solves, Tensors
<1>2. ASSUME NEW n \in NodesOf(g), ToSet(n.ins) \subseteq S \cup {NoName}
      PROVE  n.out \in S
  <2>1. Operands(n, e1) = Operands(n, e2)
    BY <1>2, GraphFacts, OperandsAgree
  <2>2. n.out \in Tensors(g)
    BY DEF Tensors, Produced
  <2>3. QED
    BY <2>1, <2>2 DEF Solves
<1> HIDE DEF S
<1>3. Tensors(g) \subseteq S
  BY <1>1, <1>2, NodeInduction
<1>4. QED
  BY <1>3 DEF S

(* So whatever solves a graph is its run.                                  *)
LEMMA SolutionIsRun ==
  ASSUME NEW g, IsGraph(g), CheckModel(g), NEW inputs, NEW e,
         Feeds(inputs, g), Solves(g, inputs, e)
  PROVE  \A m \in Tensors(g) : Run(g, inputs)[m] = e[m]
<1> DEFINE r == Run(g, inputs)
<1>1. Solves(g, inputs, r)
  BY RunSolves
<1> HIDE DEF r
<1>2. \A m \in Tensors(g) : r[m] = e[m]
  BY <1>1, SolutionUnique
<1>3. QED
  BY <1>2 DEF r

-----------------------------------------------------------------------------
(* What a node makes of its operands                                       *)

LEMMA OperandsFacts ==
  ASSUME NEW n \in Node, NEW e
  PROVE  /\ DOMAIN Operands(n, e) = DOMAIN n.ins /\ 1 \in DOMAIN n.ins
         /\ \A j \in DOMAIN n.ins :
              /\ n.ins[j] \in ToSet(n.ins)
              /\ Operands(n, e)[j] = IF n.ins[j] = NoName THEN Nothing ELSE e[n.ins[j]]
         /\ Operands(n, e)[1] = e[n.ins[1]]
         /\ n.op \in {"Resize", "Upsample"} =>
              Last(Operands(n, e)) = e[Last(n.ins)] /\ Last(n.ins) \in ToSet(n.ins)
<1> DEFINE T == {Nothing} \cup {e[m] : m \in ToSet(n.ins)}
           o == Operands(n, e)
<1>1. /\ n.ins \in Seq(Name) /\ n.ins # <<>> /\ n.ins[1] # NoName
      /\ n.op \in {"Resize", "Upsample"} => Last(n.ins) # NoName
  BY DEF Node
<1>2. Len(n.ins) \in Nat /\ DOMAIN n.ins = 1 .. Len(n.ins) /\ 1 \in DOMAIN n.ins /\ Len(n.ins) \in DOMAIN n.ins
  BY <1>1
<1>3. /\ DOMAIN o = DOMAIN n.ins
      /\ \A j \in DOMAIN n.ins :
           /\ n.ins[j] \in ToSet(n.ins)
           /\ o[j] = IF n.ins[j] = NoName THEN Nothing ELSE e[n.ins[j]]
  BY DEF Operands, ToSet
<1>4. \A j \in DOMAIN n.ins : o[j] \in T
  BY <1>3
<1> HIDE DEF T
<1>5. o \in [1 .. Len(n.ins) -> T]
  BY <1>2, <1>3, <1>4 DEF Operands
<1> HIDE DEF o
<1>6. Len(o) = Len(n.ins)
  BY <1>2, <1>5
<1>7. Last(o) = o[Len(n.ins)] /\ Last(n.ins) = n.ins[Len(n.ins)]
  BY <1>6 DEF Last
<1>8. QED
  BY <1>1, <1>2, <1>3, <1>7 DEF o

LEMMA OperandsLength ==
  ASSUME NEW n \in Node, NEW e
  PROVE  Len(Operands(n, e)) = Len(n.ins) /\ Len(n.ins) \in Nat /\ DOMAIN n.ins = 1 .. Len(n.ins)
<1>1. n.ins \in Seq(Name)
  BY DEF Node
<1>2. Len(n.ins) \in Nat /\ DOMAIN n.ins = 1 .. Len(n.ins)
  BY <1>1
<1>3. Operands(n, e) \in [1 .. Len(n.ins) -> {Operands(n, e)[j] : j \in 1 .. Len(n.ins)}]
  BY <1>2 DEF Operands
<1> HIDE DEF Operands
<1>4. QED
  BY <1>2, <1>3

(* A Transpose,                                                            *)
LEMMA OneOperand ==
  ASSUME NEW name \in GivenName, NEW op, NEW out, NEW e
  PROVE  Operands([op |-> op, ins |-> <<name>>, out |-> out], e) = <<e[name]>>
<1>1. name # NoName
  BY DEF GivenName
<1>2. QED
  BY <1>1 DEF Operands

(* a quantisation,                                                         *)
LEMMA ApplyQuantisation ==
  ASSUME NEW op \in {"QuantizeLinear", "DequantizeLinear"}, NEW a, 1 \in DOMAIN a
  PROVE  /\ Apply(op, a).term.op = op /\ Apply(op, a).term.args[1] = a[1].term
         /\ op = "QuantizeLinear" /\ Len(a) > 2 => Apply(op, a).elem = a[3].elem
BY DEF Apply, Value, Term

(* an enlargement,                                                         *)
LEMMA ApplyResize ==
  ASSUME NEW op \in {"Resize", "Upsample"}, NEW a, 1 \in DOMAIN a
  PROVE  /\ Apply(op, a).term = Term("Resize", NoName, <<a[1].term>>, Last(a).num)
         /\ Apply(op, a).num = 0
BY DEF Apply, Value

(* and what does not compute sizes: shapes do not matter to it.            *)
LEMMA ApplyBlind ==
  ASSUME NEW op, op \notin {"Shape", "Floor"}, NEW a, NEW b, DOMAIN a = DOMAIN b, 1 \in DOMAIN a,
         op \notin {"Ratio2", "Ratio3"} =>
           (\A j \in DOMAIN a : a[j].term = b[j].term /\ a[j].num = b[j].num),
         op \in {"Resize", "Upsample"} => Last(a).num = Last(b).num
  PROVE  /\ Apply(op, a).term = Apply(op, b).term
         /\ Apply(op, a).num = Apply(op, b).num
<1>1. CASE op = "Ratio2"
  BY <1>1 DEF Apply
<1>2. CASE op = "Ratio3"
  BY <1>2 DEF Apply
<1>3. CASE op \in {"Resize", "Upsample"}
  BY <1>3, ApplyResize
<1>4. CASE op \notin {"Ratio2", "Ratio3", "Resize", "Upsample"}
  <2> DEFINE all(c) == [j \in DOMAIN c |-> c[j].term]
  <2>1. all(a) = all(b)
    BY <1>4
  <2>2. ASSUME NEW c
        PROVE  Apply(op, c).term = Term(op, NoName, all(c), 0) /\ Apply(op, c).num = 0
    BY <1>4 DEF Apply, Value
  <2> HIDE DEF all
  <2>3. QED
    BY <2>1, <2>2
<1>5. QED
  BY <1>1, <1>2, <1>3, <1>4

(* Solves, in parts.                                                       *)
Weight(g, m) == Value(Term("Initializer", m, <<>>, g.inits[m].num), g.inits[m].elem, <<>>, g.inits[m].num)

LEMMA SolvesParts ==
  ASSUME NEW g, NEW inputs, Feeds(inputs, g), NEW e
  PROVE  Solves(g, inputs, e) <=>
           /\ \A m \in DOMAIN inputs : e[m] = inputs[m]
           /\ \A m \in DOMAIN g.inits : e[m] = Weight(g, m)
           /\ \A n \in NodesOf(g) : e[n.out] = Apply(n.op, Operands(n, e))
<1>1. /\ \A m \in DOMAIN inputs : m \in Given(g) /\ Feed(g, inputs)[m] = inputs[m]
      /\ \A m \in DOMAIN g.inits : m \in Given(g) /\ Feed(g, inputs)[m] = Weight(g, m)
      /\ Given(g) = DOMAIN inputs \cup DOMAIN g.inits
  BY DEF Feed, Given, Weight, Feeds
<1>2. QED
  BY <1>1 DEF Solves

LEMMA WeightFacts ==
  ASSUME NEW g, NEW m
  PROVE  /\ Weight(g, m).elem = g.inits[m].elem /\ Weight(g, m).num = g.inits[m].num
         /\ \A h : h.inits[m] = g.inits[m] => Weight(h, m) = Weight(g, m)
BY DEF Weight, Value

LEMMA FreeFacts ==
  ASSUME NEW g, IsGraph(g), CheckModel(g)
  PROVE  /\ Feeds(Free(g), g)
         /\ \A j \in DOMAIN g.ins :
              LET v == g.ins[j]
              IN  v.name \notin DOMAIN g.inits =>
                    Free(g)[v.name] = Value(Term("Input", v.name, <<>>, 0), v.elem, v.dims, 0)
         /\ Solves(g, Free(g), RunFree(g))
<1>1. Feeds(Free(g), g)
  BY DEF Free, Feeds
<1>2. ASSUME NEW j \in DOMAIN g.ins, g.ins[j].name \notin DOMAIN g.inits
      PROVE  Free(g)[g.ins[j].name] =
               Value(Term("Input", g.ins[j].name, <<>>, 0), g.ins[j].elem, g.ins[j].dims, 0)
  <2> DEFINE w == CHOOSE v \in ToSet(g.ins) : v.name = g.ins[j].name
  <2>1. g.ins[j].name \in NamesOf(g.ins) \ DOMAIN g.inits
    BY <1>2 DEF NamesOf
  <2>2. Free(g)[g.ins[j].name] = Value(Term("Input", g.ins[j].name, <<>>, 0), w.elem, w.dims, 0)
    BY <2>1 DEF Free
  <2>3. w \in ToSet(g.ins) /\ w.name = g.ins[j].name
    BY DEF ToSet
  <2> HIDE DEF w
  <2>4. w = g.ins[j]
    BY <2>3 DEF ToSet, CheckModel
  <2>5. QED
    BY <2>2, <2>4
<1>3. Solves(g, Free(g), RunFree(g))
  BY <1>1, RunSolves DEF RunFree
<1>4. QED
  BY <1>1, <1>2, <1>3

(* What a graph starts from when its inputs are what they are called.      *)
LEMMA StartsFrom ==
  ASSUME NEW g, IsGraph(g), CheckModel(g)
  PROVE  /\ \A m \in NamesOf(g.ins) \ DOMAIN g.inits :
              RunFree(g)[m].term = Term("Input", m, <<>>, 0) /\ RunFree(g)[m].num = 0
         /\ \A m \in DOMAIN g.inits : RunFree(g)[m] = Weight(g, m)
         /\ \A n \in NodesOf(g) : RunFree(g)[n.out] = Apply(n.op, Operands(n, RunFree(g)))
<1> DEFINE r == RunFree(g)
<1>1. Solves(g, Free(g), r) /\ Feeds(Free(g), g)
  BY FreeFacts
<1> HIDE DEF r
<1>2. ASSUME NEW m \in NamesOf(g.ins) \ DOMAIN g.inits
      PROVE  r[m].term = Term("Input", m, <<>>, 0) /\ r[m].num = 0
  <2>1. r[m] = Free(g)[m]
    <3>1. m \in DOMAIN Free(g)
      BY <1>1 DEF Feeds
    <3>2. QED
      BY <1>1, <3>1, SolvesParts
  <2>2. PICK j \in DOMAIN g.ins : m = g.ins[j].name
    BY DEF NamesOf
  <2>3. Free(g)[m] = Value(Term("Input", m, <<>>, 0), g.ins[j].elem, g.ins[j].dims, 0)
    BY <2>2, FreeFacts
  <2>4. QED
    BY <2>1, <2>3 DEF Value
<1>3. \A m \in DOMAIN g.inits : r[m] = Weight(g, m)
  BY <1>1, SolvesParts
<1>4. \A n \in NodesOf(g) : r[n.out] = Apply(n.op, Operands(n, r))
  BY <1>1 DEF Solves
<1>5. QED
  BY <1>2, <1>3, <1>4 DEF r

-----------------------------------------------------------------------------
(* Types and shapes                                                        *)

Enlarges(op) == op \in {"Resize", "Upsample"}

ElemOf(op, a) ==
  CASE op \in SizeOps -> "int64"
    [] op = "DequantizeLinear" -> "float"
    [] op = "QuantizeLinear" -> (IF Len(a) > 2 THEN a[3].elem ELSE "uint8")
    [] OTHER -> a[1].elem

FactorOf(op) == IF op = "Ratio2" THEN 2 ELSE IF op = "Ratio3" THEN 3 ELSE 0

LEMMA ApplyParts ==
  ASSUME NEW op, NEW a
  PROVE  /\ Apply(op, a).elem = ElemOf(op, a)
         /\ Apply(op, a).dims = DimsOf(op, a[1].dims, IF Enlarges(op) THEN Last(a).num ELSE 0)
         /\ op \notin {"Shape", "Floor"} => Apply(op, a).num = FactorOf(op)
<1>1. CASE op \in SizeOps
  <2>1. op \in {"Shape", "Floor", "Ratio2", "Ratio3"}
    BY <1>1 DEF SizeOps
  <2>2. \E n : Apply(op, a) = Number(n) /\ (op \notin {"Shape", "Floor"} => n = FactorOf(op))
    <3>1. CASE op = "Shape"
      BY <3>1 DEF Apply
    <3>2. CASE op = "Floor"
      BY <3>2 DEF Apply
    <3>3. CASE op = "Ratio2" \/ op = "Ratio3"
      BY <3>3 DEF Apply, FactorOf
    <3>4. QED
      BY <2>1, <3>1, <3>2, <3>3
  <2>3. ElemOf(op, a) = "int64" /\ \A f : DimsOf(op, a[1].dims, f) = <<>>
    BY <1>1 DEF ElemOf, DimsOf, SizeOps
  <2>4. QED
    BY <2>2, <2>3 DEF Number, Value
<1>2. CASE Enlarges(op)
  <2> DEFINE t == Term("Resize", NoName, <<[j \in DOMAIN a |-> a[j].term][1]>>, Last(a).num)
  <2>1. Apply(op, a) = Value(t, a[1].elem, DimsOf(op, a[1].dims, Last(a).num), 0)
    BY <1>2 DEF Apply, Enlarges
  <2>2. ElemOf(op, a) = a[1].elem /\ FactorOf(op) = 0
    BY <1>2 DEF ElemOf, FactorOf, Enlarges, SizeOps
  <2>3. QED
    BY <1>2, <2>1, <2>2 DEF Value
<1>3. CASE op \notin SizeOps /\ ~Enlarges(op)
  <2>1. op \notin {"Shape", "Floor", "Ratio2", "Ratio3", "Resize", "Upsample"} /\ FactorOf(op) = 0
    BY <1>3 DEF SizeOps, Enlarges, FactorOf
  <2> DEFINE t == Term(op, NoName, [j \in DOMAIN a |-> a[j].term], 0)
  <2>2. Apply(op, a) = Value(t, ElemOf(op, a), DimsOf(op, a[1].dims, 0), 0)
    <3>1. CASE op = "QuantizeLinear"
      BY <3>1 DEF Apply, ElemOf, SizeOps
    <3>2. CASE op = "DequantizeLinear"
      BY <3>2 DEF Apply, ElemOf, SizeOps
    <3>3. CASE op \notin {"QuantizeLinear", "DequantizeLinear"}
      <4>1. ElemOf(op, a) = a[1].elem
        BY <1>3, <3>3 DEF ElemOf
      <4>2. QED
        BY <2>1, <3>3, <4>1 DEF Apply
    <3>4. QED
      BY <3>1, <3>2, <3>3
  <2>3. QED
    BY <1>3, <2>1, <2>2 DEF Value
<1>4. QED
  BY <1>1, <1>2, <1>3

(* Two runs that go the same way through the nodes of h: what differs is   *)
(* what they start from, and which constants in X stand for factors.  They *)
(* enlarge by factors in F.                                                *)
Mirrors(h, X, F, r, b) ==
  \A n \in NodesOf(h) :
    /\ n.ins[1] \notin X
    /\ (\A y \in ToSet(n.ins) \ (X \cup {NoName}) : r[y].elem = b[y].elem)
         => r[n.out].elem = b[n.out].elem
    /\ \E f \in F :
         /\ r[n.out].dims = DimsOf(n.op, r[n.ins[1]].dims, f)
         /\ b[n.out].dims = DimsOf(n.op, b[n.ins[1]].dims, f)

(* Then the types are the same,                                            *)
LEMMA SameTypes ==
  ASSUME NEW h, IsGraph(h), CheckModel(h), NEW X, NEW F, NEW r, NEW b, Mirrors(h, X, F, r, b),
         \A m \in Given(h) \ X : r[m].elem = b[m].elem
  PROVE  \A m \in Tensors(h) \ X : r[m].elem = b[m].elem
<1> DEFINE S == {m \in Tensors(h) : m \in X \/ r[m].elem = b[m].elem}
<1>1. Given(h) \subseteq S
  BY DEF Tensors
<1>2. ASSUME NEW n \in NodesOf(h), ToSet(n.ins) \subseteq S \cup {NoName}
      PROVE  n.out \in S
  <2>1. r[n.out].elem = b[n.out].elem
    BY <1>2 DEF Mirrors
  <2>2. QED
    BY <2>1 DEF Tensors, Produced
<1> HIDE DEF S
<1>3. Tensors(h) \subseteq S
  BY <1>1, <1>2, NodeInduction
<1>4. QED
  BY <1>3 DEF S

(* and the shapes, but for what was not known: z stands where there was a  *)
(* symbol, unless it says nothing.                                         *)
Fits(d, e, z) ==
  /\ DOMAIN d = DOMAIN e
  /\ \A i \in DOMAIN d :
       /\ d[i] \in Dim
       /\ d[i] = Symbol /\ z # Unset => e[i] = z
       /\ Known(d[i]) => e[i] = d[i]

LEMMA DimFacts ==
  ASSUME NEW d \in Dim, NEW f \in Nat
  PROVE  /\ Halved(d) \in Dim /\ Halved(d) # Symbol /\ (Known(Halved(d)) => Known(d))
         /\ Times(f, d) \in Dim /\ Times(f, d) # Symbol /\ (Known(Times(f, d)) => Known(d))
<1>1. d \in Int
  BY DEF Dim
<1>2. CASE Known(d)
  <2>1. d > 0
    BY <1>2 DEF Known
  <2>2. (d + 1) \div 2 \in Nat
    BY <1>1, <2>1
  <2>3. f * d \in Nat
    BY <1>1, <2>1
  <2>4. QED
    BY <1>2, <2>2, <2>3 DEF Halved, Times, Dim, Symbol, Unset
<1>3. CASE ~Known(d)
  BY <1>3 DEF Halved, Times, Dim, Symbol, Unset, Known
<1>4. QED
  BY <1>2, <1>3

LEMMA FitsStep ==
  ASSUME NEW op, NEW d, NEW e, NEW z, Fits(d, e, z), NEW f \in Nat
  PROVE  Fits(DimsOf(op, d, f), DimsOf(op, e, f), z)
<1>1. DOMAIN d = DOMAIN e
  BY DEF Fits
<1>2. \A i \in DOMAIN d : d[i] \in Dim /\ (d[i] = Symbol /\ z # Unset => e[i] = z) /\ (Known(d[i]) => e[i] = d[i])
  BY DEF Fits
<1>3. CASE op \in SizeOps
  <2>1. DimsOf(op, d, f) = <<>> /\ DimsOf(op, e, f) = <<>>
    BY <1>3 DEF DimsOf, SizeOps
  <2>2. QED
    BY <2>1 DEF Fits
<1>4. CASE op \in {"Resize", "Upsample"}
  <2>1. /\ DimsOf(op, d, f) = [i \in DOMAIN d |-> IF i > 2 THEN Times(f, d[i]) ELSE d[i]]
        /\ DimsOf(op, e, f) = [i \in DOMAIN e |-> IF i > 2 THEN Times(f, e[i]) ELSE e[i]]
    BY <1>4 DEF DimsOf, SizeOps
  <2>2. \A i \in DOMAIN d : /\ Times(f, d[i]) \in Dim /\ Times(f, d[i]) # Symbol
                            /\ Known(Times(f, d[i])) => Times(f, e[i]) = Times(f, d[i])
    BY <1>2, DimFacts
  <2>3. QED
    BY <1>1, <1>2, <2>1, <2>2 DEF Fits
<1>5. CASE op = "Half"
  <2>1. /\ DimsOf(op, d, f) = [i \in DOMAIN d |-> IF i > 2 THEN Halved(d[i]) ELSE d[i]]
        /\ DimsOf(op, e, f) = [i \in DOMAIN e |-> IF i > 2 THEN Halved(e[i]) ELSE e[i]]
    BY <1>5 DEF DimsOf, SizeOps
  <2>2. \A i \in DOMAIN d : /\ Halved(d[i]) \in Dim /\ Halved(d[i]) # Symbol
                            /\ Known(Halved(d[i])) => Halved(e[i]) = Halved(d[i])
    BY <1>2, DimFacts
  <2>3. QED
    BY <1>1, <1>2, <2>1, <2>2 DEF Fits
<1>6. CASE op = "Mean"
  <2>1. /\ DimsOf(op, d, f) = [i \in DOMAIN d \cap {1, 2} |-> d[i]]
        /\ DimsOf(op, e, f) = [i \in DOMAIN e \cap {1, 2} |-> e[i]]
    BY <1>6 DEF DimsOf, SizeOps
  <2>2. QED
    BY <1>1, <1>2, <2>1 DEF Fits
<1>7. CASE op = "ToNHWC" /\ DOMAIN d = 1 .. 4
  <2>1. /\ DimsOf(op, d, f) = <<d[1], d[3], d[4], d[2]>>
        /\ DimsOf(op, e, f) = <<e[1], e[3], e[4], e[2]>>
    BY <1>1, <1>7 DEF DimsOf, SizeOps
  <2>2. {1, 2, 3, 4} \subseteq DOMAIN d
    BY <1>7
  <2>3. QED
    BY <1>2, <2>1, <2>2 DEF Fits
<1>8. CASE op = "ToNCHW" /\ DOMAIN d = 1 .. 4
  <2>1. /\ DimsOf(op, d, f) = <<d[1], d[4], d[2], d[3]>>
        /\ DimsOf(op, e, f) = <<e[1], e[4], e[2], e[3]>>
    BY <1>1, <1>8 DEF DimsOf, SizeOps
  <2>2. {1, 2, 3, 4} \subseteq DOMAIN d
    BY <1>8
  <2>3. QED
    BY <1>2, <2>1, <2>2 DEF Fits
<1>9. CASE /\ op \notin SizeOps /\ op \notin {"Resize", "Upsample", "Half", "Mean"}
           /\ ~(op = "ToNHWC" /\ DOMAIN d = 1 .. 4) /\ ~(op = "ToNCHW" /\ DOMAIN d = 1 .. 4)
  <2>1. DimsOf(op, d, f) = d /\ DimsOf(op, e, f) = e
    BY <1>1, <1>9 DEF DimsOf
  <2>2. QED
    BY <2>1
<1>10. QED
  BY <1>3, <1>4, <1>5, <1>6, <1>7, <1>8, <1>9

LEMMA FittingShapes ==
  ASSUME NEW h, IsGraph(h), CheckModel(h), NEW X, NEW F, F \subseteq Nat, NEW r, NEW b,
         Mirrors(h, X, F, r, b), NEW z,
         \A m \in Given(h) \ X : Fits(b[m].dims, r[m].dims, z)
  PROVE  \A m \in Tensors(h) \ X : Fits(b[m].dims, r[m].dims, z)
<1> DEFINE S == {m \in Tensors(h) : m \in X \/ Fits(b[m].dims, r[m].dims, z)}
<1>1. Given(h) \subseteq S
  BY DEF Tensors
<1>2. ASSUME NEW n \in NodesOf(h), ToSet(n.ins) \subseteq S \cup {NoName}
      PROVE  n.out \in S
  <2>1. n.ins[1] \in ToSet(n.ins) /\ n.ins[1] # NoName
    <3>1. n \in Node
      BY GraphFacts
    <3>2. QED
      BY <3>1, OperandsFacts DEF Node
  <2>2. Fits(b[n.ins[1]].dims, r[n.ins[1]].dims, z)
    BY <1>2, <2>1 DEF Mirrors
  <2>3. PICK f \in F : /\ r[n.out].dims = DimsOf(n.op, r[n.ins[1]].dims, f)
                       /\ b[n.out].dims = DimsOf(n.op, b[n.ins[1]].dims, f)
    BY DEF Mirrors
  <2>4. Fits(b[n.out].dims, r[n.out].dims, z)
    BY <2>2, <2>3, FitsStep
  <2>5. QED
    BY <2>4 DEF Tensors, Produced
<1> HIDE DEF S
<1>3. Tensors(h) \subseteq S
  BY <1>1, <1>2, NodeInduction
<1>4. QED
  BY <1>3 DEF S

(* Induction along the nodes, for what is true of more tensors with each.  *)
LEMMA StepwiseInduction ==
  ASSUME NEW g, IsGraph(g), CheckModel(g), NEW S, Given(g) \subseteq S[0],
         \A j \in 1 .. Len(g.nodes) :
           /\ S[j - 1] \subseteq S[j]
           /\ ToSet(g.nodes[j].ins) \subseteq S[j - 1] \cup {NoName} => g.nodes[j].out \in S[j]
  PROVE  Tensors(g) \subseteq S[Len(g.nodes)]
<1> DEFINE N == Len(g.nodes)
           Good == {j \in 0 .. N : Before(g, j + 1) \subseteq S[j]}
<1>1. N \in Nat /\ DOMAIN g.nodes = 1 .. N
  BY GraphFacts
<1>2. 0 \in Good
  BY <1>1 DEF Before
<1>3. ASSUME NEW j \in 1 .. N, j - 1 \in Good PROVE j \in Good
  <2>1. Before(g, j) \subseteq S[j - 1]
    BY <1>1, <1>3
  <2>2. ToSet(g.nodes[j].ins) \subseteq Before(g, j) \cup {NoName}
    BY <1>1 DEF CheckModel
  <2>3. g.nodes[j].out \in S[j] /\ S[j - 1] \subseteq S[j]
    BY <2>1, <2>2
  <2>4. Before(g, j + 1) = Before(g, j) \cup {g.nodes[j].out}
    <3>1. 1 .. (j + 1) - 1 = (1 .. j - 1) \cup {j}
      BY <1>1
    <3>2. QED
      BY <3>1 DEF Before
  <2>5. QED
    BY <1>1, <2>1, <2>3, <2>4
<1>4. N \in Good
  <2> HIDE DEF Good, N
  <2>1. \A j \in 0 .. N : j \in Good
    BY <1>1, <1>2, <1>3, UpTo
  <2>2. QED
    BY <1>1, <2>1
<1>5. Before(g, N + 1) = Tensors(g)
  <2>1. 1 .. (N + 1) - 1 = 1 .. N
    BY <1>1
  <2>2. Produced(g) = {g.nodes[j].out : j \in 1 .. N}
    BY <1>1, GraphFacts DEF Produced
  <2>3. QED
    BY <2>1, <2>2 DEF Before, Tensors
<1>6. QED
  BY <1>4, <1>5

-----------------------------------------------------------------------------
(* Which shapes are known *)

(* The shapes a graph declares, and those known past one more node.        *)
Declared(g) ==
  {v.name : v \in {w \in ToSet(g.ins \o g.outs) :
     Len(w.dims) = 4 /\ \A k \in 1 .. 4 : Known(w.dims[k])}}

PassesShape(n, known, g) ==
  /\ n.ins[1] \in known
  /\ n.op # "Shape"
  /\ n.op \in {"Resize", "Upsample"} => Last(n.ins) \in DOMAIN g.inits

Inferred(g, known, j) ==
  IF PassesShape(g.nodes[j], known, g) THEN known \cup {g.nodes[j].out} ELSE known

IsInferred(shapes, g, n) ==
  shapes = [j \in 0 .. n |-> IF j = 0 THEN Declared(g) ELSE Inferred(g, shapes[j - 1], j)]

LEMMA ShapesExist ==
  ASSUME NEW g, NEW n \in Nat
  PROVE  \E shapes : IsInferred(shapes, g, n)
<1> DEFINE Have == {m \in 0 .. n : \E shapes : IsInferred(shapes, g, m)}
<1>1. 0 \in Have
  <2>1. IsInferred([j \in 0 .. 0 |-> Declared(g)], g, 0)
    BY DEF IsInferred
  <2>2. QED
    BY <2>1
<1>2. ASSUME NEW m \in 1 .. n, m - 1 \in Have PROVE m \in Have
  <2>1. PICK shapes : IsInferred(shapes, g, m - 1)
    BY <1>2
  <2> DEFINE more == [j \in 0 .. m |-> IF j = m THEN Inferred(g, shapes[m - 1], m) ELSE shapes[j]]
  <2>2. \A j \in 0 .. m - 1 : more[j] = shapes[j]
    OBVIOUS
  <2>3. more[m] = Inferred(g, more[m - 1], m)
    BY <2>2
  <2>4. ASSUME NEW j \in 0 .. m
        PROVE  more[j] = IF j = 0 THEN Declared(g) ELSE Inferred(g, more[j - 1], j)
    <3> HIDE DEF more
    <3>1. CASE j = m
      BY <3>1, <2>3
    <3>2. CASE j # m
      <4>1. j \in 0 .. m - 1 /\ (j # 0 => j - 1 \in 0 .. m - 1)
        BY <3>2
      <4>2. QED
        BY <2>1, <2>2, <4>1 DEF IsInferred
    <3>3. QED
      BY <3>1, <3>2
  <2>5. IsInferred(more, g, m)
    BY <2>4 DEF IsInferred
  <2>6. QED
    BY <2>5
<1> HIDE DEF Have
<1>3. n \in Have
  BY <1>1, <1>2, UpTo
<1>4. QED
  BY <1>3 DEF Have

LEMMA ShapesRecursion ==
  ASSUME NEW g, Len(g.nodes) \in Nat
  PROVE  \E shapes :
           /\ KnownShapes(g) = shapes[Len(g.nodes)]
           /\ shapes[0] = Declared(g)
           /\ \A j \in 1 .. Len(g.nodes) : shapes[j] = Inferred(g, shapes[j - 1], j)
<1> DEFINE shapes == CHOOSE f : IsInferred(f, g, Len(g.nodes))
<1>1. IsInferred(shapes, g, Len(g.nodes))
  BY ShapesExist
<1>2. KnownShapes(g) = shapes[Len(g.nodes)]
  BY DEF KnownShapes, IsInferred, Inferred, PassesShape, Declared
<1> HIDE DEF shapes
<1>3. shapes[0] = Declared(g)
  BY <1>1 DEF IsInferred
<1>4. ASSUME NEW j \in 1 .. Len(g.nodes)
      PROVE  shapes[j] = Inferred(g, shapes[j - 1], j)
  <2>1. j \in 0 .. Len(g.nodes) /\ j # 0
    OBVIOUS
  <2>2. QED
    BY <1>1, <2>1 DEF IsInferred
<1>5. QED
  BY <1>2, <1>3, <1>4
=============================================================================
