------------------------ MODULE ConversionJob_proofs ------------------------
(***************************************************************************)
(* Proofs about ConversionJob, for every set of uploads and all limits.    *)
(* Pictures: what is drawn of an SVG is tame but for what stood in CDATA   *)
(* sections, and holds no script; a tame SVG is drawn as it is; and a      *)
(* picture is delivered at a sound size.  All uploads: what is accepted,   *)
(* and refused, agrees with the hints at its format.  Texts: the limits    *)
(* refuse what exceeds them, and no cell or text is lost on the way from   *)
(* the parser through the serializer, where names can be told apart.       *)
(***************************************************************************)
EXTENDS ConversionJob, IntermediateForm_proofs

-----------------------------------------------------------------------------
(* Trees.                                                                  *)

\* The nodes that have sequences of these nodes below them.
NodesOver(lower) ==
  [t : {"text"}, literal : BOOLEAN, says : SUBSET Patterns, live : lower] \cup
  [t : {"comment"}, says : SUBSET Patterns] \cup
  [t : {"element"}, ns : STRING, local : STRING, attrs : Seq(Attribute), kids : lower]

Level(n, below) == NodesOver(IF n = 0 THEN {<<>>} ELSE Seq(below))

\* Each level of trees is built from the one below.
LEMMA Levels == \A n \in Nat : NodesUpTo[n] = Level(n, NodesUpTo[n - 1])
<1> DEFINE Good(g, n) == g = [k \in 0..n |-> Level(k, g[k - 1])]
           All(f) == f = [n \in Nat |-> Level(n, f[n - 1])]
<1>1. \A A, B : Level(0, A) = Level(0, B)
  BY DEF Level
<1>2. \A n \in Nat : \E g : Good(g, n)
  <2> DEFINE N == {n \in Nat : \E g : Good(g, n)}
  <2>1. ASSUME NEW n \in Nat, \A m \in Nat : m < n => m \in N
        PROVE  n \in N
    <3>1. CASE n = 0
      <4> DEFINE g == [k \in 0..0 |-> Level(0, {})]
      <4>1. \A k \in 0..0 : g[k] = Level(k, g[k - 1])
        BY <1>1
      <4>2. Good(g, 0)
        BY <4>1
      <4> HIDE DEF g, Good
      <4> QED BY <3>1, <4>2
    <3>2. CASE n # 0
      <4>1. n - 1 \in N
        <5>1. n - 1 \in Nat /\ n - 1 < n
          BY <3>2
        <5> HIDE DEF N
        <5> QED BY <2>1, <5>1
      <4>2. PICK g : Good(g, n - 1)
        BY <4>1
      <4> DEFINE h == [k \in 0..n |-> IF k = n THEN Level(n, g[n - 1]) ELSE g[k]]
      <4>3. \A k \in 0..n : h[k] = Level(k, h[k - 1])
        <5> SUFFICES ASSUME NEW k \in 0..n PROVE h[k] = Level(k, h[k - 1])
          OBVIOUS
        <5>1. CASE k = 0
          <6>1. h[k] = g[0] /\ 0 \in 0..(n - 1)
            BY <3>2, <5>1
          <6>2. g[0] = Level(0, g[0 - 1])
            BY <4>2, <6>1
          <6> HIDE DEF h
          <6> QED BY <1>1, <5>1, <6>1, <6>2
        <5>2. CASE k # 0 /\ k # n
          <6>1. h[k] = g[k] /\ h[k - 1] = g[k - 1] /\ k \in 0..(n - 1)
            BY <5>2
          <6> HIDE DEF h
          <6> QED BY <4>2, <6>1
        <5>3. CASE k = n
          BY <3>2, <5>3
        <5> QED BY <5>1, <5>2, <5>3
      <4>4. Good(h, n)
        BY <4>3
      <4> HIDE DEF h, Good
      <4> QED BY <4>4
    <3> QED BY <3>1, <3>2
  <2> HIDE DEF N
  <2>2. \A n \in Nat : n \in N
    BY <2>1, StrongInduction
  <2> QED BY <2>2 DEF N
<1>3. ASSUME NEW g, NEW h, NEW n \in Nat, NEW m \in Nat, Good(g, n), Good(h, m)
      PROVE  \A k \in Nat : k =< n /\ k =< m => g[k] = h[k]
  <2> DEFINE K == {k \in Nat : k =< n /\ k =< m => g[k] = h[k]}
  <2>1. ASSUME NEW k \in Nat, \A j \in Nat : j < k => j \in K
        PROVE  k \in K
    <3> SUFFICES ASSUME k =< n, k =< m PROVE g[k] = h[k]
      OBVIOUS
    <3>1. g[k] = Level(k, g[k - 1]) /\ h[k] = Level(k, h[k - 1])
      BY <1>3
    <3>2. CASE k = 0
      BY <1>1, <3>1, <3>2
    <3>3. CASE k # 0
      <4>1. k - 1 \in Nat /\ k - 1 < k /\ k - 1 =< n /\ k - 1 =< m
        BY <3>3
      <4>2. g[k - 1] = h[k - 1]
        BY <2>1, <4>1
      <4> QED BY <3>1, <4>2
    <3> QED BY <3>2, <3>3
  <2> HIDE DEF K
  <2>2. \A k \in Nat : k \in K
    BY <2>1, StrongInduction
  <2> QED BY <2>2 DEF K
<1>4. \E f : All(f)
  <2> DEFINE G == [n \in Nat |-> CHOOSE g : Good(g, n)]
             f == [n \in Nat |-> G[n][n]]
  <2>1. \A n \in Nat : Good(G[n], n)
    <3> SUFFICES ASSUME NEW n \in Nat PROVE Good(G[n], n)
      OBVIOUS
    <3>1. G[n] = CHOOSE g : Good(g, n)
      OBVIOUS
    <3>2. \E g : Good(g, n)
      BY <1>2
    <3> HIDE DEF G, Good
    <3> QED BY <3>1, <3>2
  <2> HIDE DEF G
  <2>2. \A n \in Nat : f[n] = Level(n, f[n - 1])
    <3> SUFFICES ASSUME NEW n \in Nat PROVE f[n] = Level(n, f[n - 1])
      OBVIOUS
    <3>1. f[n] = G[n][n] /\ G[n][n] = Level(n, G[n][n - 1])
      <4>1. \A g : Good(g, n) => \A k \in 0..n : g[k] = Level(k, g[k - 1])
        OBVIOUS
      <4>2. n \in 0..n /\ f[n] = G[n][n]
        OBVIOUS
      <4> HIDE DEF Good, f
      <4> QED BY <2>1, <4>1, <4>2
    <3>2. CASE n = 0
      BY <1>1, <3>1, <3>2
    <3>3. CASE n # 0
      <4>1. n - 1 \in Nat /\ n - 1 =< n /\ f[n - 1] = G[n - 1][n - 1]
        BY <3>3
      <4>2. G[n][n - 1] = G[n - 1][n - 1]
        <5> HIDE DEF Good
        <5> QED BY <1>3, <2>1, <4>1
      <4> HIDE DEF f
      <4> QED BY <3>1, <4>1, <4>2
    <3> QED BY <3>2, <3>3
  <2>3. All(f)
    BY <2>2
  <2> HIDE DEF f, All
  <2> QED BY <2>3
<1>5. NodesUpTo = CHOOSE f : All(f)
  BY DEF NodesUpTo, Level, NodesOver
<1>6. All(NodesUpTo)
  <2> HIDE DEF All
  <2> QED BY <1>4, <1>5
<1>7. \A f : All(f) => \A n \in Nat : f[n] = Level(n, f[n - 1])
  OBVIOUS
<1> HIDE DEF All
<1> QED BY <1>6, <1>7

\* A tree that is not too deep for a level is not for the higher ones.
LEMMA LevelsGrow ==
  \A m, n \in Nat : m =< n => NodesUpTo[m] \subseteq NodesUpTo[n]
<1>1. \A n \in Nat : NodesUpTo[n] \subseteq NodesUpTo[n + 1]
  <2> DEFINE N == {n \in Nat : NodesUpTo[n] \subseteq NodesUpTo[n + 1]}
  <2>1. ASSUME NEW n \in Nat, \A m \in Nat : m < n => m \in N
        PROVE  n \in N
    <3>1. /\ NodesUpTo[n] = Level(n, NodesUpTo[n - 1])
          /\ NodesUpTo[n + 1] = Level(n + 1, NodesUpTo[n])
      <4>1. n + 1 \in Nat /\ (n + 1) - 1 = n
        OBVIOUS
      <4> QED BY <4>1, Levels
    <3>2. (IF n = 0 THEN {<<>>} ELSE Seq(NodesUpTo[n - 1])) \subseteq Seq(NodesUpTo[n])
      <4>1. CASE n = 0
        <5>1. \A S : <<>> \in Seq(S)
          OBVIOUS
        <5> QED BY <4>1, <5>1
      <4>2. CASE n # 0
        <5>1. n - 1 \in Nat /\ n - 1 < n /\ (n - 1) + 1 = n
          BY <4>2
        <5>2. NodesUpTo[n - 1] \subseteq NodesUpTo[n]
          BY <2>1, <5>1
        <5> QED BY <4>2, <5>2, SeqsGrow
      <4> QED BY <4>1, <4>2
    <3>3. n + 1 # 0
      OBVIOUS
    <3>4. Level(n, NodesUpTo[n - 1]) \subseteq Level(n + 1, NodesUpTo[n])
      BY <3>2, <3>3 DEF Level, NodesOver
    <3> QED BY <3>1, <3>4
  <2> HIDE DEF N
  <2>2. \A n \in Nat : n \in N
    BY <2>1, StrongInduction
  <2> QED BY <2>2 DEF N
<1>2. ASSUME NEW m \in Nat
      PROVE  \A n \in Nat : m =< n => NodesUpTo[m] \subseteq NodesUpTo[n]
  <2> DEFINE N == {n \in Nat : m =< n => NodesUpTo[m] \subseteq NodesUpTo[n]}
  <2>1. ASSUME NEW n \in Nat, \A k \in Nat : k < n => k \in N
        PROVE  n \in N
    <3> SUFFICES ASSUME m =< n, m # n PROVE NodesUpTo[m] \subseteq NodesUpTo[n]
      OBVIOUS
    <3>1. n - 1 \in Nat /\ n - 1 < n /\ m =< n - 1 /\ (n - 1) + 1 = n
      OBVIOUS
    <3>2. NodesUpTo[m] \subseteq NodesUpTo[n - 1]
      BY <2>1, <3>1
    <3> QED BY <1>1, <3>1, <3>2
  <2> HIDE DEF N
  <2>2. \A n \in Nat : n \in N
    BY <2>1, StrongInduction
  <2> QED BY <2>2 DEF N
<1> QED BY <1>2

\* What the children of an element of a level can be.
Below(n) == IF n = 0 THEN {<<>>} ELSE Seq(NodesUpTo[n - 1])

\* What a tree of a level looks like, and that its element can get others of
\* the same kind.
LEMMA NodeShape ==
  ASSUME NEW n \in Nat, NEW node \in NodesUpTo[n]
  PROVE  /\ node.t \in {"text", "comment", "element"}
         /\ IsTextNode(node) => node.live \in Below(n)
         /\ IsElement(node) =>
              /\ node.attrs \in Seq(Attribute)
              /\ node.kids \in Below(n)
              /\ \A attrs \in Seq(Attribute), kids \in Below(n) : \A m :
                   m = WithParts(node, attrs, kids) =>
                     /\ m \in NodesUpTo[n]
                     /\ m.t = node.t /\ m.ns = node.ns /\ m.local = node.local
                     /\ m.attrs = attrs /\ m.kids = kids
                     /\ attrs = node.attrs /\ kids = node.kids => m = node
<1>1. NodesUpTo[n] = NodesOver(Below(n))
  BY Levels DEF Level, Below
<1>2. node.t \in {"text", "comment", "element"}
  BY <1>1 DEF NodesOver
<1>3. IsTextNode(node) => node.live \in Below(n)
  BY <1>1 DEF NodesOver, IsTextNode
<1>4. CASE IsElement(node)
  <2>1. node \in [t : {"element"}, ns : STRING, local : STRING, attrs : Seq(Attribute),
                  kids : Below(n)]
    BY <1>1, <1>4 DEF IsElement, NodesOver
  <2>2. node.attrs \in Seq(Attribute) /\ node.kids \in Below(n)
    BY <2>1
  <2>3. ASSUME NEW attrs \in Seq(Attribute), NEW kids \in Below(n),
               NEW m, m = WithParts(node, attrs, kids)
        PROVE  /\ m \in NodesUpTo[n]
               /\ m.t = node.t /\ m.ns = node.ns /\ m.local = node.local
               /\ m.attrs = attrs /\ m.kids = kids
               /\ attrs = node.attrs /\ kids = node.kids => m = node
    BY <1>1, <2>1, <2>3 DEF WithParts, NodesOver
  <2> QED BY <1>2, <1>3, <2>2, <2>3
<1> QED BY <1>2, <1>3, <1>4

\* A function to the first levels the trees are of.
IsDepth(depth) ==
  /\ depth \in [Node -> Nat]
  /\ \A node \in Node :
       /\ depth[node] =< MaxSvgNesting
       /\ \A n \in Nat : node \in NodesUpTo[n] <=> depth[node] =< n

Depth == CHOOSE depth : IsDepth(depth)

\* Each tree has a depth.
LEMMA Depths == IsDepth(Depth)
<1> DEFINE Fits(node)  == {n \in Nat : node \in NodesUpTo[n]}
           Least(node, d) == d \in Fits(node) /\ \A n \in Fits(node) : d =< n
           depth == [node \in Node |-> CHOOSE d \in Nat : Least(node, d)]
<1>1. \A node \in Node : MaxSvgNesting \in Fits(node)
  BY SvgAssumption DEF Node
<1>2. \A node \in Node : \E d \in Nat : Least(node, d)
  <2> SUFFICES ASSUME NEW node \in Node PROVE \E d \in Nat : Least(node, d)
    OBVIOUS
  <2>1. Fits(node) \in SUBSET Nat /\ Fits(node) # {}
    BY <1>1
  <2>2. PICK d \in Fits(node) : \A n \in Fits(node) : d =< n
    <3> HIDE DEF Fits
    <3> QED BY <2>1, FirstExists
  <2>3. d \in Nat
    BY <2>1
  <2> HIDE DEF Fits
  <2> QED BY <2>2, <2>3
<1>3. \A node \in Node : depth[node] \in Nat /\ Least(node, depth[node])
  <2> SUFFICES ASSUME NEW node \in Node PROVE depth[node] \in Nat /\ Least(node, depth[node])
    OBVIOUS
  <2>1. depth[node] = CHOOSE d \in Nat : Least(node, d)
    OBVIOUS
  <2>2. \E d \in Nat : Least(node, d)
    BY <1>2
  <2> HIDE DEF depth, Least
  <2> QED BY <2>1, <2>2
<1>4. depth \in [Node -> Nat]
  BY <1>3
<1> HIDE DEF depth
<1>5. ASSUME NEW node \in Node
      PROVE  /\ depth[node] =< MaxSvgNesting
             /\ \A n \in Nat : node \in NodesUpTo[n] <=> depth[node] =< n
  <2>1. depth[node] \in Nat /\ node \in NodesUpTo[depth[node]]
    BY <1>3
  <2>2. \A n \in Nat : node \in NodesUpTo[n] => depth[node] =< n
    BY <1>3
  <2>3. \A n \in Nat : depth[node] =< n => node \in NodesUpTo[n]
    BY <2>1, LevelsGrow
  <2> QED BY <1>1, <2>2, <2>3
<1>6. IsDepth(depth)
  BY <1>4, <1>5 DEF IsDepth
<1> QED BY <1>6 DEF Depth

\* What is below a level of trees are trees of lower depth.
LEMMA LowerTrees ==
  ASSUME NEW node \in Node, NEW lower \in Below(Depth[node])
  PROVE  /\ lower \in Seq(Node)
         /\ \A i \in DOMAIN lower : lower[i] \in Node /\ Depth[lower[i]] < Depth[node]
<1> DEFINE n == Depth[node]
<1>1. n \in Nat /\ n =< MaxSvgNesting /\ MaxSvgNesting \in Nat
  BY Depths, SvgAssumption DEF IsDepth
<1> HIDE DEF n
<1>2. lower \in Below(n)
  BY DEF n
<1>3. CASE n = 0
  <2>1. lower = <<>>
    BY <1>2, <1>3 DEF Below
  <2> QED BY <2>1
<1>4. CASE n # 0
  <2>1. n - 1 \in Nat /\ n - 1 =< MaxSvgNesting /\ \A d \in Nat : d =< n - 1 => d < n
    BY <1>1, <1>4
  <2>2. lower \in Seq(NodesUpTo[n - 1]) /\ NodesUpTo[n - 1] \subseteq Node
    BY <1>1, <1>2, <1>4, <2>1, LevelsGrow DEF Below, Node
  <2>3. lower \in Seq(Node)
    BY <2>2, SeqsGrow
  <2>4. \A i \in DOMAIN lower : lower[i] \in NodesUpTo[n - 1]
    BY <2>2
  <2>5. \A m \in NodesUpTo[n - 1] : Depth[m] \in Nat /\ Depth[m] =< n - 1
    BY <2>1, <2>2, Depths DEF IsDepth
  <2> QED BY <2>1, <2>2, <2>3, <2>4, <2>5 DEF n
<1> QED BY <1>3, <1>4

\* The children of an element are trees of lower depth, and so are the nodes
\* that a text is read as.
LEMMA KidsAreLower ==
  ASSUME NEW node \in Node, IsElement(node)
  PROVE  /\ node.attrs \in Seq(Attribute)
         /\ node.kids \in Seq(Node)
         /\ \A i \in DOMAIN node.kids :
              node.kids[i] \in Node /\ Depth[node.kids[i]] < Depth[node]
<1>1. Depth[node] \in Nat /\ node \in NodesUpTo[Depth[node]]
  BY Depths DEF IsDepth
<1>2. node.attrs \in Seq(Attribute) /\ node.kids \in Below(Depth[node])
  BY <1>1, NodeShape
<1> QED BY <1>2, LowerTrees

LEMMA LiveIsLower ==
  ASSUME NEW node \in Node, IsTextNode(node)
  PROVE  /\ node.live \in Below(Depth[node])
         /\ node.live \in Seq(Node)
         /\ \A i \in DOMAIN node.live :
              node.live[i] \in Node /\ Depth[node.live[i]] < Depth[node]
<1>1. Depth[node] \in Nat /\ node \in NodesUpTo[Depth[node]]
  BY Depths DEF IsDepth
<1>2. node.live \in Below(Depth[node])
  BY <1>1, NodeShape
<1> QED BY <1>2, LowerTrees

-----------------------------------------------------------------------------
(* Cleaning.                                                               *)

\* What is kept of the attributes are those to keep, all of them if they are.
LEMMA KeptMembers ==
  ASSUME NEW attrs \in Seq(Attribute)
  PROVE  /\ KeptAttributes(attrs) \in Seq(Attribute)
         /\ \A a : a \in ToSet(KeptAttributes(attrs))
                     <=> a \in ToSet(attrs) /\ KeepAttribute(a)
         /\ (\A a \in ToSet(attrs) : KeepAttribute(a)) => KeptAttributes(attrs) = attrs
<1> DEFINE ss == [i \in DOMAIN attrs |-> IF KeepAttribute(attrs[i]) THEN <<attrs[i]>> ELSE <<>>]
<1>1. KeptAttributes(attrs) = FlattenSeq(ss)
  BY DEF KeptAttributes
<1>2. ss \in [DOMAIN attrs -> Seq(Attribute)]
  <2>1. \A i \in DOMAIN attrs : attrs[i] \in Attribute
    OBVIOUS
  <2>2. <<>> \in Seq(Attribute) /\ \A a \in Attribute : <<a>> \in Seq(Attribute)
    OBVIOUS
  <2> QED BY <2>1, <2>2
<1>3. \A i \in DOMAIN attrs : \A a : a \in ToSet(ss[i]) <=> a = attrs[i] /\ KeepAttribute(a)
  <2>1. \A a, b : a \in ToSet(<<b>>) <=> a = b
    BY DEF ToSet
  <2>2. \A a : a \notin ToSet(<<>>)
    BY DEF ToSet
  <2> QED BY <2>1, <2>2
<1>4. ASSUME \A a \in ToSet(attrs) : KeepAttribute(a)
      PROVE  FlattenSeq(ss) = attrs
  <2>1. ss = [i \in DOMAIN attrs |-> <<attrs[i]>>]
    BY <1>4 DEF ToSet
  <2> HIDE DEF ss
  <2> QED BY <2>1, FlattenSingletons
<1> HIDE DEF ss
<1>5. /\ FlattenSeq(ss) \in Seq(Attribute)
      /\ \A x : x \in ToSet(FlattenSeq(ss)) <=> \E i \in DOMAIN attrs : x \in ToSet(ss[i])
  BY <1>2, Mapped
<1>6. \A a : a \in ToSet(attrs) <=> \E i \in DOMAIN attrs : a = attrs[i]
  BY DEF ToSet
<1> QED BY <1>1, <1>3, <1>4, <1>5, <1>6

\* What f makes of the nodes of a sequence, put together.
Over(f, nodes) == FlattenSeq([i \in DOMAIN nodes |-> f[nodes[i]]])

\* Functions from trees to trees that are no deeper.
Cleaners == {f \in [Node -> Seq(Node)] : \A x \in Node : f[x] \in Seq(NodesUpTo[Depth[x]])}

\* cleanNode and the rebuilding both go on below some elements, which get other
\* attributes, and put something in place of every other node.
IsPlan(S, attrs, leaf) ==
  /\ S \subseteq {node \in Node : IsElement(node)}
  /\ attrs \in [S -> Seq(Attribute)]
  /\ leaf \in Cleaners

Made(node, f, S, attrs, leaf) ==
  IF node \in S THEN <<WithParts(node, attrs[node], Over(f, node.kids))>> ELSE leaf[node]

\* What a cleaner makes of the nodes of a sequence.
LEMMA OverMembers ==
  ASSUME NEW nodes \in Seq(Node), NEW f \in Cleaners
  PROVE  /\ Over(f, nodes) \in Seq(Node)
         /\ \A x : x \in ToSet(Over(f, nodes)) <=> \E i \in DOMAIN nodes : x \in ToSet(f[nodes[i]])
<1> DEFINE ss == [i \in DOMAIN nodes |-> f[nodes[i]]]
<1>1. \A i \in DOMAIN nodes : nodes[i] \in Node
  OBVIOUS
<1>2. ss \in [DOMAIN nodes -> Seq(Node)]
  BY <1>1 DEF Cleaners
<1>3. Over(f, nodes) = FlattenSeq(ss) /\ \A i \in DOMAIN nodes : ss[i] = f[nodes[i]]
  BY DEF Over
<1> HIDE DEF ss
<1>4. /\ FlattenSeq(ss) \in Seq(Node)
      /\ \A x : x \in ToSet(FlattenSeq(ss)) <=> \E i \in DOMAIN nodes : x \in ToSet(ss[i])
  BY <1>2, Mapped
<1> QED BY <1>3, <1>4

\* What a cleaner makes of the children of a tree can be the children of one of
\* its depth.
LEMMA CleanedKidsFit ==
  ASSUME NEW node \in Node, IsElement(node), NEW f \in Cleaners
  PROVE  Over(f, node.kids) \in Below(Depth[node])
<1> DEFINE n == Depth[node]
           kids == [i \in DOMAIN node.kids |-> f[node.kids[i]]]
<1>1. n \in Nat /\ n =< MaxSvgNesting /\ node \in NodesUpTo[n]
  BY Depths, SvgAssumption DEF IsDepth
<1>2. /\ node.kids \in Seq(Node)
      /\ \A i \in DOMAIN node.kids : node.kids[i] \in Node /\ Depth[node.kids[i]] < n
  BY KidsAreLower
<1>3. Over(f, node.kids) = FlattenSeq(kids)
  BY DEF Over
<1>4. CASE n = 0
  <2>1. node.kids = <<>>
    <3>1. node.kids \in Below(n)
      BY <1>1, NodeShape
    <3> HIDE DEF n
    <3> QED BY <1>4, <3>1 DEF Below
  <2>2. kids \in [DOMAIN node.kids -> Seq({})]
    BY <2>1
  <2>3. FlattenSeq(kids) \in Seq({})
    <3> HIDE DEF kids
    <3> QED BY <1>2, <2>2, Mapped
  <2>4. \A s \in Seq({}) : s = <<>>
    OBVIOUS
  <2>5. FlattenSeq(kids) = <<>>
    <3> HIDE DEF kids
    <3> QED BY <2>3, <2>4
  <2> QED BY <1>3, <1>4, <2>5 DEF Below
<1>5. CASE n # 0
  <2>1. n - 1 \in Nat /\ \A d \in Nat : d < n => d =< n - 1
    BY <1>1, <1>5
  <2>2. \A i \in DOMAIN node.kids : f[node.kids[i]] \in Seq(NodesUpTo[n - 1])
    <3> SUFFICES ASSUME NEW i \in DOMAIN node.kids
                 PROVE  f[node.kids[i]] \in Seq(NodesUpTo[n - 1])
      OBVIOUS
    <3> DEFINE kid == node.kids[i]
    <3>1. kid \in Node /\ Depth[kid] \in Nat /\ Depth[kid] =< n - 1
      BY <1>2, <2>1, Depths DEF IsDepth
    <3>2. f[kid] \in Seq(NodesUpTo[Depth[kid]])
      BY <3>1 DEF Cleaners
    <3> HIDE DEF n, kid
    <3>3. NodesUpTo[Depth[kid]] \subseteq NodesUpTo[n - 1]
      BY <2>1, <3>1, LevelsGrow
    <3> QED BY <3>2, <3>3, SeqsGrow DEF kid
  <2>3. kids \in [DOMAIN node.kids -> Seq(NodesUpTo[n - 1])]
    BY <2>2
  <2>4. FlattenSeq(kids) \in Seq(NodesUpTo[n - 1])
    <3> HIDE DEF kids, n
    <3> QED BY <1>2, <2>3, Mapped
  <2>5. FlattenSeq(kids) \in Below(n)
    <3> HIDE DEF kids, n
    <3> QED BY <1>5, <2>4 DEF Below
  <2> HIDE DEF n
  <2> QED BY <1>3, <2>5 DEF n
<1> QED BY <1>4, <1>5

\* What a plan makes of a node with a cleaner for the lower ones: it is no
\* deeper, and only the attributes and children of an element have changed.
LEMMA MadeFits ==
  ASSUME NEW S, NEW attrs, NEW leaf, IsPlan(S, attrs, leaf),
         NEW node \in Node, NEW f \in Cleaners
  PROVE  /\ Made(node, f, S, attrs, leaf) \in Seq(NodesUpTo[Depth[node]])
         /\ Made(node, f, S, attrs, leaf) \in Seq(Node)
         /\ node \in S =>
              \A m : m = WithParts(node, attrs[node], Over(f, node.kids)) =>
                /\ m \in Node /\ Made(node, f, S, attrs, leaf) = <<m>>
                /\ m.t = node.t /\ m.ns = node.ns /\ m.local = node.local
                /\ m.attrs = attrs[node] /\ m.kids = Over(f, node.kids)
                /\ attrs[node] = node.attrs /\ Over(f, node.kids) = node.kids => m = node
<1> DEFINE n == Depth[node]
           mm == WithParts(node, attrs[node], Over(f, node.kids))
<1>1. /\ n \in Nat /\ node \in NodesUpTo[n] /\ NodesUpTo[n] \subseteq Node
  BY Depths, SvgAssumption, LevelsGrow DEF IsDepth, Node
<1>2. \A T : \A x \in T : <<x>> \in Seq(T)
  OBVIOUS
<1>3. ASSUME node \in S
      PROVE  /\ mm \in NodesUpTo[n]
             /\ mm.t = node.t /\ mm.ns = node.ns /\ mm.local = node.local
             /\ mm.attrs = attrs[node] /\ mm.kids = Over(f, node.kids)
             /\ attrs[node] = node.attrs /\ Over(f, node.kids) = node.kids => mm = node
  <2> HIDE DEF mm, n
  <2>1. IsElement(node) /\ attrs[node] \in Seq(Attribute)
    BY <1>3 DEF IsPlan
  <2>2. Over(f, node.kids) \in Below(n)
    BY <2>1, CleanedKidsFit DEF n
  <2>3. \A aa \in Seq(Attribute), kk \in Below(n) : \A x :
          x = WithParts(node, aa, kk) =>
            /\ x \in NodesUpTo[n]
            /\ x.t = node.t /\ x.ns = node.ns /\ x.local = node.local
            /\ x.attrs = aa /\ x.kids = kk
            /\ aa = node.attrs /\ kk = node.kids => x = node
    BY <1>1, <2>1, NodeShape
  <2> QED BY <2>1, <2>2, <2>3 DEF mm
<1>4. /\ node \in S => Made(node, f, S, attrs, leaf) = <<mm>>
      /\ node \notin S => Made(node, f, S, attrs, leaf) = leaf[node]
  BY DEF Made
<1>5. leaf[node] \in Seq(NodesUpTo[n])
  BY DEF IsPlan, Cleaners
<1>6. \A m : m = WithParts(node, attrs[node], Over(f, node.kids)) => m = mm
  OBVIOUS
<1> HIDE DEF mm, n
<1>7. Made(node, f, S, attrs, leaf) \in Seq(NodesUpTo[n])
  BY <1>2, <1>3, <1>4, <1>5
<1>8. Made(node, f, S, attrs, leaf) \in Seq(Node)
  BY <1>1, <1>7, SeqsGrow
<1>9. ASSUME node \in S
      PROVE  \A m : m = WithParts(node, attrs[node], Over(f, node.kids)) =>
               /\ m \in Node /\ Made(node, f, S, attrs, leaf) = <<m>>
               /\ m.t = node.t /\ m.ns = node.ns /\ m.local = node.local
               /\ m.attrs = attrs[node] /\ m.kids = Over(f, node.kids)
               /\ attrs[node] = node.attrs /\ Over(f, node.kids) = node.kids => m = node
  BY <1>1, <1>3, <1>4, <1>6, <1>9
<1> QED BY <1>7, <1>8, <1>9 DEF n

\* A plan looks at the lower trees only.
LEMMA MadeLooksDown ==
  ASSUME NEW S, NEW attrs, NEW leaf, IsPlan(S, attrs, leaf),
         NEW node \in Node, NEW f, NEW g,
         \A x \in Node : Depth[x] < Depth[node] => f[x] = g[x]
  PROVE  Made(node, f, S, attrs, leaf) = Made(node, g, S, attrs, leaf)
<1>1. ASSUME node \in S
      PROVE  Over(f, node.kids) = Over(g, node.kids)
  <2>1. IsElement(node)
    BY <1>1 DEF IsPlan
  <2>2. \A i \in DOMAIN node.kids : f[node.kids[i]] = g[node.kids[i]]
    BY <2>1, KidsAreLower
  <2> QED BY <2>2 DEF Over
<1> QED BY <1>1 DEF Made

\* A function that is defined as a plan is the cleaner its definition describes.
LEMMA Making ==
  ASSUME NEW S, NEW attrs, NEW leaf, IsPlan(S, attrs, leaf),
         NEW h, h = CHOOSE f : f = [node \in Node |-> Made(node, f, S, attrs, leaf)]
  PROVE  /\ h \in Cleaners
         /\ \A node \in Node : h[node] = Made(node, h, S, attrs, leaf)
<1> DEFINE Makes(f) == f = [node \in Node |-> Made(node, f, S, attrs, leaf)]
<1>1. \E f \in Cleaners : \A node \in Node : f[node] = Made(node, f, S, attrs, leaf)
  <2> DEFINE T == [node \in Node |-> Seq(NodesUpTo[Depth[node]])]
             D == [node \in Node |-> [f \in Cleaners |-> Made(node, f, S, attrs, leaf)]]
  <2>1. Depth \in [Node -> Nat]
    BY Depths DEF IsDepth
  <2>2. T \in [Node -> SUBSET Seq(Node)] /\ \A node \in Node : T[node] # {}
    <3>1. \A node \in Node : Depth[node] \in Nat /\ NodesUpTo[Depth[node]] \subseteq Node
      BY <2>1, Depths, SvgAssumption, LevelsGrow DEF IsDepth, Node
    <3>2. \A node \in Node : Seq(NodesUpTo[Depth[node]]) \subseteq Seq(Node)
      BY <3>1, SeqsGrow
    <3>3. \A X : <<>> \in Seq(X)
      OBVIOUS
    <3> QED BY <3>2, <3>3
  <2>3. Cleaners = {f \in [Node -> Seq(Node)] : \A node \in Node : f[node] \in T[node]}
    BY DEF Cleaners
  <2>4. /\ D \in [Node -> [Cleaners -> Seq(Node)]]
        /\ \A node \in Node : \A f \in Cleaners : D[node][f] \in T[node]
    BY MadeFits
  <2>5. \A node \in Node : \A f \in Cleaners : D[node][f] = Made(node, f, S, attrs, leaf)
    OBVIOUS
  <2> HIDE DEF D, T
  <2>6. \A node \in Node : \A f, g \in Cleaners :
          (\A x \in Node : Depth[x] < Depth[node] => f[x] = g[x]) => D[node][f] = D[node][g]
    BY <2>5, MadeLooksDown
  <2>7. IsRecursive(Node, Seq(Node), Depth, T, Cleaners, D)
    BY <2>1, <2>2, <2>3, <2>4, <2>6 DEF IsRecursive
  <2> QED BY <2>5, <2>7, Recursion
<1>2. PICK g \in Cleaners : \A node \in Node : g[node] = Made(node, g, S, attrs, leaf)
  BY <1>1
<1>3. Makes(g)
  <2>1. g = [node \in Node |-> g[node]]
    BY DEF Cleaners
  <2> QED BY <1>2, <2>1
<1>4. h = CHOOSE f : Makes(f)
  OBVIOUS
<1>5. Makes(h)
  <2> HIDE DEF Makes
  <2> QED BY <1>3, <1>4
<1>6. \A node \in Node : h[node] = Made(node, h, S, attrs, leaf)
  BY <1>5
<1> DEFINE N == {n \in Nat : \A node \in Node : Depth[node] = n => h[node] = g[node]}
<1>7. ASSUME NEW n \in Nat, \A m \in Nat : m < n => m \in N
      PROVE  n \in N
  <2> SUFFICES ASSUME NEW node \in Node, Depth[node] = n PROVE h[node] = g[node]
    OBVIOUS
  <2>1. \A x \in Node : Depth[x] < Depth[node] => h[x] = g[x]
    BY <1>7, Depths DEF IsDepth
  <2>2. Made(node, h, S, attrs, leaf) = Made(node, g, S, attrs, leaf)
    BY <2>1, MadeLooksDown
  <2> QED BY <1>2, <1>6, <2>2
<1> HIDE DEF N
<1>8. \A n \in Nat : n \in N
  BY <1>7, StrongInduction
<1>9. \A node \in Node : h[node] = g[node]
  BY <1>8, Depths DEF N, IsDepth
<1>10. h = g
  <2>1. h = [node \in Node |-> h[node]]
    <3>1. DOMAIN h = Node /\ h = [node \in Node |-> Made(node, h, S, attrs, leaf)]
      BY <1>5
    <3> QED BY <1>6, <3>1
  <2>2. g = [node \in Node |-> g[node]]
    BY DEF Cleaners
  <2> QED BY <1>9, <2>1, <2>2
<1> QED BY <1>6, <1>10

\* What cleanNode goes on below, the attributes it leaves, and what it leaves of
\* all other nodes.
CleanedBelow == {node \in Node : IsElement(node) /\ ~IsDropped(node)}
CleanedAttrs == [node \in CleanedBelow |-> KeptAttributes(node.attrs)]
CleanedLeaf  == [node \in Node |-> IF IsDropped(node) THEN <<>> ELSE <<node>>]

\* The same of the rebuilding.
RebuiltBelow == {node \in Node : IsElement(node)}
RebuiltAttrs == [node \in RebuiltBelow |-> node.attrs]
RebuiltLeaf  == [node \in Node |->
                   IF IsTextNode(node) /\ node.live # <<>> THEN node.live ELSE <<node>>]

\* What a plan has for a single node is no deeper than the node.
LEMMA LeavesFit ==
  ASSUME NEW leaf, DOMAIN leaf = Node, leaf = [node \in Node |-> leaf[node]],
         \A node \in Node :
           leaf[node] \in {<<>>, <<node>>} \/ (IsTextNode(node) /\ leaf[node] = node.live)
  PROVE  leaf \in Cleaners
<1>1. ASSUME NEW node \in Node
      PROVE  leaf[node] \in Seq(Node) /\ leaf[node] \in Seq(NodesUpTo[Depth[node]])
  <2> DEFINE n == Depth[node]
  <2>1. n \in Nat /\ node \in NodesUpTo[n] /\ NodesUpTo[n] \subseteq Node
    BY Depths, SvgAssumption, LevelsGrow DEF IsDepth, Node
  <2> HIDE DEF n
  <2>2. Below(n) \subseteq Seq(NodesUpTo[n])
    <3>1. CASE n = 0
      <4>1. \A X : <<>> \in Seq(X)
        OBVIOUS
      <4> QED BY <3>1, <4>1 DEF Below
    <3>2. CASE n # 0
      <4>1. n - 1 \in Nat /\ n - 1 =< n
        BY <2>1, <3>2
      <4>2. NodesUpTo[n - 1] \subseteq NodesUpTo[n]
        BY <2>1, <4>1, LevelsGrow
      <4> QED BY <3>2, <4>2, SeqsGrow DEF Below
    <3> QED BY <3>1, <3>2
  <2>3. IsTextNode(node) => node.live \in Below(n)
    BY LiveIsLower DEF n
  <2>4. \A T : <<>> \in Seq(T) /\ \A x \in T : <<x>> \in Seq(T)
    OBVIOUS
  <2>5. leaf[node] \in Seq(NodesUpTo[n])
    BY <2>1, <2>2, <2>3, <2>4
  <2> QED BY <2>1, <2>5, SeqsGrow DEF n
<1>2. leaf \in [Node -> Seq(Node)]
  BY <1>1
<1> QED BY <1>1, <1>2 DEF Cleaners

\* CleanNode is what its definition describes.
LEMMA Cleaning ==
  /\ IsPlan(CleanedBelow, CleanedAttrs, CleanedLeaf)
  /\ CleanNode \in Cleaners
  /\ \A node \in Node :
       CleanNode[node] = Made(node, CleanNode, CleanedBelow, CleanedAttrs, CleanedLeaf)
<1>1. CleanedLeaf \in Cleaners
  BY LeavesFit DEF CleanedLeaf
<1>2. CleanedAttrs \in [CleanedBelow -> Seq(Attribute)]
  <2>1. \A node \in CleanedBelow : KeptAttributes(node.attrs) \in Seq(Attribute)
    BY KidsAreLower, KeptMembers DEF CleanedBelow
  <2> QED BY <2>1 DEF CleanedAttrs
<1>3. IsPlan(CleanedBelow, CleanedAttrs, CleanedLeaf)
  BY <1>1, <1>2 DEF IsPlan, CleanedBelow
<1> DEFINE Body(node, f) ==
             IF IsDropped(node) THEN <<>>
             ELSE IF ~IsElement(node) THEN <<node>>
             ELSE <<WithParts(node, KeptAttributes(node.attrs), Over(f, node.kids))>>
<1>4. \A f : \A node \in Node :
        Body(node, f) = Made(node, f, CleanedBelow, CleanedAttrs, CleanedLeaf)
  BY DEF Made, CleanedBelow, CleanedAttrs, CleanedLeaf
<1>5. CleanNode = CHOOSE f : f = [node \in Node |-> Body(node, f)]
  BY DEF CleanNode, Over
<1> HIDE DEF Body
<1>6. \A f : [node \in Node |-> Body(node, f)]
               = [node \in Node |-> Made(node, f, CleanedBelow, CleanedAttrs, CleanedLeaf)]
  BY <1>4
<1>7. CleanNode = CHOOSE f :
        f = [node \in Node |-> Made(node, f, CleanedBelow, CleanedAttrs, CleanedLeaf)]
  BY <1>5, <1>6
<1> QED BY <1>3, <1>7, Making

\* RebuildNode is what its definition describes.
LEMMA Rebuilding ==
  /\ IsPlan(RebuiltBelow, RebuiltAttrs, RebuiltLeaf)
  /\ RebuildNode \in Cleaners
  /\ \A node \in Node :
       RebuildNode[node] = Made(node, RebuildNode, RebuiltBelow, RebuiltAttrs, RebuiltLeaf)
<1>1. RebuiltLeaf \in Cleaners
  BY LeavesFit DEF RebuiltLeaf
<1>2. RebuiltAttrs \in [RebuiltBelow -> Seq(Attribute)]
  BY KidsAreLower DEF RebuiltAttrs, RebuiltBelow
<1>3. IsPlan(RebuiltBelow, RebuiltAttrs, RebuiltLeaf)
  BY <1>1, <1>2 DEF IsPlan, RebuiltBelow
<1> DEFINE Body(node, f) ==
             IF IsTextNode(node) /\ node.live # <<>> THEN node.live
             ELSE IF ~IsElement(node) THEN <<node>>
             ELSE <<WithParts(node, node.attrs, Over(f, node.kids))>>
<1>4. \A f : \A node \in Node :
        Body(node, f) = Made(node, f, RebuiltBelow, RebuiltAttrs, RebuiltLeaf)
  <2>1. \A node : ~(IsElement(node) /\ IsTextNode(node))
    BY DEF IsElement, IsTextNode
  <2> QED BY <2>1 DEF Made, RebuiltBelow, RebuiltAttrs, RebuiltLeaf
<1>5. RebuildNode = CHOOSE f : f = [node \in Node |-> Body(node, f)]
  BY DEF RebuildNode, Over
<1> HIDE DEF Body
<1>6. \A f : [node \in Node |-> Body(node, f)]
               = [node \in Node |-> Made(node, f, RebuiltBelow, RebuiltAttrs, RebuiltLeaf)]
  BY <1>4
<1>7. RebuildNode = CHOOSE f :
        f = [node \in Node |-> Made(node, f, RebuiltBelow, RebuiltAttrs, RebuiltLeaf)]
  BY <1>5, <1>6
<1> QED BY <1>3, <1>7, Making

-----------------------------------------------------------------------------
(* All the nodes of a tree.                                                *)

\* What Flat makes of nodes when f is what it makes of the children.
FlatPart(node, f) == <<node>> \o (IF IsElement(node) THEN f[node.kids] ELSE <<>>)

Flattened(nodes, f) == FlattenSeq([i \in DOMAIN nodes |-> FlatPart(nodes[i], f)])

\* Sequences of trees are ranked by a number above the depths of their trees.
IsHeight(height) ==
  /\ height \in [Seq(Node) -> Nat]
  /\ \A nodes \in Seq(Node) :
       /\ \A i \in DOMAIN nodes : Depth[nodes[i]] < height[nodes]
       /\ \A n \in Nat : (\A i \in DOMAIN nodes : Depth[nodes[i]] < n) => height[nodes] =< n

Height == CHOOSE height : IsHeight(height)

\* Each has a height.
LEMMA Heights == IsHeight(Height)
<1> DEFINE Above(nodes)    == {n \in Nat : \A i \in DOMAIN nodes : Depth[nodes[i]] < n}
           Least(nodes, d) == d \in Above(nodes) /\ \A n \in Above(nodes) : d =< n
           height == [nodes \in Seq(Node) |-> CHOOSE d \in Nat : Least(nodes, d)]
<1>1. \A nodes \in Seq(Node) : \E d \in Nat : Least(nodes, d)
  <2> SUFFICES ASSUME NEW nodes \in Seq(Node) PROVE \E d \in Nat : Least(nodes, d)
    OBVIOUS
  <2>1. \A i \in DOMAIN nodes : nodes[i] \in Node
    OBVIOUS
  <2>2. \A d, n \in Nat : d =< n => d < n + 1
    OBVIOUS
  <2>3. MaxSvgNesting + 1 \in Above(nodes)
    BY <2>1, <2>2, Depths, SvgAssumption DEF IsDepth
  <2>4. Above(nodes) \in SUBSET Nat
    OBVIOUS
  <2> HIDE DEF Above
  <2> QED BY <2>3, <2>4, FirstExists
<1>2. \A nodes \in Seq(Node) : height[nodes] \in Nat /\ Least(nodes, height[nodes])
  <2> SUFFICES ASSUME NEW nodes \in Seq(Node)
               PROVE  height[nodes] \in Nat /\ Least(nodes, height[nodes])
    OBVIOUS
  <2>1. height[nodes] = CHOOSE d \in Nat : Least(nodes, d)
    OBVIOUS
  <2> HIDE DEF height, Least
  <2> QED BY <1>1, <2>1
<1>3. height \in [Seq(Node) -> Nat]
  BY <1>2
<1> HIDE DEF height
<1>4. IsHeight(height)
  BY <1>2, <1>3 DEF IsHeight
<1> QED BY <1>4 DEF Height

\* The children of an element are lower than the nodes it is one of.
LEMMA KidsRankLower ==
  ASSUME NEW nodes \in Seq(Node), NEW i \in DOMAIN nodes, IsElement(nodes[i])
  PROVE  /\ nodes[i].kids \in Seq(Node)
         /\ Height[nodes[i].kids] \in Nat /\ Height[nodes[i].kids] < Height[nodes]
<1>1. nodes[i] \in Node
  OBVIOUS
<1> DEFINE node == nodes[i]
<1> HIDE DEF node
<1>2. /\ node.kids \in Seq(Node)
      /\ \A j \in DOMAIN node.kids : Depth[node.kids[j]] < Depth[node]
  BY <1>1, KidsAreLower DEF node
<1>3. /\ Depth[node] \in Nat /\ Height[nodes] \in Nat /\ Depth[node] < Height[nodes]
  BY <1>1, Heights, Depths DEF IsHeight, IsDepth, node
<1>4. Height[node.kids] \in Nat /\ Height[node.kids] =< Depth[node]
  BY <1>2, <1>3, Heights DEF IsHeight
<1> QED BY <1>2, <1>3, <1>4 DEF node

\* What the parts of a flattened sequence are.
LEMMA FlattenedParts ==
  ASSUME NEW nodes \in Seq(Node), NEW f,
         \A i \in DOMAIN nodes : IsElement(nodes[i]) => f[nodes[i].kids] \in Seq(Node)
  PROVE  /\ Flattened(nodes, f) \in Seq(Node)
         /\ \A x : x \in ToSet(Flattened(nodes, f)) <=>
              \E i \in DOMAIN nodes :
                x = nodes[i] \/ (IsElement(nodes[i]) /\ x \in ToSet(f[nodes[i].kids]))
<1> DEFINE ss == [i \in DOMAIN nodes |-> FlatPart(nodes[i], f)]
<1>1. \A s \in Seq(Node) : \A y \in Node :
        /\ <<y>> \o s \in Seq(Node)
        /\ \A x : x \in ToSet(<<y>> \o s) <=> x = y \/ x \in ToSet(s)
  <2> HIDE DEF ss
  <2> SUFFICES ASSUME NEW s \in Seq(Node), NEW y \in Node
               PROVE  /\ <<y>> \o s \in Seq(Node)
                      /\ \A x : x \in ToSet(<<y>> \o s) <=> x = y \/ x \in ToSet(s)
    OBVIOUS
  <2> DEFINE one == <<y>>
  <2>1. one \in Seq(Node) /\ ToSet(one) = {y}
    BY DEF ToSet
  <2> HIDE DEF one
  <2>2. one \o s \in Seq(Node) /\ ToSet(one \o s) = ToSet(one) \cup ToSet(s)
    BY <2>1, ConcatMembers
  <2> QED BY <2>1, <2>2 DEF one
<1>2. \A i \in DOMAIN nodes : nodes[i] \in Node
  OBVIOUS
<1>3. <<>> \in Seq(Node) /\ \A x : x \notin ToSet(<<>>)
  BY DEF ToSet
<1>4. \A i \in DOMAIN nodes :
        /\ ss[i] \in Seq(Node)
        /\ \A x : x \in ToSet(ss[i]) <=>
             x = nodes[i] \/ (IsElement(nodes[i]) /\ x \in ToSet(f[nodes[i].kids]))
  <2> SUFFICES ASSUME NEW i \in DOMAIN nodes
               PROVE  /\ ss[i] \in Seq(Node)
                      /\ \A x : x \in ToSet(ss[i]) <=>
                           \/ x = nodes[i]
                           \/ IsElement(nodes[i]) /\ x \in ToSet(f[nodes[i].kids])
    OBVIOUS
  <2> DEFINE tail == IF IsElement(nodes[i]) THEN f[nodes[i].kids] ELSE <<>>
  <2>1. ss[i] = <<nodes[i]>> \o tail
    BY DEF FlatPart
  <2> HIDE DEF ss
  <2>2. /\ tail \in Seq(Node)
        /\ \A x : x \in ToSet(tail) <=> IsElement(nodes[i]) /\ x \in ToSet(f[nodes[i].kids])
    BY <1>3
  <2> HIDE DEF tail
  <2> QED BY <1>1, <1>2, <2>1, <2>2
<1>5. ss \in [DOMAIN nodes -> Seq(Node)]
  BY <1>4
<1>6. Flattened(nodes, f) = FlattenSeq(ss)
  BY DEF Flattened
<1> HIDE DEF ss
<1>7. /\ FlattenSeq(ss) \in Seq(Node)
      /\ \A x : x \in ToSet(FlattenSeq(ss)) <=> \E i \in DOMAIN nodes : x \in ToSet(ss[i])
  BY <1>5, Mapped
<1> QED BY <1>4, <1>6, <1>7

\* Flat is the function its definition describes.
LEMMA Flats ==
  /\ Flat \in [Seq(Node) -> Seq(Node)]
  /\ \A nodes \in Seq(Node) : Flat[nodes] = Flattened(nodes, Flat)
<1> DEFINE S == Seq(Node)
           F == [S -> S]
           Flattens(f) == f = [nodes \in S |-> Flattened(nodes, f)]
<1>1. \A nodes \in S : \A f, g :
        (\A s \in S : Height[s] < Height[nodes] => f[s] = g[s]) =>
          Flattened(nodes, f) = Flattened(nodes, g)
  <2> SUFFICES ASSUME NEW nodes \in S, NEW f, NEW g,
                      \A s \in S : Height[s] < Height[nodes] => f[s] = g[s]
               PROVE  Flattened(nodes, f) = Flattened(nodes, g)
    OBVIOUS
  <2>1. \A i \in DOMAIN nodes : FlatPart(nodes[i], f) = FlatPart(nodes[i], g)
    BY KidsRankLower DEF FlatPart
  <2> QED BY <2>1 DEF Flattened
<1>2. \A nodes \in S : \A f \in F : Flattened(nodes, f) \in S
  BY KidsRankLower, FlattenedParts
<1>3. \E f \in F : \A nodes \in S : f[nodes] = Flattened(nodes, f)
  <2> DEFINE T == [nodes \in S |-> S]
             D == [nodes \in S |-> [f \in F |-> Flattened(nodes, f)]]
  <2>1. Height \in [S -> Nat]
    BY Heights DEF IsHeight
  <2>2. T \in [S -> SUBSET S] /\ \A nodes \in S : T[nodes] # {}
    <3>1. <<>> \in S
      OBVIOUS
    <3> HIDE DEF S
    <3> QED BY <3>1
  <2>3. F = {f \in [S -> S] : \A nodes \in S : f[nodes] \in T[nodes]}
    <3> HIDE DEF S
    <3> QED OBVIOUS
  <2>4. /\ D \in [S -> [F -> S]]
        /\ \A nodes \in S : \A f \in F : D[nodes][f] \in T[nodes]
    <3> HIDE DEF S, F
    <3> QED BY <1>2
  <2>5. \A nodes \in S : \A f \in F : D[nodes][f] = Flattened(nodes, f)
    OBVIOUS
  <2> HIDE DEF D, T, S, F
  <2>6. \A nodes \in S : \A f, g \in F :
          (\A s \in S : Height[s] < Height[nodes] => f[s] = g[s]) => D[nodes][f] = D[nodes][g]
    BY <1>1, <2>5
  <2>7. IsRecursive(S, S, Height, T, F, D)
    BY <2>1, <2>2, <2>3, <2>4, <2>6 DEF IsRecursive
  <2> QED BY <2>5, <2>7, Recursion
<1>4. PICK g \in F : \A nodes \in S : g[nodes] = Flattened(nodes, g)
  BY <1>3
<1>5. Flattens(g)
  BY <1>4
<1>6. Flat = CHOOSE f : Flattens(f)
  BY DEF Flat, Flattened, FlatPart
<1>7. Flattens(Flat)
  <2> HIDE DEF Flattens
  <2> QED BY <1>5, <1>6
<1>8. \A nodes \in S : Flat[nodes] = Flattened(nodes, Flat)
  BY <1>7
<1> DEFINE N == {n \in Nat : \A nodes \in S : Height[nodes] = n => Flat[nodes] = g[nodes]}
<1>9. ASSUME NEW n \in Nat, \A m \in Nat : m < n => m \in N
      PROVE  n \in N
  <2> SUFFICES ASSUME NEW nodes \in S, Height[nodes] = n PROVE Flat[nodes] = g[nodes]
    OBVIOUS
  <2>1. \A s \in S : Height[s] < Height[nodes] => Flat[s] = g[s]
    BY <1>9, Heights DEF IsHeight
  <2>2. Flattened(nodes, Flat) = Flattened(nodes, g)
    BY <1>1, <2>1
  <2> QED BY <1>4, <1>8, <2>2
<1> HIDE DEF N
<1>10. \A n \in Nat : n \in N
  BY <1>9, StrongInduction
<1>11. \A nodes \in S : Flat[nodes] = g[nodes]
  BY <1>10, Heights DEF N, IsHeight
<1>12. Flat \in F
  <2>1. Flat = [nodes \in S |-> Flattened(nodes, Flat)]
    BY <1>7
  <2>2. DOMAIN Flat = S /\ Flat = [nodes \in S |-> Flat[nodes]]
    BY <2>1
  <2> HIDE DEF S
  <2> QED BY <1>11, <2>2
<1> QED BY <1>8, <1>12

\* The nodes of a tree are those of the sequence and those below them.
LEMMA FlatMembers ==
  ASSUME NEW nodes \in Seq(Node)
  PROVE  /\ Flat[nodes] \in Seq(Node)
         /\ \A x : x \in ToSet(Flat[nodes]) <=>
              \E i \in DOMAIN nodes :
                x = nodes[i] \/ (IsElement(nodes[i]) /\ x \in ToSet(Flat[nodes[i].kids]))
<1>1. \A i \in DOMAIN nodes : IsElement(nodes[i]) => Flat[nodes[i].kids] \in Seq(Node)
  BY KidsRankLower, Flats
<1> QED BY <1>1, Flats, FlattenedParts

\* The nodes of a sequence, and those below them, are among its nodes.
LEMMA SvgNodesBelow ==
  ASSUME NEW nodes \in Seq(Node), NEW i \in DOMAIN nodes
  PROVE  /\ nodes[i] \in Node /\ nodes[i] \in ToSet(Flat[nodes])
         /\ IsElement(nodes[i]) => \A y \in ToSet(Flat[nodes[i].kids]) : y \in ToSet(Flat[nodes])
<1>1. nodes[i] \in Node
  OBVIOUS
<1>2. \A x : x \in ToSet(Flat[nodes]) <=>
        \E j \in DOMAIN nodes :
          x = nodes[j] \/ (IsElement(nodes[j]) /\ x \in ToSet(Flat[nodes[j].kids]))
  BY FlatMembers
<1> QED BY <1>1, <1>2

\* The nodes of what a plan makes of a tree are those of what it puts in place of
\* a node, and the elements that got other attributes and children.
LEMMA MadeMembers ==
  ASSUME NEW S, NEW attrs, NEW leaf, IsPlan(S, attrs, leaf), NEW h \in Cleaners,
         \A node \in Node : h[node] = Made(node, h, S, attrs, leaf)
  PROVE  \A nodes \in Seq(Node) : \A x \in ToSet(Flat[Over(h, nodes)]) :
           \E y \in ToSet(Flat[nodes]) :
             /\ y \in Node
             /\ \/ y \notin S /\ x \in ToSet(Flat[leaf[y]])
                \/ y \in S /\ x = WithParts(y, attrs[y], Over(h, y.kids))
<1> DEFINE From(x, nodes) ==
             \E y \in ToSet(Flat[nodes]) :
               /\ y \in Node
               /\ \/ y \notin S /\ x \in ToSet(Flat[leaf[y]])
                  \/ y \in S /\ x = WithParts(y, attrs[y], Over(h, y.kids))
           Holds(nodes) == \A x \in ToSet(Flat[Over(h, nodes)]) : From(x, nodes)
           N == {n \in Nat : \A nodes \in Seq(Node) : Height[nodes] = n => Holds(nodes)}
<1>1. ASSUME NEW n \in Nat, \A d \in Nat : d < n => d \in N
      PROVE  n \in N
  <2> SUFFICES ASSUME NEW nodes \in Seq(Node), Height[nodes] = n,
                      NEW x \in ToSet(Flat[Over(h, nodes)])
               PROVE  From(x, nodes)
    OBVIOUS
  <2> HIDE DEF From
  <2> DEFINE made == Over(h, nodes)
  <2>1. /\ made \in Seq(Node)
        /\ \A m : m \in ToSet(made) <=> \E i \in DOMAIN nodes : m \in ToSet(h[nodes[i]])
    BY OverMembers
  <2> HIDE DEF made
  <2>2. PICK j \in DOMAIN made :
          x = made[j] \/ (IsElement(made[j]) /\ x \in ToSet(Flat[made[j].kids]))
    BY <2>1, FlatMembers DEF made
  <2>3. made[j] \in ToSet(made)
    BY DEF ToSet
  <2>4. PICK i \in DOMAIN nodes : made[j] \in ToSet(h[nodes[i]])
    BY <2>1, <2>3
  <2> DEFINE node == nodes[i]
  <2>5. /\ node \in Node /\ node \in ToSet(Flat[nodes])
        /\ IsElement(node) => \A y \in ToSet(Flat[node.kids]) : y \in ToSet(Flat[nodes])
    BY SvgNodesBelow
  <2>6. IsElement(node) =>
          /\ node.kids \in Seq(Node)
          /\ Height[node.kids] \in Nat /\ Height[node.kids] < n
    BY KidsRankLower
  <2>7. made[j] \in ToSet(Made(node, h, S, attrs, leaf))
    BY <2>4, <2>5
  <2> HIDE DEF node
  <2>8. CASE node \notin S
    <3>1. made[j] \in ToSet(leaf[node]) /\ leaf[node] \in Seq(Node)
      BY <2>5, <2>7, <2>8 DEF Made, IsPlan, Cleaners
    <3>2. PICK k \in DOMAIN leaf[node] : made[j] = leaf[node][k]
      BY <3>1 DEF ToSet
    <3>3. x \in ToSet(Flat[leaf[node]])
      BY <2>2, <3>1, <3>2, FlatMembers
    <3> QED BY <2>5, <2>8, <3>3 DEF From
  <2>9. CASE node \in S
    <3> DEFINE m == WithParts(node, attrs[node], Over(h, node.kids))
    <3>1. Made(node, h, S, attrs, leaf) = <<m>> /\ m.kids = Over(h, node.kids)
      BY <2>5, <2>9, MadeFits
    <3>2. IsElement(node)
      BY <2>9 DEF IsPlan
    <3> HIDE DEF m
    <3>3. made[j] = m
      BY <2>7, <3>1 DEF ToSet
    <3>4. CASE x = m
      BY <2>5, <2>9, <3>4 DEF From, m
    <3>5. CASE x \in ToSet(Flat[Over(h, node.kids)])
      <4>1. From(x, node.kids)
        BY <1>1, <2>6, <3>2, <3>5
      <4> QED BY <2>5, <3>2, <4>1 DEF From
    <3> QED BY <2>2, <3>1, <3>3, <3>4, <3>5
  <2> QED BY <2>8, <2>9
<1> HIDE DEF N
<1>2. \A n \in Nat : n \in N
  BY <1>1, StrongInduction
<1>3. \A nodes \in Seq(Node) : Holds(nodes)
  BY <1>2, Heights DEF N, IsHeight
<1> QED BY <1>3

\* A tree in which a plan changes no node is left as it is.
LEMMA MadeIsKept ==
  ASSUME NEW S, NEW attrs, NEW leaf, IsPlan(S, attrs, leaf), NEW h \in Cleaners,
         \A node \in Node : h[node] = Made(node, h, S, attrs, leaf)
  PROVE  \A nodes \in Seq(Node) :
           (\A x \in ToSet(Flat[nodes]) :
              IF x \in S THEN attrs[x] = x.attrs ELSE leaf[x] = <<x>>)
           => Over(h, nodes) = nodes
<1> DEFINE Fixed(nodes) == \A x \in ToSet(Flat[nodes]) :
                             IF x \in S THEN attrs[x] = x.attrs ELSE leaf[x] = <<x>>
           Holds(nodes) == Fixed(nodes) => Over(h, nodes) = nodes
           N == {n \in Nat : \A nodes \in Seq(Node) : Height[nodes] = n => Holds(nodes)}
<1>1. ASSUME NEW n \in Nat, \A d \in Nat : d < n => d \in N
      PROVE  n \in N
  <2> SUFFICES ASSUME NEW nodes \in Seq(Node), Height[nodes] = n, Fixed(nodes)
               PROVE  Over(h, nodes) = nodes
    OBVIOUS
  <2>1. ASSUME NEW i \in DOMAIN nodes
        PROVE  h[nodes[i]] = <<nodes[i]>>
    <3> DEFINE node == nodes[i]
    <3>1. /\ node \in Node /\ node \in ToSet(Flat[nodes])
          /\ IsElement(node) => \A y \in ToSet(Flat[node.kids]) : y \in ToSet(Flat[nodes])
      BY SvgNodesBelow
    <3>2. IsElement(node) =>
            /\ node.kids \in Seq(Node)
            /\ Height[node.kids] \in Nat /\ Height[node.kids] < n
      BY KidsRankLower
    <3> HIDE DEF node
    <3>3. CASE node \notin S
      BY <3>1, <3>3 DEF Made, node
    <3>4. CASE node \in S
      <4>1. IsElement(node)
        BY <3>4 DEF IsPlan
      <4>2. Fixed(node.kids)
        BY <3>1, <4>1
      <4>3. Holds(node.kids)
        BY <1>1, <3>2, <4>1
      <4>4. Over(h, node.kids) = node.kids /\ attrs[node] = node.attrs
        BY <3>1, <3>4, <4>2, <4>3
      <4>5. Made(node, h, S, attrs, leaf) = <<node>>
        BY <3>1, <3>4, <4>4, MadeFits
      <4> QED BY <3>1, <4>5 DEF node
    <3> QED BY <3>3, <3>4
  <2>2. [i \in DOMAIN nodes |-> h[nodes[i]]] = [i \in DOMAIN nodes |-> <<nodes[i]>>]
    BY <2>1
  <2>3. FlattenSeq([i \in DOMAIN nodes |-> <<nodes[i]>>]) = nodes
    BY FlattenSingletons
  <2> QED BY <2>2, <2>3 DEF Over
<1> HIDE DEF N
<1>2. \A n \in Nat : n \in N
  BY <1>1, StrongInduction
<1>3. \A nodes \in Seq(Node) : Holds(nodes)
  BY <1>2, Heights DEF N, IsHeight
<1> QED BY <1>3

\* The attributes of a tree are those of its elements.
LEMMA AttributeMembers ==
  ASSUME NEW nodes \in Seq(Node)
  PROVE  /\ Attributes(nodes) \in Seq(Attribute)
         /\ \A a : a \in ToSet(Attributes(nodes)) <=>
              \E x \in ToSet(Flat[nodes]) : IsElement(x) /\ a \in ToSet(x.attrs)
<1> DEFINE flat == Flat[nodes]
           ss == [i \in DOMAIN flat |-> IF IsElement(flat[i]) THEN flat[i].attrs ELSE <<>>]
<1>1. flat \in Seq(Node)
  BY FlatMembers
<1>2. Attributes(nodes) = FlattenSeq(ss)
  BY DEF Attributes
<1> HIDE DEF flat
<1>3. \A i \in DOMAIN flat : flat[i] \in Node
  BY <1>1
<1>4. \A i \in DOMAIN flat : IsElement(flat[i]) => flat[i].attrs \in Seq(Attribute)
  BY <1>3, KidsAreLower
<1>5. <<>> \in Seq(Attribute) /\ \A a : a \notin ToSet(<<>>)
  BY DEF ToSet
<1>6. ss \in [DOMAIN flat -> Seq(Attribute)]
  BY <1>4, <1>5
<1>7. \A i \in DOMAIN flat : \A a :
        a \in ToSet(ss[i]) <=> IsElement(flat[i]) /\ a \in ToSet(flat[i].attrs)
  BY <1>5
<1> HIDE DEF ss
<1>8. /\ FlattenSeq(ss) \in Seq(Attribute)
      /\ \A a : a \in ToSet(FlattenSeq(ss)) <=> \E i \in DOMAIN flat : a \in ToSet(ss[i])
  BY <1>1, <1>6, Mapped
<1>9. \A x : x \in ToSet(flat) <=> \E i \in DOMAIN flat : x = flat[i]
  BY DEF ToSet
<1>10. \A a : a \in ToSet(Attributes(nodes)) <=>
         \E x \in ToSet(flat) : IsElement(x) /\ a \in ToSet(x.attrs)
  <2> SUFFICES ASSUME NEW a
               PROVE  a \in ToSet(Attributes(nodes)) <=>
                        \E x \in ToSet(flat) : IsElement(x) /\ a \in ToSet(x.attrs)
    OBVIOUS
  <2>1. a \in ToSet(Attributes(nodes)) <=>
          \E i \in DOMAIN flat : IsElement(flat[i]) /\ a \in ToSet(flat[i].attrs)
    BY <1>2, <1>7, <1>8
  <2> QED BY <1>9, <2>1
<1> QED BY <1>2, <1>8, <1>10 DEF flat

-----------------------------------------------------------------------------
(* What is drawn.                                                          *)

\* What NotesDrop says of a node when f is what it says of the lower ones.
Noted(node, f) ==
  \/ IsTextNode(node) /\ ~node.literal /\ "javascript:" \in node.says
  \/ node.t = "comment"
  \/ /\ IsElement(node)
     /\ \/ node.local \in DroppedElements \/ LacksReference(node)
        \/ \E i \in DOMAIN node.attrs : ~KeepAttribute(node.attrs[i])
        \/ \E i \in DOMAIN node.kids : f[node.kids[i]]

\* NotesDrop is the function its definition describes.
LEMMA Noting == \A node \in Node : NotesDrop[node] = Noted(node, NotesDrop)
<1> DEFINE F == [Node -> BOOLEAN]
           Notes(f) == f = [node \in Node |-> Noted(node, f)]
<1>1. \A node \in Node : Noted(node, NotesDrop) \in BOOLEAN /\ \A f \in F : Noted(node, f) \in BOOLEAN
  BY DEF Noted
<1>2. \A node \in Node : \A f, g \in F :
        (\A x \in Node : Depth[x] < Depth[node] => f[x] = g[x]) => Noted(node, f) = Noted(node, g)
  <2> SUFFICES ASSUME NEW node \in Node, NEW f \in F, NEW g \in F,
                      \A x \in Node : Depth[x] < Depth[node] => f[x] = g[x]
               PROVE  Noted(node, f) = Noted(node, g)
    OBVIOUS
  <2>1. IsElement(node) => \A i \in DOMAIN node.kids : f[node.kids[i]] = g[node.kids[i]]
    BY KidsAreLower
  <2> HIDE DEF F
  <2> QED BY <2>1 DEF Noted
<1>3. \E f \in F : \A node \in Node : f[node] = Noted(node, f)
  <2> DEFINE T == [node \in Node |-> BOOLEAN]
             D == [node \in Node |-> [f \in F |-> Noted(node, f)]]
  <2>1. Depth \in [Node -> Nat]
    BY Depths DEF IsDepth
  <2>2. T \in [Node -> SUBSET BOOLEAN] /\ \A node \in Node : T[node] # {}
    OBVIOUS
  <2>3. F = {f \in [Node -> BOOLEAN] : \A node \in Node : f[node] \in T[node]}
    OBVIOUS
  <2>4. /\ D \in [Node -> [F -> BOOLEAN]]
        /\ \A node \in Node : \A f \in F : D[node][f] \in T[node]
    <3> HIDE DEF F
    <3> QED BY <1>1
  <2>5. \A node \in Node : \A f \in F : D[node][f] = Noted(node, f)
    OBVIOUS
  <2> HIDE DEF D, T, F
  <2>6. \A node \in Node : \A f, g \in F :
          (\A x \in Node : Depth[x] < Depth[node] => f[x] = g[x]) => D[node][f] = D[node][g]
    BY <1>2, <2>5
  <2>7. IsRecursive(Node, BOOLEAN, Depth, T, F, D)
    BY <2>1, <2>2, <2>3, <2>4, <2>6 DEF IsRecursive
  <2> QED BY <2>5, <2>7, Recursion
<1>4. PICK g \in F : \A node \in Node : g[node] = Noted(node, g)
  BY <1>3
<1>5. Notes(g)
  BY <1>4
<1>6. NotesDrop = CHOOSE f : Notes(f)
  BY DEF NotesDrop, Noted
<1>7. Notes(NotesDrop)
  <2> HIDE DEF Notes
  <2> QED BY <1>5, <1>6
<1> QED BY <1>7

\* Nothing to drop in a node itself.
Harmless(node) ==
  /\ ~IsDropped(node)
  /\ IsElement(node) => \A a \in ToSet(node.attrs) : KeepAttribute(a)

\* Cleaning leaves harmless nodes only, and the texts it leaves were there.
LEMMA CleanedIsHarmless ==
  ASSUME NEW nodes \in Seq(Node)
  PROVE  /\ CleanAll(nodes) \in Seq(Node)
         /\ \A x \in ToSet(Flat[CleanAll(nodes)]) :
              /\ x \in Node /\ Harmless(x)
              /\ IsTextNode(x) => x \in ToSet(Flat[nodes])
<1>1. CleanAll(nodes) = Over(CleanNode, nodes) /\ CleanAll(nodes) \in Seq(Node)
  <2>1. CleanAll(nodes) = Over(CleanNode, nodes)
    BY DEF CleanAll, Over
  <2> QED BY <2>1, Cleaning, OverMembers
<1>2. ASSUME NEW x \in ToSet(Flat[CleanAll(nodes)])
      PROVE  /\ x \in Node /\ Harmless(x)
             /\ IsTextNode(x) => x \in ToSet(Flat[nodes])
  <2>1. PICK y \in ToSet(Flat[nodes]) :
          /\ y \in Node
          /\ \/ y \notin CleanedBelow /\ x \in ToSet(Flat[CleanedLeaf[y]])
             \/ /\ y \in CleanedBelow
                /\ x = WithParts(y, CleanedAttrs[y], Over(CleanNode, y.kids))
    <3>1. \A s \in Seq(Node) : \A z \in ToSet(Flat[Over(CleanNode, s)]) :
            \E y \in ToSet(Flat[s]) :
              /\ y \in Node
              /\ \/ y \notin CleanedBelow /\ z \in ToSet(Flat[CleanedLeaf[y]])
                 \/ /\ y \in CleanedBelow
                    /\ z = WithParts(y, CleanedAttrs[y], Over(CleanNode, y.kids))
      BY Cleaning, MadeMembers
    <3> QED BY <1>1, <3>1
  <2>2. CASE y \notin CleanedBelow /\ x \in ToSet(Flat[CleanedLeaf[y]])
    <3> DEFINE leaf == CleanedLeaf[y]
    <3>1. leaf \in Seq(Node) /\ (IF IsDropped(y) THEN leaf = <<>> ELSE leaf = <<y>>)
      BY <2>1, Cleaning DEF CleanedLeaf, IsPlan, Cleaners
    <3> HIDE DEF leaf
    <3>2. PICK i \in DOMAIN leaf : x = leaf[i] \/ IsElement(leaf[i])
      BY <2>2, <3>1, FlatMembers DEF leaf
    <3>3. ~IsDropped(y) /\ leaf[i] = y
      BY <3>1, <3>2
    <3>4. ~IsElement(y)
      BY <2>1, <2>2, <3>3 DEF CleanedBelow
    <3> QED BY <2>1, <3>2, <3>3, <3>4 DEF Harmless
  <2>3. CASE /\ y \in CleanedBelow
             /\ x = WithParts(y, CleanedAttrs[y], Over(CleanNode, y.kids))
    <3>1. IsElement(y) /\ ~IsDropped(y) /\ CleanedAttrs[y] = KeptAttributes(y.attrs)
      BY <2>3 DEF CleanedBelow, CleanedAttrs
    <3>2. x \in Node /\ x.t = y.t /\ x.local = y.local /\ x.attrs = KeptAttributes(y.attrs)
      BY <2>1, <2>3, <3>1, Cleaning, MadeFits
    <3>3. /\ x.attrs \in Seq(Attribute)
          /\ \A a \in ToSet(x.attrs) : KeepAttribute(a)
      BY <2>1, <3>1, <3>2, KidsAreLower, KeptMembers
    <3>4. KeptAttributes(x.attrs) = KeptAttributes(y.attrs)
      BY <3>2, <3>3, KeptMembers
    <3>5. IsElement(x) /\ ~IsTextNode(x) /\ ~IsTextNode(y)
      BY <3>1, <3>2 DEF IsElement, IsTextNode
    <3>6. ~IsDropped(x)
      BY <3>1, <3>2, <3>4, <3>5 DEF IsDropped, LacksReference
    <3> QED BY <3>2, <3>3, <3>5, <3>6 DEF Harmless
  <2> QED BY <2>1, <2>2, <2>3
<1> QED BY <1>1, <1>2

\* A tree of harmless nodes is left as it is, without a note of a drop.
LEMMA HarmlessIsKept ==
  ASSUME NEW nodes \in Seq(Node), \A x \in ToSet(Flat[nodes]) : Harmless(x)
  PROVE  CleanAll(nodes) = nodes /\ \A i \in DOMAIN nodes : ~NotesDrop[nodes[i]]
<1>1. \A s \in Seq(Node) : \A i \in DOMAIN s : s[i] \in Node
  OBVIOUS
<1>2. \A s \in Seq(Node) : \A x \in ToSet(Flat[s]) : x \in Node
  <2>1. \A s \in Seq(Node) : \A x \in ToSet(s) : x \in Node
    BY DEF ToSet
  <2> QED BY <2>1, FlatMembers
<1>3. ASSUME NEW x \in ToSet(Flat[nodes])
      PROVE  IF x \in CleanedBelow THEN CleanedAttrs[x] = x.attrs ELSE CleanedLeaf[x] = <<x>>
  <2>1. x \in Node /\ Harmless(x)
    BY <1>2
  <2>2. x \in CleanedBelow => KeptAttributes(x.attrs) = x.attrs
    BY <2>1, KidsAreLower, KeptMembers DEF Harmless, CleanedBelow
  <2> QED BY <2>1, <2>2 DEF Harmless, CleanedAttrs, CleanedLeaf
<1>4. CleanAll(nodes) = nodes
  <2>1. CleanAll(nodes) = Over(CleanNode, nodes)
    BY DEF CleanAll, Over
  <2> QED BY <1>3, <2>1, Cleaning, MadeIsKept
<1> DEFINE Holds(s) == (\A x \in ToSet(Flat[s]) : Harmless(x)) =>
                         \A i \in DOMAIN s : ~NotesDrop[s[i]]
           N == {n \in Nat : \A s \in Seq(Node) : Height[s] = n => Holds(s)}
<1>5. ASSUME NEW n \in Nat, \A d \in Nat : d < n => d \in N
      PROVE  n \in N
  <2> SUFFICES ASSUME NEW s \in Seq(Node), Height[s] = n,
                      \A x \in ToSet(Flat[s]) : Harmless(x), NEW i \in DOMAIN s
               PROVE  ~NotesDrop[s[i]]
    OBVIOUS
  <2> DEFINE node == s[i]
  <2>1. /\ node \in Node /\ node \in ToSet(Flat[s])
        /\ IsElement(node) => \A y \in ToSet(Flat[node.kids]) : y \in ToSet(Flat[s])
    BY SvgNodesBelow
  <2>2. IsElement(node) =>
          /\ node.kids \in Seq(Node)
          /\ Height[node.kids] \in Nat /\ Height[node.kids] < n
    BY KidsRankLower
  <2> HIDE DEF node
  <2>3. Harmless(node)
    BY <2>1
  <2>4. IsElement(node) => \A j \in DOMAIN node.kids : ~NotesDrop[node.kids[j]]
    <3> SUFFICES ASSUME IsElement(node) PROVE \A j \in DOMAIN node.kids : ~NotesDrop[node.kids[j]]
      OBVIOUS
    <3>1. Holds(node.kids)
      BY <1>5, <2>2
    <3> QED BY <2>1, <3>1
  <2>5. IsElement(node) => \A j \in DOMAIN node.attrs : KeepAttribute(node.attrs[j])
    BY <2>3 DEF Harmless, ToSet
  <2>6. ~Noted(node, NotesDrop)
    <3> HIDE DEF N
    <3>1. node.t # "comment"
      BY <2>3 DEF Harmless, IsDropped, IsTextNode, IsElement
    <3>2. IsElement(node) => ~IsTextNode(node)
      BY DEF IsTextNode, IsElement
    <3>3. /\ IsTextNode(node) => "javascript:" \notin node.says
          /\ IsElement(node) => node.local \notin DroppedElements /\ ~LacksReference(node)
      BY <2>3, <3>2 DEF Harmless, IsDropped
    <3> QED BY <2>4, <2>5, <3>1, <3>3 DEF Noted
  <2>7. NotesDrop[node] = Noted(node, NotesDrop)
    BY <2>1, Noting
  <2> QED BY <2>6, <2>7 DEF node
<1> HIDE DEF N
<1>6. \A n \in Nat : n \in N
  BY <1>5, StrongInduction
<1>7. Holds(nodes)
  BY <1>6, Heights DEF N, IsHeight
<1> QED BY <1>4, <1>7

\* Rebuilding leaves nodes of the tree, elements with the children they have got
\* and texts that are no markup; or nodes that stood in a CDATA section.
LEMMA RebuiltMembers ==
  ASSUME NEW nodes \in Seq(Node)
  PROVE  /\ Rebuilt(nodes) \in Seq(Node)
         /\ \A x \in ToSet(Flat[Rebuilt(nodes)]) :
              \/ \E y \in ToSet(Flat[nodes]) : IsTextNode(y) /\ x \in ToSet(Flat[y.live])
              \/ \E y \in ToSet(Flat[nodes]) :
                   /\ x.t = y.t
                   /\ IsTextNode(x) => x = y /\ x.live = <<>>
                   /\ IsElement(x) => x.local = y.local /\ x.attrs = y.attrs
<1>1. Rebuilt(nodes) = Over(RebuildNode, nodes) /\ Rebuilt(nodes) \in Seq(Node)
  <2>1. Rebuilt(nodes) = Over(RebuildNode, nodes)
    BY DEF Rebuilt, Over
  <2> QED BY <2>1, Rebuilding, OverMembers
<1>2. ASSUME NEW x \in ToSet(Flat[Rebuilt(nodes)])
      PROVE  \/ \E y \in ToSet(Flat[nodes]) : IsTextNode(y) /\ x \in ToSet(Flat[y.live])
             \/ \E y \in ToSet(Flat[nodes]) :
                  /\ x.t = y.t
                  /\ IsTextNode(x) => x = y /\ x.live = <<>>
                  /\ IsElement(x) => x.local = y.local /\ x.attrs = y.attrs
  <2>1. PICK y \in ToSet(Flat[nodes]) :
          /\ y \in Node
          /\ \/ y \notin RebuiltBelow /\ x \in ToSet(Flat[RebuiltLeaf[y]])
             \/ /\ y \in RebuiltBelow
                /\ x = WithParts(y, RebuiltAttrs[y], Over(RebuildNode, y.kids))
    <3>1. \A s \in Seq(Node) : \A z \in ToSet(Flat[Over(RebuildNode, s)]) :
            \E y \in ToSet(Flat[s]) :
              /\ y \in Node
              /\ \/ y \notin RebuiltBelow /\ z \in ToSet(Flat[RebuiltLeaf[y]])
                 \/ /\ y \in RebuiltBelow
                    /\ z = WithParts(y, RebuiltAttrs[y], Over(RebuildNode, y.kids))
      BY Rebuilding, MadeMembers
    <3> QED BY <1>1, <3>1
  <2>2. CASE y \notin RebuiltBelow /\ x \in ToSet(Flat[RebuiltLeaf[y]])
    <3>1. ~IsElement(y)
      BY <2>1, <2>2 DEF RebuiltBelow
    <3>2. CASE IsTextNode(y) /\ y.live # <<>>
      BY <2>1, <2>2, <3>2 DEF RebuiltLeaf
    <3>3. CASE ~(IsTextNode(y) /\ y.live # <<>>)
      <4> DEFINE leaf == RebuiltLeaf[y]
      <4>1. leaf = <<y>> /\ leaf \in Seq(Node)
        BY <2>1, <3>3 DEF RebuiltLeaf
      <4> HIDE DEF leaf
      <4>2. PICK i \in DOMAIN leaf : x = leaf[i] \/ IsElement(leaf[i])
        BY <2>2, <4>1, FlatMembers DEF leaf
      <4>3. x = y
        BY <3>1, <4>1, <4>2
      <4> QED BY <2>1, <3>1, <3>3, <4>3
    <3> QED BY <3>2, <3>3
  <2>3. CASE /\ y \in RebuiltBelow
             /\ x = WithParts(y, RebuiltAttrs[y], Over(RebuildNode, y.kids))
    <3>1. IsElement(y) /\ RebuiltAttrs[y] = y.attrs
      BY <2>3 DEF RebuiltBelow, RebuiltAttrs
    <3>2. x.t = y.t /\ x.local = y.local /\ x.attrs = y.attrs
      BY <2>1, <2>3, <3>1, Rebuilding, MadeFits
    <3>3. ~IsTextNode(x)
      BY <3>1, <3>2 DEF IsElement, IsTextNode
    <3> QED BY <2>1, <3>2, <3>3
  <2> QED BY <2>1, <2>2, <2>3
<1> QED BY <1>1, <1>2

\* A tree without CDATA sections is rebuilt as it is.
LEMMA PlainIsRebuilt ==
  ASSUME NEW nodes \in Seq(Node),
         \A x \in ToSet(Flat[nodes]) : IsTextNode(x) => x.live = <<>>
  PROVE  Rebuilt(nodes) = nodes
<1>1. \A x \in ToSet(Flat[nodes]) : x \in Node
  <2>1. \A s \in Seq(Node) : \A x \in ToSet(s) : x \in Node
    BY DEF ToSet
  <2> QED BY <2>1, FlatMembers
<1>2. ASSUME NEW x \in ToSet(Flat[nodes])
      PROVE  IF x \in RebuiltBelow THEN RebuiltAttrs[x] = x.attrs ELSE RebuiltLeaf[x] = <<x>>
  BY <1>1 DEF RebuiltAttrs, RebuiltLeaf
<1>3. Rebuilt(nodes) = Over(RebuildNode, nodes)
  BY DEF Rebuilt, Over
<1> QED BY <1>2, <1>3, Rebuilding, MadeIsKept

-----------------------------------------------------------------------------
(* What is drawn.                                                          *)

\* In terms of ConversionJob, a harmless node that holds no markup is tame, and a
\* tame node with the reference it is drawn from is harmless.
LEMMA HarmlessIsTame ==
  ASSUME NEW node \in Node
  PROVE  /\ Harmless(node) /\ (IsTextNode(node) => node.live = <<>>) => Tame(node)
         /\ /\ Tame(node) /\ ~Scripted(node)
            /\ IsElement(node) /\ node.local \in {"image", "use"} => Refers(node)
            => Harmless(node) /\ (IsTextNode(node) => node.live = <<>>)
<1>1. node.t \in {"text", "comment", "element"}
  BY NodeShape, SvgAssumption DEF Node
<1>2. CASE node.t = "text"
  <2>1. IsTextNode(node) /\ ~IsElement(node)
    BY <1>2 DEF IsTextNode, IsElement
  <2>2. Says(node) = node.says
    BY <2>1 DEF Says
  <2>3. IsDropped(node) <=> node.literal \/ "javascript:" \in node.says
    BY <2>1 DEF IsDropped
  <2>4. Tame(node) <=> ~node.literal /\ node.live = <<>>
    BY <1>2 DEF Tame
  <2>5. ~Scripted(node) => "javascript:" \notin node.says
    BY <2>1, <2>2 DEF Scripted
  <2> QED BY <2>1, <2>3, <2>4, <2>5 DEF Harmless
<1>3. CASE node.t = "comment"
  BY <1>3 DEF Tame, Harmless, IsDropped, IsElement, IsTextNode
<1>4. CASE node.t = "element"
  <2>1. IsElement(node) /\ ~IsTextNode(node)
    BY <1>4 DEF IsTextNode, IsElement
  <2>2. node.attrs \in Seq(Attribute)
    BY <2>1, KidsAreLower
  <2>3. Tame(node) <=>
          /\ node.local \notin DroppedElements
          /\ \A a \in ToSet(node.attrs) : KeepAttribute(a)
    BY <1>4 DEF Tame, ToSet, KeepAttribute, IsHandler, IsUrlAttribute, IsAllowedReference
  <2>4. IsDropped(node) <=> node.local \in DroppedElements \/ LacksReference(node)
    BY <2>1 DEF IsDropped
  <2>5. Harmless(node) => Tame(node)
    BY <2>1, <2>3, <2>4 DEF Harmless
  <2>6. ASSUME Tame(node), node.local \in {"image", "use"} => Refers(node)
        PROVE  Harmless(node)
    <3>1. KeptAttributes(node.attrs) = node.attrs
      BY <2>2, <2>3, <2>6, KeptMembers
    <3>2. node.local \in {"image", "use"} => HasAllowedReference(node.attrs)
      BY <2>3, <2>6 DEF Refers, HasAllowedReference, IsUrlAttribute, KeepAttribute, ToSet
    <3>3. ~LacksReference(node)
      BY <3>1, <3>2 DEF LacksReference
    <3> QED BY <2>1, <2>3, <2>4, <2>6, <3>3 DEF Harmless
  <2> QED BY <2>1, <2>5, <2>6
<1> QED BY <1>1, <1>2, <1>3, <1>4

\* What sanitizeSvg lets through, as it is written out again: each node is tame or
\* stood in a CDATA section, and none runs a script that the tests look for.
THEOREM CleanedIsTamed ==
  ASSUME NEW svg, svg.nodes \in Seq(Node), SvgError(svg) = "OK"
  PROVE  \A x \in ToSet(Flat[Rebuilt(CleanAll(svg.nodes))]) :
           (Tame(x) \/ x \in InCdata(svg.nodes)) /\ ~Scripted(x)
<1> DEFINE nodes   == svg.nodes
           cleaned == CleanAll(nodes)
           rebuilt == Rebuilt(cleaned)
<1>1. /\ cleaned \in Seq(Node)
      /\ \A y \in ToSet(Flat[cleaned]) :
           /\ y \in Node /\ Harmless(y)
           /\ IsTextNode(y) => y \in ToSet(Flat[nodes])
  BY CleanedIsHarmless
<1>2. RebuiltIsSafe(rebuilt, svg.joined)
  BY DEF SvgError
<1> HIDE DEF cleaned, rebuilt
<1>3. ASSUME NEW x \in ToSet(Flat[rebuilt])
      PROVE  (Tame(x) \/ x \in InCdata(nodes)) /\ ~Scripted(x)
  <2>1. ~Scripted(x)
    <3>1. \A p \in Says(x) : p \in Matched(rebuilt)
      BY DEF Matched
    <3>2. "<script" \notin Matched(rebuilt) /\ "javascript:" \notin Matched(rebuilt)
      BY <1>2 DEF RebuiltIsSafe
    <3>3. ~HasTag(rebuilt, "script")
      BY <1>2 DEF RebuiltIsSafe
    <3>4. ~(IsElement(x) /\ x.ns = "" /\ x.local = "script")
      BY <3>3 DEF HasTag
    <3> QED BY <3>1, <3>2, <3>4 DEF Scripted
  <2>2. CASE \E y \in ToSet(Flat[cleaned]) : IsTextNode(y) /\ x \in ToSet(Flat[y.live])
    <3>1. PICK y \in ToSet(Flat[nodes]) : IsTextNode(y) /\ x \in ToSet(Flat[y.live])
      BY <1>1, <2>2
    <3>2. x \in InCdata(nodes)
      BY <3>1 DEF InCdata
    <3> QED BY <2>1, <3>2
  <2>3. CASE \E y \in ToSet(Flat[cleaned]) :
               /\ x.t = y.t
               /\ IsTextNode(x) => x = y /\ x.live = <<>>
               /\ IsElement(x) => x.local = y.local /\ x.attrs = y.attrs
    <3>1. PICK y \in ToSet(Flat[cleaned]) :
            /\ x.t = y.t
            /\ IsTextNode(x) => x = y /\ x.live = <<>>
            /\ IsElement(x) => x.local = y.local /\ x.attrs = y.attrs
      BY <2>3
    <3>2. y \in Node /\ Harmless(y)
      BY <1>1
    <3>3. IsTextNode(y) => y.live = <<>>
      BY <3>1 DEF IsTextNode
    <3>4. Tame(y)
      BY <3>2, <3>3, HarmlessIsTame
    <3>5. y.t \in {"text", "comment", "element"}
      BY <3>2, NodeShape, SvgAssumption DEF Node
    <3>6. Tame(x)
      BY <3>1, <3>4, <3>5 DEF Tame, IsTextNode, IsElement
    <3> QED BY <2>1, <3>6
  <2> QED BY <1>1, <2>2, <2>3, RebuiltMembers DEF rebuilt
<1> QED BY <1>3 DEF rebuilt, cleaned

\* An SVG with nothing in it that is dropped or unsafe is accepted as it is.
THEOREM TamedIsAccepted ==
  ASSUME NEW svg, svg.nodes \in Seq(Node), IsTame(svg)
  PROVE  Rebuilt(CleanAll(svg.nodes)) = svg.nodes /\ SvgError(svg) = "OK"
<1> DEFINE nodes == svg.nodes
<1>1. \A x \in ToSet(Flat[nodes]) : x \in Node
  <2>1. \A s \in Seq(Node) : \A x \in ToSet(s) : x \in Node
    BY DEF ToSet
  <2> QED BY <2>1, FlatMembers
<1>2. \A x \in ToSet(Flat[nodes]) :
        ~Scripted(x) /\ Harmless(x) /\ (IsTextNode(x) => x.live = <<>>)
  BY <1>1, HarmlessIsTame DEF IsTame
<1>3. CleanAll(nodes) = nodes /\ \A i \in DOMAIN nodes : ~NotesDrop[nodes[i]]
  BY <1>2, HarmlessIsKept
<1>4. Rebuilt(nodes) = nodes
  BY <1>2, PlainIsRebuilt
<1>5. PICK i \in DOMAIN nodes :
        IsElement(nodes[i]) /\ nodes[i].ns = "" /\ nodes[i].local = "svg"
  BY DEF IsTame, ToSet
<1>6. HasSvgRoot(nodes)
  BY <1>5 DEF HasSvgRoot
<1>7. HasTag(nodes, "svg")
  BY <1>5, SvgNodesBelow DEF HasTag
<1>8. /\ \A p \in Matched(nodes) : p \notin {"javascript:", "<script"}
      /\ ~HasTag(nodes, "script")
  BY <1>2 DEF Matched, HasTag, Scripted
<1>9. RebuiltIsSafe(nodes, svg.joined)
  <2>1. svg.joined = {}
    BY DEF IsTame
  <2> QED BY <1>7, <1>8, <2>1 DEF RebuiltIsSafe
<1> QED BY <1>3, <1>4, <1>6, <1>9 DEF SvgError

\* The size an SVG gives itself is made of natural numbers.
LEMMA SizeIsRead ==
  \A nodes \in Seq(Node) : ReadSvgSize(nodes) \in [width : Nat, height : Nat, viewBox : BOOLEAN]
<1> SUFFICES ASSUME NEW nodes \in Seq(Node)
             PROVE  ReadSvgSize(nodes) \in [width : Nat, height : Nat, viewBox : BOOLEAN]
  OBVIOUS
<1> DEFINE attrs == Attributes(nodes)
<1>1. attrs \in Seq(Attribute)
  BY AttributeMembers
<1> HIDE DEF attrs
<1>2. ASSUME NEW name, NEW count \in {1, 2}
      PROVE  \A k \in 1..count : First(attrs, name, count)[k] \in Nat
  <2> DEFINE found == {i \in DOMAIN attrs : attrs[i].name = name /\ Len(attrs[i].n) = count}
  <2>1. CASE found = {}
    BY <2>1 DEF First
  <2>2. CASE found # {}
    <3>1. found \in SUBSET Nat
      BY <1>1
    <3>2. Min(found) \in found
      <4> HIDE DEF found
      <4>1. \E first \in found : \A j \in found : first =< j
        BY <2>2, <3>1, FirstExists
      <4> QED BY <4>1 DEF Min
    <3>3. First(attrs, name, count) = attrs[Min(found)].n
      BY <2>2 DEF First
    <3> DEFINE n == attrs[Min(found)].n
    <3>4. n \in Seq(Nat) /\ Len(n) = count
      <4> DEFINE i == Min(found)
      <4>1. i \in DOMAIN attrs /\ Len(attrs[i].n) = count
        BY <3>2
      <4> HIDE DEF i, found
      <4>2. attrs[i] \in Attribute
        BY <1>1, <4>1
      <4>3. attrs[i].n \in Seq(Nat)
        BY <4>2 DEF Attribute
      <4> QED BY <4>1, <4>3 DEF i
    <3> HIDE DEF n, found
    <3>5. \A k \in 1..count : n[k] \in Nat
      BY <3>4
    <3> QED BY <3>3, <3>5 DEF n
  <2> QED BY <2>1, <2>2
<1>3. /\ First(attrs, "width", 1)[1] \in Nat /\ First(attrs, "height", 1)[1] \in Nat
      /\ First(attrs, "viewBox", 2)[1] \in Nat /\ First(attrs, "viewBox", 2)[2] \in Nat
  <2>1. 1 \in 1..1 /\ 1 \in 1..2 /\ 2 \in 1..2
    OBVIOUS
  <2> QED BY <1>2, <2>1
<1> QED BY <1>3 DEF ReadSvgSize, attrs

-----------------------------------------------------------------------------
(* Formats.                                                                *)

\* Two members make a set larger than one.
LEMMA TwoMembers ==
  ASSUME NEW S, IsFiniteSet(S), NEW a \in S, NEW b \in S, a # b
  PROVE  Cardinality(S) > 1
<1>1. /\ IsFiniteSet({a, b}) /\ Cardinality({a, b}) = 2
  <2>1. IsFiniteSet({a}) /\ Cardinality({a}) = 1
    BY FS_Singleton
  <2>2. {a, b} = {a} \cup {b} /\ b \notin {a}
    OBVIOUS
  <2> QED BY <2>1, <2>2, FS_AddElement
<1>2. Cardinality({a, b}) =< Cardinality(S)
  BY FS_Subset
<1>3. Cardinality(S) \in Nat
  BY FS_CardinalityType
<1> QED BY <1>1, <1>2, <1>3

\* At most three hints are a finite set.
LEMMA HintsAreFinite ==
  ASSUME NEW a, NEW b, NEW c, NEW d
  PROVE  IsFiniteSet({a, b, c} \ {d})
<1>1. IsFiniteSet({a}) /\ IsFiniteSet({b}) /\ IsFiniteSet({c})
  BY FS_Singleton
<1>2. IsFiniteSet({a} \cup {b}) /\ IsFiniteSet(({a} \cup {b}) \cup {c})
  BY <1>1, FS_Union
<1>3. {a, b, c} = ({a} \cup {b}) \cup {c}
  OBVIOUS
<1> QED BY <1>2, <1>3, FS_Difference

\* Each hint at the format of a text is a format or nothing.
LEMMA TextHintTypes ==
  ASSUME NEW name, NEW mime, NEW body
  PROVE  /\ FromExtension(name) \in TextFormats \cup {NoFormat}
         /\ FromMime(mime) \in TextFormats \cup {NoFormat}
         /\ FromSniff(body).format \in TextFormats \cup {NoFormat}
         /\ FromSniff(body).weak \in BOOLEAN
BY DEF FromExtension, FromMime, FromSniff, TextFormats, NoFormat

\* What FormatDetectorService.detect answers, in terms of the hints.
LEMMA DetectIsRight ==
  ASSUME NEW name, NEW mime, NEW body,
         NEW found, found = Detect(name, mime, body),
         NEW hints, hints = TextHints(name, mime, body)
  PROVE  /\ found \in TextFormats => hints = {found}
         /\ found = "FORMAT_CONFLICT" => Cardinality(hints) > 1
         /\ found = "UNSUPPORTED_SOURCE_FORMAT" => hints = {}
         /\ found \in ImageSources => FALSE
<1> DEFINE ext   == FromExtension(name)
           type  == FromMime(mime)
           sniff == FromSniff(body)
           clear == IF sniff.weak THEN NoFormat ELSE sniff.format
           hint  == IF ext # NoFormat THEN ext ELSE type
<1>1. /\ ext \in TextFormats \cup {NoFormat} /\ type \in TextFormats \cup {NoFormat}
      /\ sniff.format \in TextFormats \cup {NoFormat} /\ sniff.weak \in BOOLEAN
  BY TextHintTypes
<1>2. hints = {ext, type, clear} \ {NoFormat}
  BY DEF TextHints
<1>3. IsFiniteSet(hints)
  <2>1. IsFiniteSet({ext, type, clear} \ {NoFormat})
    BY HintsAreFinite
  <2> QED BY <1>2, <2>1
<1>4. found =
        IF ext # NoFormat /\ type # NoFormat /\ ext # type THEN "FORMAT_CONFLICT"
        ELSE IF hint # NoFormat
             THEN IF clear \notin {NoFormat, hint} THEN "FORMAT_CONFLICT" ELSE hint
             ELSE IF clear # NoFormat THEN clear ELSE "UNSUPPORTED_SOURCE_FORMAT"
  BY <1>1 DEF Detect, SniffConflicts
<1>5. clear \in TextFormats \cup {NoFormat}
  BY <1>1
<1> HIDE DEF ext, type, sniff, clear
<1>6. CASE ext # NoFormat /\ type # NoFormat /\ ext # type
  BY <1>2, <1>3, <1>4, <1>6, TwoMembers DEF TextFormats, ImageSources
<1>7. CASE ~(ext # NoFormat /\ type # NoFormat /\ ext # type) /\ hint # NoFormat
  <2>1. hint \in hints /\ hint \in TextFormats
    BY <1>1, <1>2, <1>7
  <2>2. CASE clear \notin {NoFormat, hint}
    <3>1. clear \in hints
      BY <1>2, <2>2
    <3> QED BY <1>3, <1>4, <1>7, <2>1, <2>2, <3>1, TwoMembers DEF TextFormats, ImageSources
  <2>3. CASE clear \in {NoFormat, hint}
    <3>1. hints = {hint}
      BY <1>2, <1>7, <2>3
    <3> QED BY <1>4, <1>7, <2>1, <2>3, <3>1 DEF TextFormats, ImageSources
  <2> QED BY <2>2, <2>3
<1>8. CASE hint = NoFormat
  <2>1. ext = NoFormat /\ type = NoFormat
    BY <1>8
  <2> QED BY <1>2, <1>4, <1>5, <2>1 DEF TextFormats, ImageSources, NoFormat
<1> QED BY <1>6, <1>7, <1>8

\* What detectImageFormat answers.
LEMMA DetectImageIsRight ==
  ASSUME NEW name, NEW mime, NEW body,
         NEW found, found = DetectImageFormat(name, mime, body),
         NEW hints, hints = ImageHints(name, mime, body)
  PROVE  /\ found \in ImageSources => hints = {found}
         /\ found = "FORMAT_CONFLICT" => Cardinality(hints) > 1
         /\ found = "UNSUPPORTED_SOURCE_FORMAT" => FormatFromBody(body) = NoFormat
         /\ found \in TextFormats => FALSE
<1> DEFINE inside == FormatFromBody(body)
<1>1. inside \in ImageSources \cup {NoFormat}
  BY DEF FormatFromBody, SniffSvg, ImageSources, NoFormat
<1>2. hints = {FormatFromName(name), FormatFromMime(mime), inside} \ {NoFormat}
  BY DEF ImageHints
<1>3. found =
        IF inside = NoFormat THEN "UNSUPPORTED_SOURCE_FORMAT"
        ELSE IF hints # {inside} THEN "FORMAT_CONFLICT" ELSE inside
  BY <1>2 DEF DetectImageFormat
<1>4. IsFiniteSet(hints)
  <2>1. IsFiniteSet({FormatFromName(name), FormatFromMime(mime), inside} \ {NoFormat})
    BY HintsAreFinite
  <2> QED BY <1>2, <2>1
<1> HIDE DEF inside
<1>5. CASE inside # NoFormat /\ hints # {inside}
  <2>1. PICK other \in hints : other # inside
    BY <1>2, <1>5
  <2> QED BY <1>2, <1>3, <1>4, <1>5, <2>1, TwoMembers DEF TextFormats, ImageSources
<1>6. CASE inside = NoFormat \/ hints = {inside}
  BY <1>1, <1>3, <1>6 DEF TextFormats, ImageSources, NoFormat, inside
<1> QED BY <1>5, <1>6

-----------------------------------------------------------------------------
(* Sizes.                                                                  *)

\* Math.round of a quotient is off by at most one half.
LEMMA RoundDivBounds ==
  ASSUME NEW n \in Nat, NEW d \in Nat \ {0}
  PROVE  /\ RoundDiv(n, d) \in Nat
         /\ 2 * RoundDiv(n, d) * d - 2 * n =< d
         /\ 2 * n - 2 * RoundDiv(n, d) * d =< d
<1> DEFINE q == (2 * n + d) \div (2 * d)
<1>1. 2 * d \in Nat \ {0} /\ 2 * n + d \in Nat
  OBVIOUS
<1>2. q \in Nat /\ (2 * d) * q =< 2 * n + d /\ 2 * n + d < (2 * d) * q + 2 * d
  <2>1. \A a \in Nat, b \in Nat \ {0} :
          a \div b \in Nat /\ b * (a \div b) =< a /\ a < b * (a \div b) + b
    OBVIOUS
  <2> QED BY <1>1, <2>1
<1>3. (2 * d) * q = 2 * q * d
  BY <1>2
<1> QED
  BY <1>2, <1>3 DEF RoundDiv

\* The other side is in proportion to the side that is given.
LEMMA ScaledInProportion ==
  ASSUME NEW length \in Nat \ {0}, NEW of \in Nat \ {0}, NEW to \in Nat \ {0}
  PROVE  InProportion(length, Scaled(length, of, to), of, to)
<1>1. length * to \in Nat
  OBVIOUS
<1> DEFINE r == RoundDiv(length * to, of)
<1>2. r \in Nat /\ 2 * r * of - 2 * (length * to) =< of /\ 2 * (length * to) - 2 * r * of =< of
  BY <1>1, RoundDivBounds
<1>3. Scaled(length, of, to) = IF r < 1 THEN 1 ELSE r
  BY DEF Scaled, AtLeastOne
<1>4. 2 * length * to = 2 * (length * to)
  OBVIOUS
<1> HIDE DEF r
<1> QED BY <1>2, <1>3, <1>4 DEF InProportion

-----------------------------------------------------------------------------
(* Limits.                                                                 *)

\* Counts are numbers, and grow with the visits that are counted.
LEMMA CountGrows ==
  ASSUME NEW vs, NEW what, NEW m \in Nat, NEW n \in Nat, m =< n
  PROVE  /\ Count(vs, m, what) \in Nat /\ Count(vs, n, what) \in Nat
         /\ Count(vs, m, what) =< Count(vs, n, what)
<1> DEFINE C(k) == {j \in 1..k : vs[j].what = what}
<1>1. \A k \in Nat : IsFiniteSet(C(k))
  <2> SUFFICES ASSUME NEW k \in Nat PROVE IsFiniteSet(C(k))
    OBVIOUS
  <2>1. IsFiniteSet(1..k) /\ C(k) \subseteq 1..k
    BY FS_Interval
  <2> QED BY <2>1, FS_Subset
<1>2. C(m) \subseteq C(n)
  OBVIOUS
<1>3. Cardinality(C(m)) \in Nat /\ Cardinality(C(n)) \in Nat
  BY <1>1, FS_CardinalityType
<1>4. Cardinality(C(m)) =< Cardinality(C(n))
  BY <1>1, <1>2, FS_Subset
<1> QED BY <1>3, <1>4 DEF Count

\* The walk over a document refuses it exactly when one of its limits is
\* exceeded in the end, although it stops at the first visit that is too many,
\* and the code it throws names a limit that is exceeded.
THEOREM LimitsCountTheWalk ==
  ASSUME NEW limits \in [{"rows", "depth", "keys", "nodes"} -> Nat \ {0}],
         NEW vs \in Seq(Visit)
  PROVE  LET error   == FirstRefusal(vs, limits)
             tooDeep == \E i \in DOMAIN vs : TooDeep(vs[i], limits)
             Many(what, limit) == Count(vs, Len(vs), what) > limit IN
         /\ error = "OK" <=> ~tooDeep /\ ~Many("node", limits.nodes) /\ ~Many("key", limits.keys)
         /\ error = "LIMIT_DEPTH" => tooDeep
         /\ error = "LIMIT_NODES" => Many("node", limits.nodes)
         /\ error = "LIMIT_KEYS"  => Many("key", limits.keys)
         /\ error \in {"OK", "LIMIT_DEPTH", "LIMIT_NODES", "LIMIT_KEYS"}
<1> DEFINE bad == {i \in DOMAIN vs : Refusal(vs, i, limits) # "OK"}
<1>1. /\ Len(vs) \in Nat /\ DOMAIN vs = 1..Len(vs)
      /\ \A i \in 1..Len(vs) : vs[i].what \in {"node", "key"}
      /\ limits.depth \in Nat /\ limits.nodes \in Nat /\ limits.keys \in Nat
  <2>1. \A i \in 1..Len(vs) : vs[i] \in Visit
    OBVIOUS
  <2>2. \A i \in 1..Len(vs) : vs[i].what \in {"node", "key"}
    BY <2>1 DEF Visit
  <2> QED BY <2>2
<1>2. \A i \in 1..Len(vs), what \in {"node", "key"} :
        /\ Count(vs, i, what) \in Nat /\ Count(vs, Len(vs), what) \in Nat
        /\ Count(vs, i, what) =< Count(vs, Len(vs), what)
  BY <1>1, CountGrows
<1>3. \A i \in 1..Len(vs) :
        /\ Refusal(vs, i, limits) \in {"OK", "LIMIT_DEPTH", "LIMIT_NODES", "LIMIT_KEYS"}
        /\ Refusal(vs, i, limits) = "LIMIT_DEPTH" => TooDeep(vs[i], limits)
        /\ Refusal(vs, i, limits) = "LIMIT_NODES" => Count(vs, i, "node") > limits.nodes
        /\ Refusal(vs, i, limits) = "LIMIT_KEYS" => Count(vs, i, "key") > limits.keys
        /\ Refusal(vs, i, limits) = "OK" =>
             /\ ~TooDeep(vs[i], limits)
             /\ vs[i].what = "node" => ~(Count(vs, i, "node") > limits.nodes)
             /\ vs[i].what = "key" => ~(Count(vs, i, "key") > limits.keys)
  BY DEF Refusal
\* The last visit of a kind counts them all.
<1>4. ASSUME NEW what \in {"node", "key"}, NEW limit \in Nat,
             Count(vs, Len(vs), what) > limit
      PROVE  \E i \in 1..Len(vs) : vs[i].what = what /\ Count(vs, i, what) > limit
  <2> DEFINE all == {j \in 1..Len(vs) : vs[j].what = what}
  <2>1. all # {}
    <3>1. SUFFICES ASSUME all = {} PROVE FALSE
      OBVIOUS
    <3>2. Cardinality(all) = 0
      BY <3>1, FS_EmptySet
    <3> QED BY <1>4, <3>2 DEF Count
  <2>2. all \in SUBSET (1..Len(vs))
    OBVIOUS
  <2>3. PICK last \in all : \A j \in all : j =< last
    <3> HIDE DEF all
    <3> QED BY <1>1, <2>1, <2>2, LastExists
  <2>4. all = {j \in 1..last : vs[j].what = what}
    BY <1>1, <2>3
  <2>5. Count(vs, last, what) = Count(vs, Len(vs), what)
    BY <2>4 DEF Count
  <2> QED BY <1>4, <2>3, <2>5
<1> DEFINE tooDeep == \E i \in DOMAIN vs : TooDeep(vs[i], limits)
           Many(what, limit) == Count(vs, Len(vs), what) > limit
<1>5. bad = {} <=> ~tooDeep /\ ~Many("node", limits.nodes) /\ ~Many("key", limits.keys)
  <2>1. ASSUME bad = {}
        PROVE  ~tooDeep /\ ~Many("node", limits.nodes) /\ ~Many("key", limits.keys)
    BY <1>1, <1>3, <1>4, <2>1
  <2>2. ASSUME NEW i \in bad
        PROVE  tooDeep \/ Many("node", limits.nodes) \/ Many("key", limits.keys)
    <3>1. i \in 1..Len(vs) /\ Refusal(vs, i, limits) # "OK"
      BY <1>1
    <3>2. CASE Refusal(vs, i, limits) = "LIMIT_DEPTH"
      BY <1>1, <1>3, <3>1, <3>2
    <3>3. CASE Refusal(vs, i, limits) = "LIMIT_NODES"
      <4>1. Count(vs, i, "node") > limits.nodes
        BY <1>3, <3>1, <3>3
      <4> QED BY <1>1, <1>2, <3>1, <4>1
    <3>4. CASE Refusal(vs, i, limits) = "LIMIT_KEYS"
      <4>1. Count(vs, i, "key") > limits.keys
        BY <1>3, <3>1, <3>4
      <4> QED BY <1>1, <1>2, <3>1, <4>1
    <3> QED BY <1>3, <3>1, <3>2, <3>3, <3>4
  <2> QED BY <2>1, <2>2
<1>6. CASE bad = {}
  <2>1. FirstRefusal(vs, limits) = "OK"
    BY <1>6 DEF FirstRefusal
  <2> HIDE DEF bad
  <2> QED BY <1>5, <1>6, <2>1
<1>7. CASE bad # {}
  <2> DEFINE first == CHOOSE i \in bad : \A j \in bad : i <= j
  <2>1. \E i \in bad : \A j \in bad : i =< j
    <3>1. bad \in SUBSET Nat
      BY <1>1
    <3> HIDE DEF bad
    <3> QED BY <1>7, <3>1, FirstExists
  <2>2. FirstRefusal(vs, limits) = Refusal(vs, first, limits)
    BY <1>7 DEF FirstRefusal
  <2> HIDE DEF first
  <2>0. first \in bad
    BY <2>1 DEF first
  <2> PICK i \in bad : FirstRefusal(vs, limits) = Refusal(vs, i, limits)
    BY <2>0, <2>2
  <2>3. i \in 1..Len(vs) /\ Refusal(vs, i, limits) # "OK"
    BY <1>1
  <2>4. ~(~tooDeep /\ ~Many("node", limits.nodes) /\ ~Many("key", limits.keys))
    BY <1>5, <1>7
  <2>5. Refusal(vs, i, limits) \in {"LIMIT_DEPTH", "LIMIT_NODES", "LIMIT_KEYS"}
    BY <1>3, <2>3
  <2>6. /\ Refusal(vs, i, limits) = "LIMIT_DEPTH" => tooDeep
        /\ Refusal(vs, i, limits) = "LIMIT_NODES" => Many("node", limits.nodes)
        /\ Refusal(vs, i, limits) = "LIMIT_KEYS" => Many("key", limits.keys)
    BY <1>1, <1>2, <1>3, <2>3
  <2> HIDE DEF tooDeep, Many
  <2>7. FirstRefusal(vs, limits) = Refusal(vs, i, limits)
    OBVIOUS
  <2>8. FirstRefusal(vs, limits) # "OK"
    BY <2>5, <2>7
  <2> QED BY <2>4, <2>5, <2>6, <2>7, <2>8 DEF tooDeep, Many
<1> QED BY <1>6, <1>7

-----------------------------------------------------------------------------
(* The job.                                                                *)

\* A refusal for another reason than the format.
OtherCodes == {"FILE_TOO_LARGE", "INVALID_TARGET_FORMAT", "INVALID_SAVE", "FILE_EMPTY",
               "PAIR_NOT_ALLOWED", "INVALID_ENCODING", "INVALID_SYNTAX", "LIMIT_DEPTH",
               "LIMIT_KEYS", "LIMIT_NODES", "LIMIT_ROWS", "CONVERSION_AMBIGUOUS",
               "INVALID_OPTIONS", "LIMIT_IMAGE_DIMENSION", "LIMIT_IMAGE_PIXELS",
               "UNSAFE_SVG", "INVALID_IMAGE", "CONVERT_INTERNAL"}

\* The helpers that name a reason name none of the format.
LEMMA ReasonsAreOther ==
  /\ \A v : SanitizeError(v, TextLimits) \in OtherCodes \cup {"OK"}
  /\ \A table : CsvError(table, TextLimits) \in OtherCodes \cup {"OK"}
  /\ \A form : OptionsError(form, ImageLimits) \in OtherCodes \cup {"OK"}
  /\ \A svg : SvgError(svg) \in OtherCodes \cup {"OK"}
  /\ \A s : SizeError(s, ImageLimits) \in OtherCodes \cup {"OK"}
<1>1. \A v : SanitizeError(v, TextLimits) \in OtherCodes \cup {"OK"}
  <2>1. \A vs, i : Refusal(vs, i, TextLimits) \in OtherCodes \cup {"OK"}
    BY DEF Refusal, OtherCodes
  <2> QED BY <2>1 DEF SanitizeError, FirstRefusal, OtherCodes
<1>2. \A table : CsvError(table, TextLimits) \in OtherCodes \cup {"OK"}
  BY DEF CsvError, OtherCodes
<1>3. \A form : OptionsError(form, ImageLimits) \in OtherCodes \cup {"OK"}
  BY DEF OptionsError, OtherCodes
<1>4. \A svg : SvgError(svg) \in OtherCodes \cup {"OK"}
  BY DEF SvgError, OtherCodes
<1>5. \A s : SizeError(s, ImageLimits) \in OtherCodes \cup {"OK"}
  BY DEF SizeError, OtherCodes
<1> QED BY <1>1, <1>2, <1>3, <1>4, <1>5

\* A job starts with nothing known.
LEMMA InitStep == Init => IndInv
BY DEF Init, IndInv, DetectionIsKept, SizeIsKept, SizeIsSound, Converted, Replied,
   Unread, OfText, OfImage, NoReply

\* A refusal for another reason keeps the invariant.
LEMMA RefuseStep ==
  ASSUME IndInv, upload' = upload, NEW code \in OtherCodes, Refuse(code)
  PROVE  IndInv'
<1>1. DetectionIsKept'
  BY DEF IndInv, DetectionIsKept, Refuse, Detected, IsText, OtherCodes, Unread, OfText, OfImage
<1>2. SizeIsKept' /\ SizeIsSound'
  BY DEF Refuse, SizeIsKept, SizeIsSound, Converted, Replied, Unread, OfText, OfImage,
     OtherCodes
<1> QED BY <1>1, <1>2 DEF IndInv

\* The checks both services make keep it.
LEMMA CheckSteps ==
  ASSUME IndInv, upload \in Upload,
         \/ SpoolUpload \/ ReadFields \/ CheckEmpty \/ DetectSource
         \/ CheckUploadSize \/ CheckPair
  PROVE  IndInv'
<1> USE DEF Unread, OfText, OfImage, Check
<1>1. CASE SpoolUpload
  <2>1. upload' = upload /\ (Refuse("FILE_TOO_LARGE") \/ pc' = "fields")
    BY <1>1 DEF SpoolUpload
  <2>2. CASE Refuse("FILE_TOO_LARGE")
    BY <2>1, <2>2, RefuseStep DEF OtherCodes
  <2>3. CASE ~Refuse("FILE_TOO_LARGE")
    BY <1>1, <2>3 DEF SpoolUpload, IndInv, DetectionIsKept, SizeIsKept, SizeIsSound,
       Converted, Replied, Detected, IsText
  <2> QED BY <2>2, <2>3
<1>2. CASE ReadFields
  <2>1. \/ Refuse("INVALID_TARGET_FORMAT") \/ Refuse("INVALID_SAVE")
        \/ pc = "fields" /\ pc' = "empty" /\ UNCHANGED <<source, work, size, reply>>
    BY <1>2 DEF ReadFields
  <2>2. upload' = upload
    BY <1>2 DEF ReadFields
  <2>3. CASE pc = "fields" /\ pc' = "empty" /\ UNCHANGED <<source, work, size, reply>>
    BY <2>2, <2>3 DEF IndInv, DetectionIsKept, SizeIsKept, SizeIsSound,
       Converted, Replied, Detected, IsText
  <2> QED BY <2>1, <2>2, <2>3, RefuseStep DEF OtherCodes
<1>3. CASE CheckEmpty
  <2>1. upload' = upload
    BY <1>3 DEF CheckEmpty
  <2>2. CASE Refuse("FILE_EMPTY")
    BY <2>1, <2>2, RefuseStep DEF OtherCodes
  <2>3. CASE ~Refuse("FILE_EMPTY")
    BY <1>3, <2>3 DEF CheckEmpty, IndInv, DetectionIsKept, SizeIsKept, SizeIsSound,
       Converted, Replied, Detected, IsText
  <2> QED BY <2>2, <2>3
<1>4. CASE DetectSource
  <2>1. upload' = upload /\ pc = "detect"
    BY <1>4 DEF DetectSource
  <2>2. CASE Detected \in TextFormats \cup ImageSources
    <3>1. pc' = "cap" /\ source' = Detected /\ UNCHANGED <<target, work, size, reply>>
      BY <1>4, <2>2 DEF DetectSource
    <3> QED BY <2>1, <2>2, <3>1 DEF IndInv, DetectionIsKept, SizeIsKept, SizeIsSound,
       Converted, Replied, Detected, IsText
  <2>3. CASE Detected \notin TextFormats \cup ImageSources
    <3>1. Refuse(Detected)
      BY <1>4, <2>3 DEF DetectSource
    <3>2. pc' = "done" /\ reply'.code = Detected /\ UNCHANGED <<source, target, work, size>>
      BY <3>1 DEF Refuse
    <3>3. Detected # "OK"
      <4>1. \A name, mime, body : Detect(name, mime, body) # "OK"
        BY TextHintTypes DEF Detect, TextFormats, NoFormat
      <4>2. \A name, mime, body : DetectImageFormat(name, mime, body) # "OK"
        BY DEF DetectImageFormat, FormatFromBody, SniffSvg
      <4> QED BY <4>1, <4>2 DEF Detected
    <3> QED BY <2>1, <3>2, <3>3 DEF IndInv, DetectionIsKept, SizeIsKept, SizeIsSound,
       Converted, Replied, Detected, IsText
  <2> QED BY <2>2, <2>3
<1>5. CASE CheckUploadSize
  <2>1. upload' = upload
    BY <1>5 DEF CheckUploadSize
  <2>2. CASE Refuse("FILE_TOO_LARGE")
    BY <2>1, <2>2, RefuseStep DEF OtherCodes
  <2>3. CASE ~Refuse("FILE_TOO_LARGE")
    BY <1>5, <2>3 DEF CheckUploadSize, IndInv, DetectionIsKept, SizeIsKept, SizeIsSound,
       Converted, Replied, Detected, IsText
  <2> QED BY <2>2, <2>3
<1>6. CASE CheckPair
  <2>1. upload' = upload
    BY <1>6 DEF CheckPair
  <2>2. CASE Refuse("PAIR_NOT_ALLOWED")
    BY <2>1, <2>2, RefuseStep DEF OtherCodes
  <2>3. CASE ~Refuse("PAIR_NOT_ALLOWED")
    BY <1>6, <2>3 DEF CheckPair, IndInv, DetectionIsKept, SizeIsKept, SizeIsSound,
       Converted, Replied, Detected, IsText
  <2> QED BY <2>2, <2>3
<1> QED BY <1>1, <1>2, <1>3, <1>4, <1>5, <1>6

\* What is done with a text says nothing of its format any more.
LEMMA TextSteps ==
  ASSUME IndInv, upload \in Upload, DecodeText \/ Parse \/ Adapt \/ Serialize
  PROVE  IndInv'
<1> USE DEF Unread, OfText, OfImage
<1>1. /\ upload' = upload /\ IsText /\ IsText' /\ pc \in OfText
      /\ \/ \E code \in OtherCodes : Refuse(code)
         \/ pc' \in OfText /\ UNCHANGED <<source, reply>>
         \/ pc' = "done" /\ reply' = [code |-> "OK", status |-> 200] /\ UNCHANGED source
  <2>1. CASE DecodeText
    BY <2>1 DEF DecodeText, Check, IndInv, SizeIsKept, IsText, OtherCodes
  <2>2. CASE Parse
    <3>1. /\ CsvError(work, TextLimits) \in OtherCodes \cup {"OK"}
          /\ SanitizeError(work, TextLimits) \in OtherCodes \cup {"OK"}
          /\ "INVALID_SYNTAX" \in OtherCodes /\ "LIMIT_DEPTH" \in OtherCodes
      BY ReasonsAreOther DEF OtherCodes
    <3>2. ParseErrors(work) \subseteq OtherCodes
      BY <3>1 DEF ParseErrors
    <3> QED BY <2>2, <3>2 DEF Parse, IndInv, SizeIsKept, IsText
  <2>3. CASE Adapt
    BY <2>3 DEF Adapt, IndInv, SizeIsKept, IsText, OtherCodes
  <2>4. CASE Serialize
    BY <2>4 DEF Serialize, Deliver, IndInv, SizeIsKept, IsText, OtherCodes
  <2> QED BY <2>1, <2>2, <2>3, <2>4
<1>2. CASE \E code \in OtherCodes : Refuse(code)
  BY <1>1, <1>2, RefuseStep
<1>3. CASE ~\E code \in OtherCodes : Refuse(code)
  <2>1. DetectionIsKept'
    BY <1>1, <1>3 DEF IndInv, DetectionIsKept, Detected
  <2>2. SizeIsKept' /\ SizeIsSound'
    BY <1>1, <1>3 DEF SizeIsKept, SizeIsSound
  <2> QED BY <2>1, <2>2 DEF IndInv
<1> QED BY <1>2, <1>3

\* The options that were let through ask for nothing or for a positive side.
LEMMA RequestedIsNat ==
  ASSUME OptionsError(upload.form, ImageLimits) = "OK"
  PROVE  Requested("width") \in Nat /\ Requested("height") \in Nat
<1> DEFINE width  == Option(upload.form, "width")
           height == Option(upload.form, "height")
<1>1. /\ ImageLimits.width \in Nat /\ ImageLimits.height \in Nat
  BY ConversionAssumption
<1>2. /\ Given(width) => width.n \in 1..ImageLimits.width
      /\ Given(height) => height.n \in 1..ImageLimits.height
  BY DEF OptionsError
<1> QED BY <1>1, <1>2 DEF Requested

\* The size resolveSvgSize finds and lets through is sound.
LEMMA ResolvedIsSound ==
  ASSUME NEW nodes, NEW w \in Nat, NEW h \in Nat, NEW own, NEW s,
         own = ReadSvgSize(nodes),
         own \in [width : Nat, height : Nat, viewBox : BOOLEAN],
         s = ResolveSize(nodes, w, h), SizeError(s, ImageLimits) = "OK"
  PROVE  /\ s.width \in 1..ImageLimits.width /\ s.height \in 1..ImageLimits.height
         /\ s.width * s.height \in 1..ImageLimits.pixels
         /\ w # 0 => s.width = w
         /\ h # 0 => s.height = h
         /\ own.width # 0 /\ own.height # 0 =>
              /\ w # 0 /\ h = 0 => InProportion(w, s.height, own.width, own.height)
              /\ w = 0 /\ h # 0 => InProportion(h, s.width, own.height, own.width)
<1>1. /\ ImageLimits.width \in Nat /\ ImageLimits.height \in Nat
      /\ ImageLimits.pixels \in Nat
  BY ConversionAssumption
<1>2. /\ s.width \in 1..ImageLimits.width /\ s.height \in 1..ImageLimits.height
      /\ ~(s.width * s.height > ImageLimits.pixels)
  BY DEF SizeError
<1>3. s.width * s.height \in 1..ImageLimits.pixels
  <2>1. \A a, b \in Nat \ {0} : a * b \in Nat \ {0}
    OBVIOUS
  <2>2. s.width \in Nat \ {0} /\ s.height \in Nat \ {0}
    BY <1>1, <1>2
  <2>3. s.width * s.height \in Nat \ {0}
    BY <2>1, <2>2
  <2> QED BY <1>1, <1>2, <2>3
<1>4. own.width \in Nat /\ own.height \in Nat
  OBVIOUS
<1>5. /\ w # 0 => s.width = w
      /\ h # 0 => s.height = h
      /\ w # 0 /\ h = 0 => s.height = Scaled(w, own.width, own.height)
      /\ w = 0 /\ h # 0 => s.width = Scaled(h, own.height, own.width)
  BY DEF ResolveSize
<1> QED BY <1>2, <1>3, <1>4, <1>5, ScaledInProportion

\* What is done with a picture keeps the invariant.
LEMMA ImageSteps ==
  ASSUME IndInv, upload \in Upload,
         ReadOptions \/ CleanSvg \/ ResolveSvgSize \/ MeasureRaster \/ Render
  PROVE  IndInv'
<1> USE DEF Unread, OfText, OfImage
<1>1. /\ upload' = upload /\ ~IsText /\ ~IsText' /\ pc \in OfImage
      /\ \/ \E code \in OtherCodes : Refuse(code)
         \/ pc' \in OfImage /\ UNCHANGED <<source, reply>>
         \/ pc' = "done" /\ reply' = [code |-> "OK", status |-> 200] /\ UNCHANGED source
  <2>1. /\ OptionsError(upload.form, ImageLimits) \in OtherCodes \cup {"OK"}
        /\ \A s : SizeError(s, ImageLimits) \in OtherCodes \cup {"OK"}
    BY ReasonsAreOther
  <2>2. CASE ReadOptions
    BY <2>1, <2>2 DEF ReadOptions, Check, IndInv, SizeIsKept, IsText
  <2>3. CASE CleanSvg
    BY <2>3 DEF CleanSvg, IndInv, SizeIsKept, IsText, OtherCodes
  <2>4. CASE ResolveSvgSize
    <3>1. PICK error \in OtherCodes \cup {"OK"} :
            /\ IF error # "OK" THEN Refuse(error)
               ELSE pc' = "render" /\ UNCHANGED <<source, reply>>
      BY <2>1, <2>4 DEF ResolveSvgSize
    <3> QED BY <2>4, <3>1 DEF ResolveSvgSize, IndInv, SizeIsKept, IsText
  <2>5. CASE MeasureRaster
    BY <2>5 DEF MeasureRaster, IndInv, SizeIsKept, IsText, OtherCodes, SharpErrors
  <2>6. CASE Render
    BY <2>6 DEF Render, Deliver, IndInv, SizeIsKept, IsText, OtherCodes, SharpErrors
  <2> QED BY <2>2, <2>3, <2>4, <2>5, <2>6
<1>2. CASE \E code \in OtherCodes : Refuse(code)
  BY <1>1, <1>2, RefuseStep
<1>3. CASE ~\E code \in OtherCodes : Refuse(code)
  <2>1. DetectionIsKept'
    BY <1>1, <1>3 DEF IndInv, DetectionIsKept, Detected
  <2>2. upload.kind = "image" /\ upload'.form = upload.form
    BY <1>1, UploadAssumption DEF IsText
  <2>3. CASE ReadOptions
    <3>1. /\ pc = "options" /\ pc' = IF source = "svg" THEN "clean" ELSE "measure"
          /\ OptionsError(upload.form, ImageLimits) = "OK"
          /\ UNCHANGED <<source, target, work, size, reply>>
      BY <1>3, <2>3, ReasonsAreOther DEF ReadOptions, Check
    <3>2. SizeIsKept' /\ SizeIsSound'
      BY <1>1, <3>1 DEF IndInv, SizeIsKept, SizeIsSound, Converted, Replied
    <3> QED BY <2>1, <3>2 DEF IndInv
  <2>4. CASE CleanSvg
    <3>1. /\ pc = "clean" /\ pc' = "resolve"
          /\ work' = [work EXCEPT !.nodes = Rebuilt(CleanAll(@))]
          /\ UNCHANGED <<source, target, size, reply>>
      BY <1>3, <2>4 DEF CleanSvg, OtherCodes
    <3>2. work = upload.content.doc /\ work \in [t : {"svg"}, nodes : Seq(Node), joined : SUBSET Patterns]
      BY <2>2, <3>1, UploadAssumption DEF IndInv, SizeIsKept
    <3>3. work'.nodes = Rebuilt(CleanAll(upload'.content.doc.nodes))
      BY <1>1, <3>1, <3>2
    <3>4. SizeIsKept' /\ SizeIsSound'
      BY <1>1, <3>1, <3>3 DEF IndInv, SizeIsKept, SizeIsSound, Converted, Replied
    <3> QED BY <2>1, <3>4 DEF IndInv
  <2>5. CASE ResolveSvgSize
    <3> DEFINE w == Requested("width")
               h == Requested("height")
               own == ReadSvgSize(work.nodes)
    <3>1. /\ pc = "resolve" /\ pc' = "render" /\ size' = ResolveSize(work.nodes, w, h)
          /\ SizeError(size', ImageLimits) = "OK"
          /\ UNCHANGED <<source, target, work, reply>>
      <4>1. SizeError(ResolveSize(work.nodes, w, h), ImageLimits) \in OtherCodes \cup {"OK"}
        BY ReasonsAreOther
      <4> QED BY <1>3, <2>5, <4>1 DEF ResolveSvgSize
    <3>2. w \in Nat /\ h \in Nat
      BY <3>1, RequestedIsNat DEF IndInv, SizeIsKept
    <3>3. own \in [width : Nat, height : Nat, viewBox : BOOLEAN]
      <4>1. upload.content.doc.nodes \in Seq(Node)
        BY <2>2, UploadAssumption
      <4>2. work.nodes = Rebuilt(CleanAll(upload.content.doc.nodes))
        BY <3>1 DEF IndInv, SizeIsKept
      <4>3. work.nodes \in Seq(Node)
        BY <4>1, <4>2, CleanedIsHarmless, RebuiltMembers
      <4> QED BY <4>3, SizeIsRead
    <3>4. UNCHANGED <<w, h, own>>
      BY <1>1, <3>1 DEF Requested
    <3>5. SizeFits'
      <4> HIDE DEF w, h, own
      <4>1. /\ size'.width \in 1..ImageLimits.width /\ size'.height \in 1..ImageLimits.height
            /\ size'.width * size'.height \in 1..ImageLimits.pixels
            /\ w # 0 => size'.width = w
            /\ h # 0 => size'.height = h
            /\ own.width # 0 /\ own.height # 0 =>
                 /\ w # 0 /\ h = 0 => InProportion(w, size'.height, own.width, own.height)
                 /\ w = 0 /\ h # 0 => InProportion(h, size'.width, own.height, own.width)
        BY <3>1, <3>2, <3>3, ResolvedIsSound DEF own
      <4> QED BY <3>4, <4>1 DEF SizeFits, w, h, own
    <3>6. SizeIsKept' /\ SizeIsSound'
      BY <1>1, <3>1, <3>5 DEF IndInv, SizeIsKept, SizeIsSound, Converted, Replied
    <3> QED BY <2>1, <3>6 DEF IndInv
  <2>6. CASE MeasureRaster
    <3> DEFINE meta == upload.content.raster
    <3>1. /\ pc = "measure" /\ pc' = "render" /\ size' = meta
          /\ ~(meta.width < 1) /\ ~(meta.height < 1)
          /\ ~(meta.width * meta.height > ImageLimits.pixels)
          /\ UNCHANGED <<source, target, work, reply>>
      BY <1>3, <2>6 DEF MeasureRaster, OtherCodes, SharpErrors
    <3>2. meta.width \in Nat /\ meta.height \in Nat /\ ImageLimits.pixels \in Nat
      BY <2>2, UploadAssumption, ConversionAssumption
    <3>3. \A a, b \in Nat \ {0} : a * b \in Nat \ {0}
      OBVIOUS
    <3> HIDE DEF meta
    <3>4. meta.width * meta.height \in 1..ImageLimits.pixels
      BY <3>1, <3>2, <3>3
    <3>5. source # "svg"
      BY <3>1 DEF IndInv, SizeIsKept
    <3>6. SizeFits'
      BY <3>1, <3>4, <3>5 DEF SizeFits
    <3>7. SizeIsKept' /\ SizeIsSound'
      BY <1>1, <3>1, <3>6 DEF IndInv, SizeIsKept, SizeIsSound, Converted, Replied
    <3> QED BY <2>1, <3>7 DEF IndInv
  <2>7. CASE Render
    <3>1. /\ pc = "render" /\ pc' = "done" /\ work' = work
          /\ UNCHANGED <<source, target, size>>
      BY <1>3, <2>7 DEF Render, Deliver, OtherCodes, SharpErrors
    <3>2. SizeFits'
      BY <1>1, <3>1 DEF IndInv, SizeIsKept, SizeFits, Requested
    <3>3. SizeIsKept' /\ SizeIsSound'
      BY <1>1, <3>1, <3>2 DEF SizeIsKept, SizeIsSound
    <3> QED BY <2>1, <3>3 DEF IndInv
  <2> QED BY <2>3, <2>4, <2>5, <2>6, <2>7
<1> QED BY <1>2, <1>3

\* The invariant holds in every reachable state of a job.
THEOREM Invariance == Spec => [](upload \in Upload /\ IndInv)
<1>1. Init => upload \in Upload /\ IndInv
  BY InitStep DEF Init
<1>2. upload \in Upload /\ IndInv /\ [Next]_vars => (upload \in Upload /\ IndInv)'
  <2> SUFFICES ASSUME upload \in Upload, IndInv, [Next]_vars
               PROVE  upload' = upload /\ IndInv'
    OBVIOUS
  <2>1. CASE \/ SpoolUpload \/ ReadFields \/ CheckEmpty \/ DetectSource
             \/ CheckUploadSize \/ CheckPair
    BY <2>1, CheckSteps DEF SpoolUpload, ReadFields, CheckEmpty, DetectSource,
       CheckUploadSize, CheckPair, Check
  <2>2. CASE DecodeText \/ Parse \/ Adapt \/ Serialize
    BY <2>2, TextSteps DEF DecodeText, Parse, Adapt, Serialize, Check
  <2>3. CASE ReadOptions \/ CleanSvg \/ ResolveSvgSize \/ MeasureRaster \/ Render
    BY <2>3, ImageSteps DEF ReadOptions, CleanSvg, ResolveSvgSize, MeasureRaster,
       Render, Check
  <2>4. CASE UNCHANGED vars
    BY <2>4 DEF vars, IndInv, DetectionIsKept, SizeIsKept, SizeIsSound, Converted,
       Replied, Detected, IsText, SizeFits, Requested
  <2> QED BY <2>1, <2>2, <2>3, <2>4 DEF Next
<1> QED BY <1>1, <1>2, PTL DEF Spec

\* The format of an accepted upload is what all its hints say, and one that is
\* refused for its format has none or has hints that differ.
THEOREM FormatsAgree == Spec => []DetectionAgrees
<1>1. upload \in Upload /\ IndInv => DetectionAgrees
  <2> SUFFICES ASSUME upload \in Upload, DetectionIsKept PROVE DetectionAgrees
    BY DEF IndInv
  <2>1. CASE IsText
    BY <2>1, DetectIsRight DEF DetectionIsKept, DetectionAgrees, Detected
  <2>2. CASE ~IsText
    BY <2>2, DetectImageIsRight DEF DetectionIsKept, DetectionAgrees, Detected
  <2> QED BY <2>1, <2>2
<1> QED BY <1>1, Invariance, PTL

\* A picture is delivered within all limits, with the sides that were asked for
\* and in the proportions of the SVG when only one was.
THEOREM PicturesFit == Spec => []SizeIsSound
BY Invariance, PTL DEF IndInv

-----------------------------------------------------------------------------
(* SVG.                                                                    *)

\* An uploaded SVG is a tree of nodes.
LEMMA SvgIsTree ==
  ASSUME upload \in Upload, ~IsText, NEW doc, doc = upload.content.doc,
         NEW safe, safe = [doc EXCEPT !.nodes = Rebuilt(CleanAll(@))]
  PROVE  /\ doc.nodes \in Seq(Node)
         /\ safe.nodes = Rebuilt(CleanAll(doc.nodes))
         /\ Rebuilt(CleanAll(doc.nodes)) = doc.nodes => safe = doc
<1>1. doc \in [t : {"svg"}, nodes : Seq(Node), joined : SUBSET Patterns]
  BY UploadAssumption DEF IsText
<1> QED BY <1>1

\* A refusal, unless it is that of the SVG, keeps what is known of it.
LEMMA RefuseKeepsSvg ==
  ASSUME SvgIsKept, pc # "done", upload' = upload, NEW code, Refuse(code), code # "OK",
         source = "svg" /\ code = "UNSAFE_SVG" =>
           upload.content.malformed \/ SvgError(upload.content.doc) # "OK"
  PROVE  SvgIsKept'
BY DEF SvgIsKept, Refuse, Replied, Converted, IsText

\* Each step keeps it.
LEMMA SvgStep ==
  ASSUME upload \in Upload, IndInv, SvgIsKept, Next
  PROVE  SvgIsKept'
<1> DEFINE Early == {"spool", "fields", "empty", "detect", "cap", "pair", "options"}
           Onward == /\ UNCHANGED <<upload, source, work, reply>>
                     /\ pc \in Early /\ pc' \notin {"resolve", "render", "done"}
           Refused == /\ upload' = upload
                      /\ \E code : code \notin {"OK", "UNSAFE_SVG"} /\ Refuse(code)
<1>1. CASE Onward
  BY <1>1 DEF SvgIsKept, Replied, Converted, IsText, IndInv, DetectionIsKept, NoReply
<1>2. CASE Refused /\ pc # "done"
  BY <1>2, RefuseKeepsSvg
<1>3. CASE SpoolUpload \/ ReadFields \/ CheckEmpty \/ CheckUploadSize \/ CheckPair
  BY <1>1, <1>2, <1>3 DEF SpoolUpload, ReadFields, CheckEmpty, CheckUploadSize, CheckPair,
     Check
<1>4. CASE DetectSource
  <2>1. pc = "detect" /\ upload' = upload
    BY <1>4 DEF DetectSource
  <2>2. CASE Detected \in TextFormats \cup ImageSources
    <3>1. pc' = "cap" /\ source' = Detected /\ UNCHANGED <<work, reply>>
      BY <1>4, <2>2 DEF DetectSource
    <3>2. source' = "svg" => ~IsText
      BY <3>1, DetectIsRight DEF Detected, ImageSources
    <3>3. work = upload.content.doc /\ reply = NoReply
      BY <2>1 DEF IndInv, SizeIsKept, DetectionIsKept, Unread
    <3> QED BY <2>1, <3>1, <3>2, <3>3 DEF SvgIsKept, Replied, Converted, IsText, NoReply
  <2>3. CASE Detected \notin TextFormats \cup ImageSources
    <3>1. source' = source
      BY <1>4, <2>3 DEF DetectSource, Refuse
    <3>2. source # "svg"
      BY <2>1 DEF IndInv, DetectionIsKept, Unread, NoFormat
    <3> QED BY <3>1, <3>2 DEF SvgIsKept
  <2> QED BY <2>2, <2>3
<1>5. CASE DecodeText \/ Parse \/ Adapt \/ Serialize
  <2>1. source' = source
    BY <1>5 DEF DecodeText, Parse, Adapt, Serialize, Check, Refuse, Deliver
  <2>2. IsText
    BY <1>5 DEF DecodeText, Parse, Adapt, Serialize, Check, IndInv, SizeIsKept, OfText
  <2> QED BY <2>1, <2>2 DEF SvgIsKept
<1>6. CASE ReadOptions
  <2>1. OptionsError(upload.form, ImageLimits) # "UNSAFE_SVG"
    BY DEF OptionsError
  <2> QED BY <1>1, <1>2, <1>6, <2>1 DEF ReadOptions, Check
<1>7. CASE CleanSvg
  <2>1. pc = "clean" /\ upload' = upload /\ work = upload.content.doc /\ ~IsText
    BY <1>7 DEF CleanSvg, IndInv, SizeIsKept, OfImage
  <2>2. CASE Refuse("INVALID_ENCODING")
    BY <2>1, <2>2, RefuseKeepsSvg
  <2>3. CASE Refuse("UNSAFE_SVG") /\ (upload.content.malformed \/ SvgError(work) # "OK")
    BY <2>1, <2>3, RefuseKeepsSvg
  <2>4. CASE /\ SvgError(work) = "OK"
             /\ pc' = "resolve" /\ work' = [work EXCEPT !.nodes = Rebuilt(CleanAll(@))]
             /\ UNCHANGED <<source, target, size, reply>>
    <3>1. reply = NoReply
      BY <2>1 DEF IndInv, DetectionIsKept
    <3> QED BY <2>1, <2>4, <3>1 DEF SvgIsKept, Replied, Converted, IsText, NoReply
  <2> QED BY <1>7, <2>2, <2>3, <2>4 DEF CleanSvg
<1>8. CASE ResolveSvgSize
  <2>1. /\ pc = "resolve" /\ upload' = upload
        /\ \/ \E code : code \notin {"OK", "UNSAFE_SVG"} /\ Refuse(code)
           \/ pc' = "render" /\ UNCHANGED <<source, work, reply>>
    <3>1. \A s : SizeError(s, ImageLimits) # "UNSAFE_SVG"
      BY DEF SizeError
    <3>2. \E error : /\ error # "UNSAFE_SVG"
                     /\ IF error # "OK" THEN Refuse(error)
                        ELSE pc' = "render" /\ UNCHANGED <<source, work, reply>>
      BY <1>8, <3>1 DEF ResolveSvgSize
    <3> QED BY <1>8, <3>2 DEF ResolveSvgSize
  <2>2. CASE pc' = "render" /\ UNCHANGED <<source, work, reply>>
    <3>1. reply = NoReply
      BY <2>1 DEF IndInv, DetectionIsKept
    <3> QED BY <2>1, <2>2, <3>1 DEF SvgIsKept, Replied, Converted, IsText, NoReply
  <2> QED BY <1>2, <2>1, <2>2
<1>9. CASE MeasureRaster
  <2>1. source # "svg" /\ source' = source
    BY <1>9 DEF MeasureRaster, Refuse, IndInv, SizeIsKept
  <2> QED BY <2>1 DEF SvgIsKept
<1>10. CASE Render
  <2>1. pc = "render" /\ upload' = upload
    BY <1>10 DEF Render
  <2>2. CASE \E code \in SharpErrors : Refuse(code)
    BY <1>2, <2>1, <2>2 DEF SharpErrors
  <2>3. CASE Deliver(work)
    BY <2>1, <2>3 DEF Deliver, SvgIsKept, Replied, Converted, IsText
  <2> QED BY <1>10, <2>2, <2>3 DEF Render
<1> QED BY <1>3, <1>4, <1>5, <1>6, <1>7, <1>8, <1>9, <1>10 DEF Next

\* An SVG stays what was uploaded, or what was let through of it.
THEOREM SvgInvariance == Spec => []SvgIsKept
<1>1. Init => SvgIsKept
  BY DEF Init, SvgIsKept, NoFormat
<1>2. upload \in Upload /\ IndInv /\ SvgIsKept /\ [Next]_vars => SvgIsKept'
  <2>1. CASE UNCHANGED vars
    BY <2>1 DEF vars, SvgIsKept, Replied, Converted, IsText
  <2> QED BY <2>1, SvgStep
<1> QED BY <1>1, <1>2, Invariance, PTL DEF Spec

\* What reaches the renderer of an SVG is tame, but for what stood in a CDATA section,
\* and holds no script; an SVG that is tame as uploaded is never refused as unsafe nor
\* changed.
THEOREM SvgStaysTame == Spec => []SvgIsTamed
<1>1. upload \in Upload /\ SvgIsKept => SvgIsTamed
  <2> SUFFICES ASSUME upload \in Upload, SvgIsKept, source = "svg" PROVE SvgIsTamed
    BY DEF SvgIsTamed
  <2> DEFINE doc  == upload.content.doc
             safe == [doc EXCEPT !.nodes = Rebuilt(CleanAll(@))]
  <2>1. ~IsText
    BY DEF SvgIsKept
  <2>2. /\ doc.nodes \in Seq(Node)
        /\ safe.nodes = Rebuilt(CleanAll(doc.nodes))
        /\ Rebuilt(CleanAll(doc.nodes)) = doc.nodes => safe = doc
    <3> HIDE DEF doc
    <3> QED BY <2>1, SvgIsTree DEF doc
  <2>3. ASSUME pc \in {"resolve", "render"} \/ Converted
        PROVE  \A x \in ToSet(Flat[work.nodes]) :
                 (Tame(x) \/ x \in InCdata(doc.nodes)) /\ ~Scripted(x)
    <3>1. work.nodes = Rebuilt(CleanAll(doc.nodes)) /\ SvgError(doc) = "OK"
      BY <2>2, <2>3 DEF SvgIsKept
    <3> HIDE DEF doc
    <3> QED BY <2>2, <3>1, CleanedIsTamed
  <2>4. ASSUME Replied, upload.content.utf8, ~upload.content.malformed, IsTame(doc)
        PROVE  reply.code # "UNSAFE_SVG" /\ work = doc
    <3>1. Rebuilt(CleanAll(doc.nodes)) = doc.nodes /\ SvgError(doc) = "OK"
      <4> HIDE DEF doc
      <4> QED BY <2>2, <2>4, TamedIsAccepted
    <3> QED BY <2>2, <2>4, <3>1 DEF SvgIsKept
  <2> QED BY <2>3, <2>4 DEF SvgIsTamed
<1> QED BY <1>1, SvgInvariance, Invariance, PTL

-----------------------------------------------------------------------------
(* Texts.                                                                  *)

\* Each step keeps how far the text has come.
LEMMA TextStep ==
  ASSUME upload \in Upload, IndInv, TextIsKept, Next
  PROVE  TextIsKept'
<1> DEFINE doc == upload.content.doc
<1> USE DEF Replied, Converted
<1>1. CASE /\ pc \in Unread /\ upload' = upload
           /\ \/ /\ pc' \in Unread /\ UNCHANGED <<source, reply>>
                 /\ IsText /\ pc' \in {"empty", "detect"} => target' \in TextFormats
              \/ source' = source /\ \E code : code # "OK" /\ Refuse(code)
  <2>1. pc' # "done" => reply' = reply
    BY <1>1 DEF Refuse
  <2>2. /\ pc' \notin {"cap", "pair"} \cup OfText /\ ~Converted'
        /\ source' = NoFormat
    BY <1>1, <2>1 DEF Refuse, IndInv, DetectionIsKept, Unread, OfText, NoReply
  <2>3. IsText' /\ pc' \in {"empty", "detect"} => target' \in TextFormats
    BY <1>1 DEF Refuse, IsText
  <2> QED BY <2>2, <2>3 DEF TextIsKept, OfText
<1>2. CASE SpoolUpload \/ ReadFields \/ CheckEmpty
  <2>1. CASE SpoolUpload
    BY <1>1, <2>1 DEF SpoolUpload, Check, Unread, Refuse
  <2>2. CASE ReadFields
    <3>1. \A token : ToConvertFormat(token) \in TextFormats \cup {NoFormat}
      BY DEF ToConvertFormat, TextFormats
    <3> QED BY <1>1, <2>2, <3>1 DEF ReadFields, Unread, Refuse
  <2>3. CASE CheckEmpty
    <3>1. IsText /\ pc = "empty" => target \in TextFormats
      BY DEF TextIsKept
    <3> QED BY <1>1, <2>3, <3>1 DEF CheckEmpty, Check, Unread, Refuse
  <2> QED BY <1>2, <2>1, <2>2, <2>3
<1>3. CASE DetectSource
  <2>1. /\ \A name, mime, body :
             Detect(name, mime, body) # "OK"
             /\ (Detect(name, mime, body) \in TextFormats \cup ImageSources
                   => Detect(name, mime, body) \in TextFormats)
        /\ \A name, mime, body : DetectImageFormat(name, mime, body) # "OK"
    <3>1. \A name, mime, body :
            Detect(name, mime, body)
              \in TextFormats \cup {"FORMAT_CONFLICT", "UNSUPPORTED_SOURCE_FORMAT"}
      BY TextHintTypes DEF Detect, TextFormats, NoFormat
    <3>2. \A name, mime, body : DetectImageFormat(name, mime, body) # "OK"
      BY DEF DetectImageFormat, FormatFromBody, SniffSvg
    <3> QED BY <3>1, <3>2 DEF TextFormats, ImageSources
  <2>2. Detected # "OK" /\ pc = "detect" /\ upload' = upload
    BY <1>3, <2>1 DEF Detected, DetectSource
  <2>3. CASE Detected \in TextFormats \cup ImageSources
    <3>1. pc' = "cap" /\ source' = Detected /\ UNCHANGED <<target, reply>>
      BY <1>3, <2>3 DEF DetectSource
    <3>2. IsText => Detected \in TextFormats /\ target \in TextFormats
      BY <2>1, <2>2, <2>3 DEF Detected, TextIsKept
    <3> QED BY <2>2, <3>1, <3>2 DEF TextIsKept, OfText, IsText
  <2>4. CASE Detected \notin TextFormats \cup ImageSources
    <3>1. Refuse(Detected)
      BY <1>3, <2>4 DEF DetectSource
    <3> QED BY <1>1, <2>2, <3>1 DEF Unread, Refuse
  <2> QED BY <2>3, <2>4
<1>4. CASE CheckUploadSize
  <2>1. pc = "cap" /\ UNCHANGED <<upload, source, target, work>>
    BY <1>4 DEF CheckUploadSize, Check, Refuse
  <2>2. CASE Refuse("FILE_TOO_LARGE") /\ upload.size > UploadCap[source]
    BY <2>1, <2>2 DEF TextIsKept, Refuse, OfText, IsText
  <2>3. CASE pc' = "pair" /\ reply' = reply /\ ~(upload.size > UploadCap[source])
    <3>1. IsText => source \in TextFormats
      BY <2>1 DEF TextIsKept
    <3>2. IsText => upload.size \in Nat /\ UploadCap[source] \in Nat
      BY <3>1, UploadAssumption, ConversionAssumption
    <3>3. IsText => upload.size <= UploadCap[source]
      BY <2>3, <3>2
    <3> QED BY <2>1, <2>3, <3>1, <3>3 DEF TextIsKept, OfText, IsText
  <2> QED BY <1>4, <2>1, <2>2, <2>3 DEF CheckUploadSize, Check
<1>5. CASE CheckPair
  <2>1. pc = "pair" /\ UNCHANGED <<upload, source, target, work>>
    BY <1>5 DEF CheckPair, Check, Refuse
  <2>2. CASE Refuse("PAIR_NOT_ALLOWED")
    <3>1. IsText => ~IsPairAllowed(source, target)
      <4>1. reply' # reply
        BY <2>1, <2>2 DEF Refuse, IndInv, DetectionIsKept, NoReply
      <4> QED BY <1>5, <4>1 DEF CheckPair, Check
    <3> QED BY <2>1, <2>2, <3>1 DEF TextIsKept, Refuse, OfText, IsText
  <2>3. CASE /\ reply' = reply /\ pc' = IF IsText THEN "decode" ELSE "options"
             /\ IsText => IsPairAllowed(source, target)
    <3>1. IsText => work = doc
      BY <2>1 DEF IndInv, SizeIsKept
    <3> QED BY <2>1, <2>3, <3>1 DEF TextIsKept, OfText, IsText
  <2> QED BY <1>5, <2>1, <2>2, <2>3 DEF CheckPair, Check
<1>6. CASE DecodeText \/ Parse \/ Adapt \/ Serialize
  <2>1. /\ pc \in OfText /\ IsText /\ UNCHANGED <<upload, source, target>>
        /\ reply = NoReply
    <3>1. pc \in OfText /\ UNCHANGED <<upload, source, target>>
      BY <1>6 DEF DecodeText, Parse, Adapt, Serialize, Check, Refuse, Deliver, OfText
    <3> QED BY <3>1 DEF IndInv, SizeIsKept, DetectionIsKept, OfText
  <2>2. /\ ParseErrors(doc)' = ParseErrors(doc) /\ Parsed(doc)' = Parsed(doc)
        /\ Adapted(Parsed(doc))' = Adapted(Parsed(doc))
        /\ Written(Adapted(Parsed(doc)))' = Written(Adapted(Parsed(doc)))
        /\ IsOdd(Adapted(Parsed(doc)))' = IsOdd(Adapted(Parsed(doc)))
        /\ HasAllCells(Adapted(Parsed(doc)))' = HasAllCells(Adapted(Parsed(doc)))
    BY <2>1 DEF ParseErrors, Parsed, Adapted, Written
  <2>3. ParseErrors(doc) \subseteq OtherCodes
    <3>1. /\ CsvError(doc, TextLimits) \in OtherCodes \cup {"OK"}
          /\ SanitizeError(doc, TextLimits) \in OtherCodes \cup {"OK"}
      BY ReasonsAreOther
    <3> QED BY <3>1 DEF ParseErrors, OtherCodes
  <2>4. ASSUME NEW code \in OtherCodes, Refuse(code),
               \/ ~upload.content.utf8
               \/ code \in ParseErrors(doc)
               \/ ParseErrors(doc) = {} /\ code \notin WalkCodes
        PROVE  TextIsKept'
    <3>1. pc' = "done" /\ reply'.code = code /\ code # "OK"
      BY <2>4 DEF Refuse, OtherCodes
    <3> QED BY <2>1, <2>2, <2>4, <3>1 DEF TextIsKept, OfText
  <2>5. CASE DecodeText
    <3>1. CASE Refuse("INVALID_ENCODING")
      <4>1. ~upload.content.utf8
        BY <2>1, <2>5, <3>1 DEF DecodeText, Check, Refuse, NoReply
      <4> QED BY <2>4, <3>1, <4>1 DEF OtherCodes
    <3>2. CASE pc = "decode" /\ pc' = "parse" /\ UNCHANGED <<work, reply>>
      BY <2>1, <2>2, <3>2 DEF TextIsKept, OfText, NoReply
    <3> QED BY <2>5, <3>1, <3>2 DEF DecodeText, Check
  <2>6. CASE Parse
    <3>1. pc = "parse" /\ work = doc
      BY <2>1, <2>6 DEF Parse, TextIsKept
    <3>2. CASE \E code \in ParseErrors(work) : Refuse(code)
      BY <2>3, <2>4, <3>1, <3>2
    <3>3. CASE ParseErrors(work) = {} /\ pc' = "adapt" /\ work' = Parsed(work) /\ reply' = reply
      BY <2>1, <2>2, <3>1, <3>3 DEF TextIsKept, OfText, NoReply
    <3> QED BY <2>6, <3>2, <3>3 DEF Parse
  <2>7. CASE Adapt
    <3>1. pc = "adapt" /\ work = Parsed(doc) /\ ParseErrors(doc) = {}
      BY <2>1, <2>7 DEF Adapt, TextIsKept
    <3>2. CASE Refuse("CONVERSION_AMBIGUOUS")
      BY <2>4, <3>1, <3>2 DEF OtherCodes, WalkCodes
    <3>3. CASE /\ pc' = "serialize" /\ work' = Adapted(work) /\ reply' = reply
               /\ target = "csv" => Adapted(work).headers # <<>>
      BY <2>1, <2>2, <3>1, <3>3 DEF TextIsKept, OfText, NoReply
    <3> QED BY <2>7, <3>2, <3>3 DEF Adapt
  <2>8. CASE Serialize
    <3>1. /\ pc = "serialize" /\ work = Adapted(Parsed(doc)) /\ ParseErrors(doc) = {}
          /\ target = "csv" => Adapted(Parsed(doc)).headers # <<>>
      BY <2>1, <2>8 DEF Serialize, TextIsKept
    <3>2. CASE \E code \in {"LIMIT_ROWS", "CONVERT_INTERNAL", "INVALID_SYNTAX"} : Refuse(code)
      BY <2>4, <3>1, <3>2 DEF OtherCodes, WalkCodes
    <3>3. CASE /\ target = "csv" => ~(Len(work.rows) > TextLimits.rows) /\ HasAllCells(work)
               /\ pc' = "done"
               /\ work' = IF target = "xml" /\ IsOdd(work) THEN NoXml ELSE Written(work)
               /\ reply' = [code |-> "OK", status |-> 200]
      BY <2>1, <2>2, <3>1, <3>3 DEF TextIsKept, OfText, WalkCodes
    <3> QED BY <2>8, <3>2, <3>3 DEF Serialize, Deliver
  <2> QED BY <1>6, <2>5, <2>6, <2>7, <2>8
<1>7. CASE ReadOptions \/ CleanSvg \/ ResolveSvgSize \/ MeasureRaster \/ Render
  <2>1. ~IsText'
    BY <1>7 DEF ReadOptions, CleanSvg, ResolveSvgSize, MeasureRaster, Render, Check,
       IndInv, SizeIsKept, OfImage, IsText
  <2> QED BY <2>1 DEF TextIsKept
<1> QED BY <1>2, <1>3, <1>4, <1>5, <1>6, <1>7 DEF Next

\* At each point of its pipeline a text is what the steps behind it have made of
\* the upload, and a refusal on the way names one of the parser's errors or is
\* none of the walk.
THEOREM TextInvariance == Spec => []TextIsKept
<1>1. Init => TextIsKept
  BY DEF Init, TextIsKept, NoReply, NoFormat, OfText, Converted, Replied
<1>2. upload \in Upload /\ IndInv /\ TextIsKept /\ [Next]_vars => TextIsKept'
  <2>1. CASE UNCHANGED vars
    <3> DEFINE doc == upload.content.doc
    <3>1. /\ ParseErrors(doc)' = ParseErrors(doc)
          /\ Adapted(Parsed(doc))' = Adapted(Parsed(doc))
          /\ Parsed(doc)' = Parsed(doc)
          /\ Written(Adapted(Parsed(doc)))' = Written(Adapted(Parsed(doc)))
          /\ IsOdd(Adapted(Parsed(doc)))' = IsOdd(Adapted(Parsed(doc)))
          /\ HasAllCells(Adapted(Parsed(doc)))' = HasAllCells(Adapted(Parsed(doc)))
      BY <2>1 DEF vars, ParseErrors, Parsed, Adapted, Written
    <3> QED BY <2>1, <3>1 DEF vars, TextIsKept, Replied, Converted, IsText
  <2> QED BY <2>1, TextStep
<1> QED BY <1>1, <1>2, Invariance, PTL DEF Spec

\* What a text that is no table is parsed to is a value.
LEMMA DocumentsAreValues ==
  /\ Document \subseteq Value
  /\ upload \in Upload /\ IndInv /\ IsText /\ source \in TextFormats
       /\ ~upload.content.malformed =>
       upload.content.doc \in (IF source = "csv" THEN Table ELSE Document)
<1>1. Document \subseteq Value
  <2>1. MaxNesting - 2 \in Nat /\ MaxNesting \in Nat /\ MaxNesting - 2 <= MaxNesting
    BY FormAssumption
  <2> QED BY <2>1, ValueLevelsGrow DEF Document, Value
<1>2. ASSUME upload \in Upload, IndInv, IsText, source \in TextFormats, ~upload.content.malformed
      PROVE  upload.content.doc \in (IF source = "csv" THEN Table ELSE Document)
  <2>1. source = Detect(upload.name, upload.mime, upload.body)
    BY <1>2 DEF IndInv, DetectionIsKept, Detected, NoFormat, TextFormats
  <2>2. upload.content.doc \in
          (IF Detect(upload.name, upload.mime, upload.body) = "csv" THEN Table ELSE Document)
    BY <1>2, UploadAssumption DEF IsText
  <2> QED BY <2>1, <2>2
<1> QED BY <1>1, <1>2

\* The walk over a document finds what its nodes are counted to.
LEMMA SanitizeIsExact ==
  ASSUME NEW doc \in Value
  PROVE  LET error == SanitizeError(doc, TextLimits)
             nodes == Reachable(doc)
             deep  == \E n \in nodes : Len(n.at) > TextLimits.depth
             many  == Cardinality(nodes) > TextLimits.nodes
             keys  == Cardinality({n \in nodes : n.key}) > TextLimits.keys IN
         /\ error = "OK" <=> ~deep /\ ~many /\ ~keys
         /\ error = "LIMIT_DEPTH" => deep
         /\ error = "LIMIT_NODES" => many
         /\ error = "LIMIT_KEYS"  => keys
         /\ error \in {"OK", "LIMIT_DEPTH", "LIMIT_NODES", "LIMIT_KEYS"}
<1> DEFINE vs    == Visits[doc]
           nodes == Reachable(doc)
           deep  == \E n \in nodes : Len(n.at) > TextLimits.depth
<1>1. vs \in Seq(Visit) /\ DOMAIN vs = 1..Len(vs)
  BY Visiting
<1>2. /\ Count(vs, Len(vs), "node") = Cardinality(nodes)
      /\ Count(vs, Len(vs), "key") = Cardinality({n \in nodes : n.key})
  BY <1>1, VisitsCounted DEF Count
<1>3. (\E i \in DOMAIN vs : TooDeep(vs[i], TextLimits)) <=> deep
  <2>1. \A n : AtNode(n).what = "node" /\ AtNode(n).at = n.at
    BY DEF AtNode
  <2>2. /\ \A n \in nodes : \E j \in DOMAIN vs : vs[j] = AtNode(n)
        /\ \A j \in DOMAIN vs : vs[j].what = "node" => \E n \in nodes : vs[j] = AtNode(n)
    BY VisitsCounted
  <2> HIDE DEF vs, nodes
  <2>3. ASSUME NEW i \in DOMAIN vs, TooDeep(vs[i], TextLimits) PROVE deep
    <3>1. PICK n \in nodes : vs[i] = AtNode(n)
      BY <2>2, <2>3 DEF TooDeep
    <3> QED BY <2>1, <2>3, <3>1 DEF TooDeep
  <2>4. ASSUME NEW n \in nodes, Len(n.at) > TextLimits.depth
        PROVE  \E i \in DOMAIN vs : TooDeep(vs[i], TextLimits)
    <3>1. PICK i \in DOMAIN vs : vs[i] = AtNode(n)
      BY <2>2
    <3> QED BY <2>1, <2>4, <3>1 DEF TooDeep
  <2> QED BY <2>3, <2>4
<1>4. TextLimits \in [{"rows", "depth", "keys", "nodes"} -> Nat \ {0}]
  BY ConversionAssumption
<1>5. LET error   == FirstRefusal(vs, TextLimits)
          tooDeep == \E i \in DOMAIN vs : TooDeep(vs[i], TextLimits)
          Many(what, limit) == Count(vs, Len(vs), what) > limit IN
      /\ error = "OK" <=>
           ~tooDeep /\ ~Many("node", TextLimits.nodes) /\ ~Many("key", TextLimits.keys)
      /\ error = "LIMIT_DEPTH" => tooDeep
      /\ error = "LIMIT_NODES" => Many("node", TextLimits.nodes)
      /\ error = "LIMIT_KEYS"  => Many("key", TextLimits.keys)
      /\ error \in {"OK", "LIMIT_DEPTH", "LIMIT_NODES", "LIMIT_KEYS"}
  <2> HIDE DEF vs
  <2> QED BY <1>1, <1>4, LimitsCountTheWalk
<1> HIDE DEF nodes, deep
<1> QED BY <1>2, <1>3, <1>5 DEF SanitizeError, nodes, deep

\* A document is refused for its size exactly when it exceeds a limit, and for one
\* that it exceeds.
THEOREM LimitsAreKept == Spec => []LimitsAreExact
<1>1. upload \in Upload /\ IndInv /\ TextIsKept => LimitsAreExact
  <2> DEFINE doc   == upload.content.doc
             nodes == Reachable(doc)
             deep  == \E n \in nodes : Len(n.at) > TextLimits.depth
             nests == source = "xml" /\ NestedTags[doc] > TextLimits.depth
             many  == Cardinality(nodes) > TextLimits.nodes
             keys  == Cardinality({n \in nodes : n.key}) > TextLimits.keys
             exceeded == (IF deep \/ nests THEN {"LIMIT_DEPTH"} ELSE {})
                           \cup (IF many THEN {"LIMIT_NODES"} ELSE {})
                           \cup (IF keys THEN {"LIMIT_KEYS"} ELSE {})
  <2>1. SUFFICES ASSUME upload \in Upload, IndInv, TextIsKept,
                        pc \in {"adapt", "done"}, source \in {"json", "xml", "yaml"},
                        upload.content.utf8, ~upload.content.malformed, IsText,
                        upload.size <= UploadCap[source], source # target
                 PROVE  IF exceeded = {} THEN reply.code \notin WalkCodes
                        ELSE Replied /\ reply.code \in exceeded
    BY DEF LimitsAreExact, WalkCodes
  <2>2. source \in TextFormats /\ target \in TextFormats /\ IsPairAllowed(source, target)
    BY <2>1 DEF TextFormats, TextIsKept, NoFormat, IsPairAllowed
  <2>3. ~(upload.size > UploadCap[source])
    <3>1. upload.size \in Nat /\ UploadCap[source] \in Nat
      BY <2>1, <2>2, UploadAssumption, ConversionAssumption
    <3> QED BY <2>1, <3>1
  <2>4. doc \in Value
    BY <2>1, <2>2, DocumentsAreValues
  <2> DEFINE error == SanitizeError(doc, TextLimits)
  <2>5. /\ error = "OK" <=> ~deep /\ ~many /\ ~keys
        /\ error = "LIMIT_DEPTH" => deep
        /\ error = "LIMIT_NODES" => many
        /\ error = "LIMIT_KEYS"  => keys
        /\ error \in {"OK", "LIMIT_DEPTH", "LIMIT_NODES", "LIMIT_KEYS"}
    <3> HIDE DEF doc
    <3> QED BY <2>4, SanitizeIsExact
  <2>6. ParseErrors(doc) = ({error} \ {"OK"}) \cup {code \in {"LIMIT_DEPTH"} : nests}
    BY <2>1 DEF ParseErrors
  <2> HIDE DEF deep, nests, many, keys, error, doc
  <2>7. ParseErrors(doc) \subseteq exceeded /\ (ParseErrors(doc) = {} => exceeded = {})
    BY <2>5, <2>6
  <2>8. CASE pc = "adapt"
    <3>1. ParseErrors(doc) = {} /\ reply.code \notin WalkCodes
      BY <2>1, <2>8 DEF TextIsKept, IndInv, DetectionIsKept, NoReply, WalkCodes, doc
    <3> QED BY <2>7, <3>1
  <2>9. CASE pc = "done"
    <3>1. \/ reply.code \in ParseErrors(doc)
          \/ ParseErrors(doc) = {} /\ reply.code \notin WalkCodes
      BY <2>1, <2>2, <2>3, <2>9 DEF TextIsKept, Replied, NoFormat, TextFormats, doc
    <3> QED BY <2>7, <2>9, <3>1 DEF Replied
  <2> QED BY <2>1, <2>8, <2>9
<1> QED BY <1>1, Invariance, TextInvariance, PTL

\* No picture is asked for as a table.
LEMMA TablesAreTexts == Spec => [](target = "csv" => IsText)
<1>1. Init => (target = "csv" => IsText)
  BY DEF Init, NoFormat
<1>2. (target = "csv" => IsText) /\ [Next]_vars => (target = "csv" => IsText)'
  <2> SUFFICES ASSUME target = "csv" => IsText, [Next]_vars
               PROVE  (target = "csv" => IsText)'
    OBVIOUS
  <2>1. CASE UNCHANGED <<upload, target>>
    BY <2>1 DEF IsText
  <2>2. CASE ReadFields
    <3>1. \A token : ParseImageTarget(token) # "csv"
      BY DEF ParseImageTarget, NoFormat
    <3> QED BY <2>2, <3>1 DEF ReadFields, Refuse, IsText
  <2>3. ReadFields \/ UNCHANGED <<upload, target>>
    <3>1. CASE UNCHANGED vars
      BY <3>1 DEF vars
    <3>2. CASE SpoolUpload \/ CheckEmpty \/ DetectSource \/ CheckUploadSize \/ CheckPair
      BY <3>2 DEF SpoolUpload, CheckEmpty, DetectSource, CheckUploadSize, CheckPair, Check, Refuse
    <3>3. CASE DecodeText \/ Parse \/ Adapt \/ Serialize
      BY <3>3 DEF DecodeText, Parse, Adapt, Serialize, Check, Refuse, Deliver
    <3>4. CASE ReadOptions \/ CleanSvg \/ ResolveSvgSize \/ MeasureRaster \/ Render
      BY <3>4 DEF ReadOptions, CleanSvg, ResolveSvgSize, MeasureRaster, Render, Check, Refuse,
         Deliver
    <3> QED BY <3>1, <3>2, <3>3, <3>4 DEF Next
  <2> QED BY <2>1, <2>2, <2>3
<1> QED BY <1>1, <1>2, PTL DEF Spec

\* What a value is written to as CSV can be read again.
LEMMA WrittenTableIsRead ==
  ASSUME NEW v \in Value, ~(Len(ValueToRecords(v).rows) > TextLimits.rows),
         \A c \in DOMAIN CsvTable(ValueToRecords(v)).header :
           ~Blank(CsvTable(ValueToRecords(v)).header[c])
  PROVE  CsvError(CsvTable(ValueToRecords(v)), TextLimits) = "OK"
<1> DEFINE records == ValueToRecords(v)
<1>1. /\ records.headers \in Seq(Key) /\ IsInjective(records.headers)
      /\ \E n \in Nat : DOMAIN records.rows = 1..n
  BY RecordsFit
<1> HIDE DEF records
<1>2. CsvTable(records).header = records.headers
  BY DEF CsvTable
<1>3. /\ \A c \in DOMAIN records.headers : ~Blank(records.headers[c])
      /\ ~(Len(records.rows) > TextLimits.rows)
  BY <1>2 DEF records
<1>4. CsvError(CsvTable(records), TextLimits) = "OK"
  BY <1>1, <1>3, RecordsAreRead
<1> QED BY <1>4 DEF records

\* A table comes back from the value it was turned into, and what is written as
\* CSV is a table again.
THEOREM TablesComeBack == Spec => []CsvRoundTrip
<1>1. ASSUME upload \in Upload, IndInv, TextIsKept, target = "csv" => IsText
      PROVE  CsvRoundTrip
  <2> DEFINE doc == upload.content.doc
  <2>1. CASE source = "csv" /\ pc = "serialize" /\ doc.lines # <<>>
             /\ ~Contains(doc.header, <<"__proto__">>)
    <3>1. IsText /\ source \in TextFormats
      BY <1>1, <2>1 DEF IndInv, SizeIsKept, OfText, TextFormats
    <3>2. ParseErrors(doc) = {} /\ work = Adapted(Parsed(doc))
      BY <1>1, <2>1, <3>1 DEF TextIsKept
    <3>3. ~upload.content.malformed /\ CsvError(doc, TextLimits) = "OK"
      BY <2>1, <3>2 DEF ParseErrors
    <3>4. doc \in Table
      BY <1>1, <2>1, <3>1, <3>3, DocumentsAreValues
    <3>5. work = RecordsToValue(CsvRecords(doc))
      <4>1. target # "csv"
        BY <1>1, <2>1, <3>1 DEF TextIsKept, IsPairAllowed, OfText
      <4> QED BY <2>1, <3>2, <4>1 DEF Adapted, Parsed
    <3> DEFINE header == doc.header
               lines  == doc.lines
    <3>6. header \in Seq(Key) /\ lines \in Seq(Seq(STRING \ {"null"})) /\ lines # <<>>
      BY <2>1, <3>4 DEF Table
    <3>7. <<"__proto__">> \notin ToSet(header)
      <4>1. DOMAIN header = 1..Len(header)
        BY <3>6
      <4> QED BY <2>1, <4>1 DEF Contains, ToSet
    <3>8. LET back == ValueToRecords(RecordsToValue(CsvRecords(doc))) IN
          ToSet(back.headers) = ToSet(header) /\ back.rows = CsvRecords(doc).rows
      <4> HIDE DEF header, lines
      <4>1. doc.header = header /\ doc.lines = lines
        BY DEF header, lines
      <4> HIDE DEF doc
      <4> QED BY <3>3, <3>6, <3>7, <4>1, TableComesBack
    <3>9. CsvRecords(doc).headers = header
      BY DEF CsvRecords
    <3> QED BY <2>1, <3>5, <3>8, <3>9 DEF CsvRoundTrip, Converted, Replied
  <2>2. CASE Converted /\ target = "csv" /\ \A i \in DOMAIN work.header : ~Blank(work.header[i])
    <3>1. IsText /\ IsPairAllowed(source, target)
      BY <1>1, <2>2 DEF TextIsKept
    <3>2. source \in TextFormats /\ source # "csv"
      BY <2>2, <3>1 DEF IsPairAllowed
    <3>3. /\ ParseErrors(doc) = {} /\ work = Written(Adapted(Parsed(doc)))
          /\ ~(Len(Adapted(Parsed(doc)).rows) > TextLimits.rows)
      BY <1>1, <2>2, <3>1 DEF TextIsKept
    <3>4. ~upload.content.malformed
      BY <3>3 DEF ParseErrors
    <3>5. doc \in Value
      BY <1>1, <3>1, <3>2, <3>4, DocumentsAreValues
    <3>6. Pruned[doc] \in Value
      BY <3>5, Pruning
    <3>7. Adapted(Parsed(doc)) = ValueToRecords(Pruned[doc])
      BY <2>2, <3>2 DEF Adapted, Parsed
    <3>8. work = CsvTable(ValueToRecords(Pruned[doc]))
      BY <2>2, <3>3, <3>7 DEF Written
    <3>9. CsvError(work, TextLimits) = "OK"
      BY <2>2, <3>3, <3>6, <3>7, <3>8, WrittenTableIsRead
    <3> QED BY <2>2, <3>9 DEF CsvRoundTrip, Converted, Replied
  <2> QED BY <2>1, <2>2 DEF CsvRoundTrip
<1> QED BY <1>1, Invariance, TextInvariance, TablesAreTexts, PTL

\* The line of an item holds its leaves where their keys say, and nothing else.
LEMMA LineHolds ==
  ASSUME NEW v \in Value, Tabular(v), NEW header \in Seq(Key), NEW line,
         LET row == JsObject(FlattenToRow[Pruned[v]][<<>>]) IN
         /\ ToSet(Keys(row)) \subseteq ToSet(header)
         /\ DOMAIN CompleteRow(row, header) = ToSet(header)
         /\ line = [c \in DOMAIN header |-> CompleteRow(row, header)[header[c]]]
  PROVE  RowHolds(header, line, v)
<1> DEFINE cells == FlattenToRow[Pruned[v]][<<>>]
           row   == JsObject(cells)
<1>1. Plain(v) /\ \A m, n \in CellsOf(v) : Named(m) = Named(n) => m = n
  BY DEF Tabular, Plain
<1>2. <<>> \in Seq(STRING) /\ IsPrefixOfKeys(<<>>)
  BY DEF IsPrefixOfKeys
<1>3. cells \in Seq([key : Key, val : STRING])
  <2>1. Pruned[v] \in Value
    BY Pruning
  <2> QED BY <1>2, <2>1, Flattening DEF Row
<1>4. \A x : x \in ToSet(cells) <=> \E n \in Leaves(v) : HasCell(<<>>, n) /\ x = CellAt(<<>>, n)
  BY <1>1, <1>2, RowsAreLeaves DEF WritesLeaves
<1> HIDE DEF cells
<1>5. /\ row \in Objects(STRING)
      /\ ToSet(Keys(row)) = ToSet(Keys(cells)) /\ ToSet(row) \subseteq ToSet(cells)
  BY <1>3, ObjectMembers
<1>6. /\ ToSet(Keys(row)) \subseteq ToSet(header)
      /\ DOMAIN CompleteRow(row, header) = ToSet(header)
      /\ line = [c \in DOMAIN header |-> CompleteRow(row, header)[header[c]]]
  BY DEF cells
<1> HIDE DEF row
<1>7. \A n : n \in CellsOf(v) <=> n \in Leaves(v) /\ HasCell(<<>>, n)
  BY DEF CellsOf, HasCell
<1>8. \A n \in Leaves(v) : CellAt(<<>>, n).key = Named(n) /\ CellAt(<<>>, n).val = Cell(n)
  <2>1. \A n \in Leaves(v) :
          CellAt(<<>>, n).key = (IF n.at = <<>> THEN <<"value">> ELSE FlattenSeq(n.at))
          /\ CellAt(<<>>, n).val = Cell(n)
    BY <1>1, LeafName
  <2> QED BY <2>1 DEF Named
<1>9. \A h : h \in ToSet(Keys(row)) <=> \E n \in CellsOf(v) : h = Named(n)
  <2>1. DOMAIN Keys(cells) = DOMAIN cells /\ \A i \in DOMAIN cells : Keys(cells)[i] = cells[i].key
    BY DEF Keys
  <2>2. \A h : h \in ToSet(Keys(cells)) <=> \E x \in ToSet(cells) : h = x.key
    BY <2>1 DEF ToSet
  <2> QED BY <1>4, <1>5, <1>7, <1>8, <2>2
<1>10. ASSUME NEW n \in CellsOf(v)
       PROVE  LastValue(row, Named(n)) = Cell(n)
  <2>1. Named(n) \in ToSet(Keys(row)) /\ row \in Seq([key : Key, val : STRING])
    BY <1>5, <1>9 DEF Objects
  <2>2. PICK i \in DOMAIN row : row[i].key = Named(n) /\ LastValue(row, Named(n)) = row[i].val
    BY <2>1, LastIsAssigned
  <2>3. row[i] \in ToSet(cells)
    BY <1>5 DEF ToSet
  <2>4. PICK m \in CellsOf(v) : row[i] = CellAt(<<>>, m)
    BY <1>4, <1>7, <2>3
  <2>5. m \in Leaves(v)
    BY <1>7
  <2>6. Named(m) = Named(n) /\ row[i].val = Cell(m)
    BY <1>8, <2>2, <2>4, <2>5
  <2>7. m = n
    BY <1>1, <2>6
  <2> QED BY <2>2, <2>6, <2>7
<1>11. DOMAIN line = DOMAIN header
       /\ \A c \in DOMAIN header :
            line[c] = IF header[c] \in ToSet(Keys(row)) THEN LastValue(row, header[c]) ELSE NoText
  <2>1. \A c \in DOMAIN header : header[c] \in DOMAIN CompleteRow(row, header)
    BY <1>6 DEF ToSet
  <2>2. \A h \in DOMAIN CompleteRow(row, header) :
          CompleteRow(row, header)[h]
            = IF h \in ToSet(Keys(row)) THEN LastValue(row, h) ELSE NoText
    BY DEF CompleteRow
  <2> QED BY <1>6, <2>1, <2>2
<1>12. ASSUME NEW n \in CellsOf(v)
       PROVE  \E c \in DOMAIN line : header[c] = Named(n) /\ line[c] = Cell(n)
  <2>1. Named(n) \in ToSet(Keys(row)) /\ Named(n) \in ToSet(header)
    BY <1>6, <1>9
  <2>2. PICK c \in DOMAIN header : header[c] = Named(n)
    BY <2>1 DEF ToSet
  <2> QED BY <1>10, <1>11, <2>1, <2>2
<1>13. ASSUME NEW c \in DOMAIN line
       PROVE  line[c] = NoText \/ \E n \in CellsOf(v) : Named(n) = header[c]
  BY <1>9, <1>11
<1> QED BY <1>12, <1>13 DEF RowHolds

\* Nothing of a converted document is lost, and nothing is added to it.
THEOREM CellsAreKept == Spec => []NothingIsLost
<1>1. ASSUME upload \in Upload, IndInv, TextIsKept
      PROVE  NothingIsLost
  <2> DEFINE doc == upload.content.doc
             w   == Pruned[doc]
  <2>1. SUFFICES ASSUME Converted, IsText, source # "csv"
                 PROVE  CASE target = "csv" ->
                               \A i \in DOMAIN Items(doc) :
                                 Tabular(Items(doc)[i]) =>
                                   RowHolds(work.header, work.lines[i], Items(doc)[i])
                          [] target = "xml" ->
                               ~IsOdd(w) /\ HasDistinctNames(w) =>
                                 Shows[Rooted(doc)][work.elements]
                          [] OTHER -> Nodes[work] = Reachable(doc)
    BY DEF NothingIsLost
  <2>2. source \in TextFormats
    BY <1>1, <2>1 DEF TextIsKept, IsPairAllowed
  <2>3. /\ ParseErrors(doc) = {}
        /\ IF target = "xml" /\ IsOdd(Adapted(Parsed(doc))) THEN work = NoXml
           ELSE work = Written(Adapted(Parsed(doc)))
    BY <1>1, <2>1 DEF TextIsKept
  <2>4. ~upload.content.malformed
    BY <2>3 DEF ParseErrors
  <2>5. doc \in Document /\ doc \in Value
    BY <1>1, <2>1, <2>2, <2>4, DocumentsAreValues
  <2>6. Parsed(doc) = w
    BY <2>1 DEF Parsed
  <2> HIDE DEF doc, w
  <2>7. CASE target = "csv"
    <3>1. Adapted(w) = ValueToRecords(w)
      BY <2>1, <2>7 DEF Adapted
    <3>2. work = CsvTable(ValueToRecords(w))
      BY <2>3, <2>6, <2>7, <3>1 DEF Written
    <3>3. ValueToRecords(w).headers # <<>> /\ HasAllCells(ValueToRecords(w))
      BY <1>1, <2>1, <2>6, <2>7, <3>1 DEF TextIsKept, doc
    <3>4. ASSUME NEW i \in DOMAIN Items(doc), Tabular(Items(doc)[i])
          PROVE  RowHolds(work.header, work.lines[i], Items(doc)[i])
      <4> DEFINE item == Items(doc)[i]
                 row  == JsObject(FlattenToRow[Pruned[item]][<<>>])
                 header == work.header
                 line   == work.lines[i]
      <4>1. LET records == ValueToRecords(Pruned[doc])
                table   == CsvTable(records)
                r       == JsObject(FlattenToRow[Pruned[Items(doc)[i]]][<<>>]) IN
            /\ Items(doc)[i] \in Value
            /\ i \in DOMAIN records.rows /\ records.rows[i] = CompleteRow(r, table.header)
            /\ table.header \in Seq(Key) /\ ToSet(Keys(r)) \subseteq ToSet(table.header)
            /\ table.lines[i] = [c \in DOMAIN table.header |->
                                   CompleteRow(r, table.header)[table.header[c]]]
        BY <2>5, <3>3, LinesOfItems DEF w
      <4>2. /\ item \in Value /\ header \in Seq(Key) /\ ToSet(Keys(row)) \subseteq ToSet(header)
            /\ line = [c \in DOMAIN header |-> CompleteRow(row, header)[header[c]]]
            /\ i \in DOMAIN ValueToRecords(w).rows
            /\ ValueToRecords(w).rows[i] = CompleteRow(row, header)
        BY <3>2, <4>1 DEF w
      <4>5. header = ValueToRecords(w).headers
        BY <3>2 DEF CsvTable
      <4>6. DOMAIN CompleteRow(row, header) = ToSet(header)
        BY <3>3, <4>2, <4>5 DEF HasAllCells
      <4>3. Tabular(item)
        BY <3>4
      <4> HIDE DEF item, header, line
      <4>4. RowHolds(header, line, item)
        BY <4>2, <4>3, <4>6, LineHolds
      <4> QED BY <4>4 DEF item, header, line
    <3> QED BY <2>7, <3>4
  <2>8. CASE target = "xml"
    <3>1. Adapted(w) = w
      BY <2>1, <2>8 DEF Adapted
    <3>2. ASSUME ~IsOdd(w), HasDistinctNames(w)
          PROVE  Shows[Rooted(doc)][work.elements]
      <4>1. work = [t |-> "xml", elements |-> XmlElements[ToXmlDocument(w)]]
        BY <2>3, <2>6, <2>8, <3>1, <3>2 DEF Written
      <4>2. work.elements = XmlElements[ToXmlDocument(w)]
        <5> HIDE DEF w
        <5>1. \A x : [t |-> "xml", elements |-> x].elements = x
          OBVIOUS
        <5> QED BY <4>1, <5>1
      <4>3. Shows[RootOf(doc)][XmlElements[ToXmlDocument(Pruned[doc])]]
        BY <2>5, <3>2, DocumentIsShown DEF Showable, w
      <4>4. RootOf(doc) = Rooted(doc)
        BY DEF RootOf, Rooted, Only
      <4> QED BY <4>2, <4>3, <4>4 DEF w
    <3> QED BY <2>8, <3>2
  <2>9. CASE target \notin {"csv", "xml"}
    <3>1. work = w
      <4>1. Adapted(w) = w
        BY <2>1, <2>9 DEF Adapted
      <4> QED BY <2>3, <2>6, <2>9, <4>1 DEF Written
    <3>2. Nodes[work] = Reachable(doc)
      BY <2>5, <3>1, PrunedKeepsNodes DEF w
    <3> QED BY <2>9, <3>2
  <2> QED BY <2>7, <2>8, <2>9
<1> QED BY <1>1, Invariance, TextInvariance, PTL
=============================================================================
