----------------------- MODULE IntermediateForm_proofs -----------------------
(***************************************************************************)
(* Proofs about IntermediateForm, for values of any depth and any limits:  *)
(* what the operators between the parsers and the serializers keep.        *)
(*                                                                         *)
(* The recursive functions are shown to exist by one lemma, Recursion, by  *)
(* induction on the depth of values; inductions are first members of sets  *)
(* of numbers.  Then, with what is right below a value for a step:         *)
(*   - sanitizeJsonValue visits each node and each key once, which is what *)
(*     its limits count, and the value it builds has the nodes that no     *)
(*     dropped key leads to;                                               *)
(*   - flattenToRow writes one cell for each leaf, where its keys say, and *)
(*     the table of a list of flat objects is the one it was read from;    *)
(*   - XML output shows a document whose keys can be told apart there: the *)
(*     texts, and an element for each item of a list or other value.       *)
(***************************************************************************)
EXTENDS IntermediateForm, WellFoundedInduction, SequenceTheorems, FiniteSetTheorems, TLAPS

-----------------------------------------------------------------------------
(* Induction and recursion.                                                *)

\* A set of natural numbers that is not empty has a least member.
LEMMA FirstExists ==
  ASSUME NEW S \in SUBSET Nat, S # {}
  PROVE  \E first \in S : \A j \in S : first =< j
<1>1. PICK first \in S : \A j \in S : <<j, first>> \notin OpToRel(<, Nat)
  BY WFMin, NatLessThanWellFounded
<1>2. \A j \in S : ~(j < first)
  BY <1>1 DEF OpToRel
<1> QED BY <1>2

\* A set that has each number whose predecessors it has has them all.
LEMMA StrongInduction ==
  ASSUME NEW S, \A n \in Nat : (\A m \in Nat : m < n => m \in S) => n \in S
  PROVE  \A n \in Nat : n \in S
<1> SUFFICES ASSUME Nat \ S # {} PROVE FALSE
  OBVIOUS
<1>1. PICK first \in Nat \ S : \A j \in Nat \ S : first =< j
  BY FirstExists
<1>2. \A m \in Nat : m < first => m \in S
  BY <1>1
<1> QED BY <1>1, <1>2

\* A definition that looks only at arguments of lower rank, and whose values are
\* of the type of the argument, defines a function.
IsRecursive(S, V, rank, T, F, D) ==
  /\ rank \in [S -> Nat]
  /\ T \in [S -> SUBSET V] /\ \A x \in S : T[x] # {}
  /\ F = {g \in [S -> V] : \A x \in S : g[x] \in T[x]}
  /\ D \in [S -> [F -> V]] /\ \A x \in S : \A g \in F : D[x][g] \in T[x]
  /\ \A x \in S : \A g, h \in F :
       (\A y \in S : rank[y] < rank[x] => g[y] = h[y]) => D[x][g] = D[x][h]

\* Such a function exists.
LEMMA Recursion ==
  ASSUME NEW S, NEW V, NEW rank, NEW T, NEW F, NEW D, IsRecursive(S, V, rank, T, F, D)
  PROVE  \E f \in F : \A x \in S : f[x] = D[x][f]
<1> USE DEF IsRecursive
<1> DEFINE Upto(g, n) == \A x \in S : rank[x] < n => g[x] = D[x][g]
<1>1. \A n \in Nat : \E g \in F : Upto(g, n)
  <2> DEFINE N == {n \in Nat : \E g \in F : Upto(g, n)}
  <2>1. ASSUME NEW n \in Nat, \A m \in Nat : m < n => m \in N
        PROVE  n \in N
    <3>1. CASE n = 0
      <4> DEFINE g == [x \in S |-> CHOOSE v \in T[x] : TRUE]
      <4>1. \A x \in S : g[x] \in T[x] /\ g[x] \in V
        OBVIOUS
      <4>2. g \in F
        BY <4>1
      <4>3. Upto(g, 0)
        OBVIOUS
      <4> HIDE DEF g
      <4> QED BY <3>1, <4>2, <4>3
    <3>2. CASE n # 0
      <4>1. n - 1 \in N
        <5>1. n - 1 \in Nat /\ n - 1 < n
          BY <3>2
        <5> HIDE DEF N
        <5> QED BY <2>1, <5>1
      <4>2. PICK g \in F : Upto(g, n - 1)
        BY <4>1
      <4> DEFINE h == [x \in S |-> IF rank[x] = n - 1 THEN D[x][g] ELSE g[x]]
      <4>3. h \in F
        <5>1. \A x \in S : h[x] \in T[x] /\ h[x] \in V
          OBVIOUS
        <5> QED BY <5>1
      <4>4. \A x \in S : rank[x] < n - 1 => h[x] = g[x]
        OBVIOUS
      <4>5. \A x \in S : rank[x] = n - 1 => h[x] = D[x][g]
        OBVIOUS
      <4> HIDE DEF h
      <4>6. \A x \in S : rank[x] < n => D[x][h] = D[x][g]
        <5> SUFFICES ASSUME NEW x \in S, rank[x] < n PROVE D[x][h] = D[x][g]
          OBVIOUS
        <5>1. \A y \in S : rank[y] < rank[x] => h[y] = g[y]
          BY <4>4
        <5> QED BY <4>3, <5>1
      <4>7. Upto(h, n)
        <5>1. \A x \in S : rank[x] = n - 1 => rank[x] < n /\ h[x] = D[x][g]
          BY <4>5
        <5>2. \A x \in S : rank[x] < n - 1 => rank[x] < n /\ h[x] = D[x][g]
          BY <4>2, <4>4
        <5>3. \A x \in S : rank[x] < n => rank[x] = n - 1 \/ rank[x] < n - 1
          <6>1. \A a, b \in Nat : a < b => a = b - 1 \/ a < b - 1
            OBVIOUS
          <6> QED BY <6>1
        <5>4. \A x \in S : rank[x] < n => h[x] = D[x][g]
          BY <5>1, <5>2, <5>3
        <5> QED BY <4>6, <5>4
      <4> QED BY <4>3, <4>7
    <3> QED BY <3>1, <3>2
  <2> HIDE DEF N
  <2>2. \A n \in Nat : n \in N
    BY <2>1, StrongInduction
  <2> QED BY <2>2 DEF N
<1>2. ASSUME NEW g \in F, NEW h \in F, NEW n \in Nat, NEW m \in Nat, Upto(g, n), Upto(h, m)
      PROVE  \A x \in S : rank[x] < n /\ rank[x] < m => g[x] = h[x]
  <2> DEFINE K == {k \in Nat : \A x \in S : rank[x] = k /\ k < n /\ k < m => g[x] = h[x]}
  <2>1. ASSUME NEW k \in Nat, \A j \in Nat : j < k => j \in K
        PROVE  k \in K
    <3> SUFFICES ASSUME NEW x \in S, rank[x] = k, k < n, k < m PROVE g[x] = h[x]
      OBVIOUS
    <3>1. \A y \in S : rank[y] < rank[x] => g[y] = h[y]
      BY <2>1
    <3>2. D[x][g] = D[x][h]
      BY <3>1
    <3> QED BY <1>2, <3>2
  <2> HIDE DEF K
  <2>2. \A k \in Nat : k \in K
    BY <2>1, StrongInduction
  <2> QED BY <2>2 DEF K
<1> DEFINE G == [n \in Nat |-> CHOOSE g \in F : Upto(g, n)]
<1>3. \A n \in Nat : G[n] \in F /\ Upto(G[n], n)
  <2> SUFFICES ASSUME NEW n \in Nat PROVE G[n] \in F /\ Upto(G[n], n)
    OBVIOUS
  <2>1. G[n] = CHOOSE g \in F : Upto(g, n)
    OBVIOUS
  <2>2. \E g \in F : Upto(g, n)
    BY <1>1
  <2> HIDE DEF G, Upto
  <2> QED BY <2>1, <2>2
<1> HIDE DEF G
<1> DEFINE f == [x \in S |-> G[rank[x] + 1][x]]
<1>4. f \in F
  <2>1. \A x \in S : f[x] \in T[x] /\ f[x] \in V
    BY <1>3
  <2> QED BY <2>1
<1>5. \A x \in S : f[x] = D[x][f]
  <2> SUFFICES ASSUME NEW x \in S PROVE f[x] = D[x][f]
    OBVIOUS
  <2> DEFINE n == rank[x] + 1
  <2>1. \A y \in S : rank[y] < rank[x] => f[y] = G[n][y]
    <3> SUFFICES ASSUME NEW y \in S, rank[y] < rank[x] PROVE f[y] = G[n][y]
      OBVIOUS
    <3>1. f[y] = G[rank[y] + 1][y]
      OBVIOUS
    <3>2. rank[y] + 1 \in Nat /\ n \in Nat
      OBVIOUS
    <3>3. G[rank[y] + 1] \in F /\ Upto(G[rank[y] + 1], rank[y] + 1) /\ G[n] \in F /\ Upto(G[n], n)
      BY <1>3, <3>2
    <3>4. rank[y] < rank[y] + 1 /\ rank[y] < n
      OBVIOUS
    <3> HIDE DEF f, Upto
    <3> QED BY <1>2, <3>1, <3>2, <3>3, <3>4
  <2>2. f[x] = G[n][x]
    OBVIOUS
  <2> HIDE DEF f
  <2>3. D[x][f] = D[x][G[n]]
    <3>1. G[n] \in F
      BY <1>3
    <3>2. \A g, h \in F : (\A y \in S : rank[y] < rank[x] => g[y] = h[y]) => D[x][g] = D[x][h]
      OBVIOUS
    <3> HIDE DEF IsRecursive
    <3> QED BY <1>4, <2>1, <3>1, <3>2
  <2>4. G[n][x] = D[x][G[n]]
    BY <1>3
  <2> QED BY <2>2, <2>3, <2>4
<1> QED BY <1>4, <1>5

-----------------------------------------------------------------------------
(* Sequences of sequences, one after the other.                            *)

\* Two sequences, one after the other, have the members of both.
LEMMA ConcatMembers ==
  ASSUME NEW X, NEW s \in Seq(X), NEW t \in Seq(X)
  PROVE  ToSet(s \o t) = ToSet(s) \cup ToSet(t)
<1> DEFINE both == s \o t
<1>1. Len(s) \in Nat /\ Len(t) \in Nat /\ DOMAIN s = 1..Len(s) /\ DOMAIN t = 1..Len(t)
  OBVIOUS
<1>2. /\ DOMAIN both = 1..(Len(s) + Len(t))
      /\ \A k \in 1..(Len(s) + Len(t)) :
           both[k] = IF k =< Len(s) THEN s[k] ELSE t[k - Len(s)]
  OBVIOUS
<1> HIDE DEF both
<1>3. ASSUME NEW x \in ToSet(s)
      PROVE  x \in ToSet(both)
  <2>1. PICK k \in DOMAIN s : x = s[k]
    BY DEF ToSet
  <2>2. k \in DOMAIN both /\ both[k] = x
    BY <1>1, <1>2, <2>1
  <2> QED BY <2>2 DEF ToSet
<1>4. ASSUME NEW x \in ToSet(t)
      PROVE  x \in ToSet(both)
  <2>1. PICK k \in DOMAIN t : x = t[k]
    BY DEF ToSet
  <2>2. Len(s) + k \in DOMAIN both /\ both[Len(s) + k] = x
    BY <1>1, <1>2, <2>1
  <2> QED BY <2>2 DEF ToSet
<1>5. ASSUME NEW x \in ToSet(both)
      PROVE  x \in ToSet(s) \cup ToSet(t)
  <2>1. PICK k \in DOMAIN both : x = both[k]
    BY DEF ToSet
  <2>2. CASE k =< Len(s)
    <3>1. k \in DOMAIN s /\ s[k] = x
      BY <1>1, <1>2, <2>1, <2>2
    <3> QED BY <3>1 DEF ToSet
  <2>3. CASE ~(k =< Len(s))
    <3>1. k - Len(s) \in DOMAIN t /\ t[k - Len(s)] = x
      BY <1>1, <1>2, <2>1, <2>3
    <3> QED BY <3>1 DEF ToSet
  <2> QED BY <2>2, <2>3
<1> QED BY <1>3, <1>4, <1>5 DEF both

\* FlattenSeq adds one sequence after the other.
LEMMA FlattenSteps ==
  ASSUME NEW X, NEW ss \in Seq(Seq(X)), Len(ss) # 0
  PROVE  \E f \in [1..Len(ss) -> Seq(X)] :
           /\ FlattenSeq(ss) = f[Len(ss)]
           /\ f[1] = ss[1]
           /\ \A i \in 1..Len(ss) : i # 1 => f[i] = f[i - 1] \o ss[i]
<1> DEFINE I == 1..Len(ss)
           F == [I -> Seq(X)]
           Flatten(f) == f = [i \in I |-> IF i = 1 THEN ss[i] ELSE f[i - 1] \o ss[i]]
<1>1. /\ Len(ss) \in Nat \ {0} /\ 1 \in I /\ Len(ss) \in I
      /\ \A i \in I : ss[i] \in Seq(X)
      /\ \A i \in I : i \in Nat /\ (i # 1 => i - 1 \in I /\ i - 1 < i)
  <2>1. Len(ss) \in Nat \ {0}
    OBVIOUS
  <2>2. \A i \in I : ss[i] \in Seq(X)
    OBVIOUS
  <2> QED BY <2>1, <2>2
<1>2. \E f \in F : Flatten(f)
  <2> DEFINE rank == [i \in I |-> i]
             T    == [i \in I |-> Seq(X)]
             Body(i, g) == IF i = 1 THEN ss[i] ELSE g[i - 1] \o ss[i]
             D    == [i \in I |-> [g \in F |-> Body(i, g)]]
  <2>1. rank \in [I -> Nat]
    BY <1>1
  <2>2. /\ T \in [I -> SUBSET Seq(X)] /\ \A i \in I : T[i] # {}
        /\ F = {g \in [I -> Seq(X)] : \A i \in I : g[i] \in T[i]}
    <3>1. <<>> \in Seq(X)
      OBVIOUS
    <3> QED BY <3>1
  <2>3. \A i \in I : \A g \in F : Body(i, g) \in Seq(X)
    <3> SUFFICES ASSUME NEW i \in I, NEW g \in F PROVE Body(i, g) \in Seq(X)
      OBVIOUS
    <3>1. CASE i = 1
      BY <1>1, <3>1
    <3>2. CASE i # 1
      <4>1. g[i - 1] \in Seq(X) /\ ss[i] \in Seq(X)
        BY <1>1, <3>2
      <4> QED BY <3>2, <4>1
    <3> QED BY <3>1, <3>2
  <2>4. /\ D \in [I -> [F -> Seq(X)]]
        /\ \A i \in I : \A g \in F : D[i][g] \in T[i]
    <3> HIDE DEF Body, F, I
    <3> QED BY <2>3
  <2>5. \A i \in I : \A g, h \in F :
          (\A j \in I : rank[j] < rank[i] => g[j] = h[j]) => D[i][g] = D[i][h]
    <3> SUFFICES ASSUME NEW i \in I, NEW g \in F, NEW h \in F,
                        \A j \in I : rank[j] < rank[i] => g[j] = h[j]
                 PROVE  D[i][g] = D[i][h]
      OBVIOUS
    <3>1. i # 1 => g[i - 1] = h[i - 1]
      BY <1>1
    <3> HIDE DEF F, I
    <3> QED BY <3>1
  <2>6. \A i \in I : \A g \in F : D[i][g] = Body(i, g)
    <3> HIDE DEF F, I
    <3> QED OBVIOUS
  <2> HIDE DEF rank, T, D, F, I
  <2> IsRecursive(I, Seq(X), rank, T, F, D)
    BY <2>1, <2>2, <2>4, <2>5 DEF IsRecursive
  <2>7. PICK f \in F : \A i \in I : f[i] = D[i][f]
    BY Recursion
  <2>8. \A i \in I : f[i] = Body(i, f)
    BY <2>6, <2>7
  <2>9. f = [i \in I |-> f[i]]
    BY DEF F
  <2> QED BY <2>8, <2>9
<1> DEFINE flatten == CHOOSE f : Flatten(f)
<1>3. Flatten(flatten)
  <2> HIDE DEF Flatten
  <2> QED BY <1>2
<1>4. FlattenSeq(ss) = flatten[Len(ss)]
  BY DEF FlattenSeq
<1> HIDE DEF flatten
<1>5. /\ flatten[1] = ss[1]
      /\ \A i \in I : i # 1 => flatten[i] = flatten[i - 1] \o ss[i]
  BY <1>1, <1>3
<1>6. \A i \in I : flatten[i] \in Seq(X)
  <2> DEFINE N == {n \in Nat : n \in I => flatten[n] \in Seq(X)}
  <2>1. ASSUME NEW n \in Nat, \A m \in Nat : m < n => m \in N
        PROVE  n \in N
    <3> SUFFICES ASSUME n \in I PROVE flatten[n] \in Seq(X)
      OBVIOUS
    <3>1. CASE n = 1
      BY <1>1, <1>5, <3>1
    <3>2. CASE n # 1
      <4>1. n - 1 \in I /\ n - 1 < n /\ n - 1 \in Nat
        BY <1>1, <3>2
      <4>2. flatten[n - 1] \in Seq(X) /\ ss[n] \in Seq(X)
        BY <1>1, <2>1, <4>1
      <4>3. \A s, t \in Seq(X) : s \o t \in Seq(X)
        OBVIOUS
      <4>4. flatten[n] = flatten[n - 1] \o ss[n]
        BY <1>5, <3>2
      <4> QED BY <4>2, <4>3, <4>4
    <3> QED BY <3>1, <3>2
  <2> HIDE DEF N
  <2>2. \A n \in Nat : n \in N
    BY <2>1, StrongInduction
  <2> QED BY <1>1, <2>2 DEF N
<1>7. flatten \in F
  BY <1>3, <1>6
<1> QED BY <1>1, <1>4, <1>5, <1>7

\* What is in the flattened sequence is what is in its parts.
LEMMA FlattenMembers ==
  ASSUME NEW X, NEW ss \in Seq(Seq(X))
  PROVE  /\ FlattenSeq(ss) \in Seq(X)
         /\ \A x : x \in ToSet(FlattenSeq(ss)) <=> \E i \in DOMAIN ss : x \in ToSet(ss[i])
<1>1. CASE Len(ss) = 0
  <2>1. FlattenSeq(ss) = ss /\ ss = <<>>
    BY <1>1 DEF FlattenSeq
  <2> QED BY <2>1 DEF ToSet
<1>2. CASE Len(ss) # 0
  <2> DEFINE I == 1..Len(ss)
  <2>1. PICK f \in [I -> Seq(X)] :
          /\ FlattenSeq(ss) = f[Len(ss)]
          /\ f[1] = ss[1]
          /\ \A i \in I : i # 1 => f[i] = f[i - 1] \o ss[i]
    BY <1>2, FlattenSteps
  <2>2. /\ Len(ss) \in I /\ DOMAIN ss = I
        /\ \A i \in I : f[i] \in Seq(X) /\ ss[i] \in Seq(X) /\ i \in Nat /\ i >= 1
        /\ \A i \in I : i # 1 => i - 1 \in I /\ i - 1 < i /\ i - 1 \in Nat
    <3>1. Len(ss) \in Nat \ {0} /\ DOMAIN ss = I
      BY <1>2
    <3>2. \A i \in I : ss[i] \in Seq(X)
      OBVIOUS
    <3>3. \A i \in I : f[i] \in Seq(X)
      OBVIOUS
    <3>4. Len(ss) \in I /\ \A i \in I : i \in Nat /\ i >= 1 /\ i - 1 < i /\ i - 1 \in Nat
      BY <3>1
    <3>5. \A i \in I : i # 1 => i - 1 \in I
      BY <3>1
    <3> QED BY <3>1, <3>2, <3>3, <3>4, <3>5
  <2>3. \A s, t \in Seq(X) : ToSet(s \o t) = ToSet(s) \cup ToSet(t)
    BY ConcatMembers
  <2> DEFINE N == {n \in Nat : n \in I =>
                     \A x : x \in ToSet(f[n]) <=> \E i \in 1..n : x \in ToSet(ss[i])}
  <2>4. ASSUME NEW n \in Nat, \A m \in Nat : m < n => m \in N
        PROVE  n \in N
    <3> SUFFICES ASSUME n \in I
                 PROVE  \A x : x \in ToSet(f[n]) <=> \E i \in 1..n : x \in ToSet(ss[i])
      OBVIOUS
    <3>1. CASE n = 1
      <4>1. f[n] = ss[1] /\ 1..n = {1}
        BY <2>1, <3>1
      <4> QED BY <4>1
    <3>2. CASE n # 1
      <4>1. n - 1 \in I /\ n - 1 \in N
        BY <2>2, <2>4, <3>2
      <4>2. \A x : x \in ToSet(f[n - 1]) <=> \E i \in 1..(n - 1) : x \in ToSet(ss[i])
        BY <4>1
      <4>3. ToSet(f[n]) = ToSet(f[n - 1]) \cup ToSet(ss[n])
        BY <2>1, <2>2, <2>3, <3>2, <4>1
      <4>4. 1..n = 1..(n - 1) \cup {n}
        BY <2>2, <3>2
      <4> QED BY <4>2, <4>3, <4>4
    <3> QED BY <3>1, <3>2
  <2> HIDE DEF N
  <2>5. \A n \in Nat : n \in N
    BY <2>4, StrongInduction
  <2> QED BY <2>1, <2>2, <2>5 DEF N
<1> QED BY <1>1, <1>2

\* A sequence is that of its members, each on its own.
LEMMA FlattenSingletons ==
  ASSUME NEW X, NEW s \in Seq(X), NEW ss, ss = [i \in DOMAIN s |-> <<s[i]>>]
  PROVE  FlattenSeq(ss) = s
<1>1. /\ Len(s) \in Nat /\ DOMAIN s = 1..Len(s) /\ Len(ss) = Len(s)
      /\ ss \in Seq(Seq(X)) /\ \A i \in 1..Len(s) : ss[i] = <<s[i]>> /\ s[i] \in X
  <2>1. /\ Len(s) \in Nat /\ DOMAIN s = 1..Len(s) /\ \A i \in 1..Len(s) : s[i] \in X
    OBVIOUS
  <2>2. \A x \in X : <<x>> \in Seq(X)
    OBVIOUS
  <2>3. ss \in [1..Len(s) -> Seq(X)]
    BY <2>1, <2>2
  <2>4. \A Y : \A n \in Nat : \A t \in [1..n -> Y] : t \in Seq(Y) /\ Len(t) = n
    OBVIOUS
  <2> QED BY <2>1, <2>3, <2>4
<1>2. CASE Len(ss) = 0
  BY <1>1, <1>2 DEF FlattenSeq
<1>3. CASE Len(ss) # 0
  <2> DEFINE I == 1..Len(ss)
  <2>1. PICK f \in [I -> Seq(X)] :
          /\ FlattenSeq(ss) = f[Len(ss)]
          /\ f[1] = ss[1]
          /\ \A i \in I : i # 1 => f[i] = f[i - 1] \o ss[i]
    <3>1. ss \in Seq(Seq(X)) /\ Len(ss) # 0
      BY <1>1, <1>3
    <3>2. \A tt \in Seq(Seq(X)) : Len(tt) # 0 =>
            \E f \in [1..Len(tt) -> Seq(X)] :
              /\ FlattenSeq(tt) = f[Len(tt)]
              /\ f[1] = tt[1]
              /\ \A i \in 1..Len(tt) : i # 1 => f[i] = f[i - 1] \o tt[i]
      BY FlattenSteps
    <3> QED BY <3>1, <3>2
  <2> DEFINE N == {n \in Nat : n \in I => Len(f[n]) = n /\ \A k \in 1..n : f[n][k] = s[k]}
  <2>2. ASSUME NEW n \in Nat, \A m \in Nat : m < n => m \in N
        PROVE  n \in N
    <3> SUFFICES ASSUME n \in I PROVE Len(f[n]) = n /\ \A k \in 1..n : f[n][k] = s[k]
      OBVIOUS
    <3>1. CASE n = 1
      <4>1. f[n] = <<s[1]>>
        BY <1>1, <2>1, <3>1
      <4> QED BY <3>1, <4>1
    <3>2. CASE n # 1
      <4>1. n - 1 \in I /\ n - 1 \in Nat /\ n - 1 < n
        BY <1>1, <3>2
      <4>2. n - 1 \in N
        BY <2>2, <4>1
      <4>3. /\ f[n - 1] \in Seq(X) /\ Len(f[n - 1]) = n - 1
            /\ \A k \in 1..(n - 1) : f[n - 1][k] = s[k]
        BY <4>1, <4>2
      <4>4. f[n] = f[n - 1] \o <<s[n]>> /\ s[n] \in X
        BY <1>1, <2>1, <3>2
      <4> HIDE DEF N
      <4>5. f[n] = Append(f[n - 1], s[n])
        BY <4>3, <4>4
      <4>6. /\ Len(f[n]) = n /\ f[n][n] = s[n]
            /\ \A k \in 1..(n - 1) : f[n][k] = f[n - 1][k]
        BY <4>1, <4>3, <4>4, <4>5
      <4>7. \A k \in 1..n : k = n \/ k \in 1..(n - 1)
        BY <4>1
      <4> QED BY <4>3, <4>6, <4>7
    <3> QED BY <3>1, <3>2
  <2> HIDE DEF N
  <2>3. \A n \in Nat : n \in N
    BY <2>2, StrongInduction
  <2>4. /\ f[Len(ss)] \in Seq(X) /\ Len(f[Len(ss)]) = Len(s)
        /\ \A k \in 1..Len(s) : f[Len(ss)][k] = s[k]
    BY <1>1, <1>3, <2>3 DEF N
  <2>5. f[Len(ss)] = s
    BY <1>1, <2>4
  <2> QED BY <2>1, <2>5
<1> QED BY <1>2, <1>3

\* Sequences over a larger set.
LEMMA SeqsGrow ==
  ASSUME NEW A, NEW B, A \subseteq B
  PROVE  Seq(A) \subseteq Seq(B)
<1>1. \A s \in Seq(A) : Len(s) \in Nat /\ s \in [1..Len(s) -> A]
  OBVIOUS
<1>2. \A n \in Nat : \A s \in [1..n -> A] : s \in [1..n -> B]
  OBVIOUS
<1>3. \A n \in Nat : \A s \in [1..n -> B] : s \in Seq(B)
  OBVIOUS
<1> QED BY <1>1, <1>2, <1>3

\* A sequence whose members are mapped to sequences, which follow each other.
LEMMA Mapped ==
  ASSUME NEW Y, NEW X, NEW s \in Seq(Y), NEW ss \in [DOMAIN s -> Seq(X)]
  PROVE  /\ FlattenSeq(ss) \in Seq(X)
         /\ \A x : x \in ToSet(FlattenSeq(ss)) <=> \E i \in DOMAIN s : x \in ToSet(ss[i])
<1>1. Len(s) \in Nat /\ DOMAIN s = 1..Len(s)
  OBVIOUS
<1>2. \A Z : \A n \in Nat : \A t \in [1..n -> Z] : t \in Seq(Z) /\ DOMAIN t = 1..n
  OBVIOUS
<1>3. ss \in Seq(Seq(X)) /\ DOMAIN ss = DOMAIN s
  BY <1>1, <1>2
<1> QED BY <1>3, FlattenMembers

-----------------------------------------------------------------------------
(* Values.                                                                 *)

\* The values with what is in `below` under them.
ValueLevel(n, below) ==
  [t : {"scalar"}, v : STRING] \cup
  IF n = 0 THEN {}
  ELSE [t : {"list"}, items : Lists(below)] \cup [t : {"map"}, ents : Objects(below)]

\* Each level of values is built from the one below.
LEMMA ValueLevels == \A n \in Nat : ValuesUpTo[n] = ValueLevel(n, ValuesUpTo[n - 1])
<1> DEFINE Good(g, n) == g = [k \in 0..n |-> ValueLevel(k, g[k - 1])]
           All(f) == f = [n \in Nat |-> ValueLevel(n, f[n - 1])]
<1>1. \A A, B : ValueLevel(0, A) = ValueLevel(0, B)
  BY DEF ValueLevel
<1>2. \A n \in Nat : \E g : Good(g, n)
  <2> DEFINE N == {n \in Nat : \E g : Good(g, n)}
  <2>1. ASSUME NEW n \in Nat, \A m \in Nat : m < n => m \in N
        PROVE  n \in N
    <3>1. CASE n = 0
      <4> DEFINE g == [k \in 0..0 |-> ValueLevel(0, {})]
      <4>1. \A k \in 0..0 : g[k] = ValueLevel(k, g[k - 1])
        BY <1>1
      <4>2. Good(g, 0)
        BY <4>1
      <4> HIDE DEF g, Good
      <4> QED BY <3>1, <4>2
    <3>2. CASE n # 0
      <4>1. n - 1 \in N
        <5>1. n - 1 \in Nat /\ n - 1 < n
          BY <3>2
        <5> HIDE DEF N
        <5> QED BY <2>1, <5>1
      <4>2. PICK g : Good(g, n - 1)
        BY <4>1
      <4> DEFINE h == [k \in 0..n |-> IF k = n THEN ValueLevel(n, g[n - 1]) ELSE g[k]]
      <4>3. \A k \in 0..n : h[k] = ValueLevel(k, h[k - 1])
        <5> SUFFICES ASSUME NEW k \in 0..n PROVE h[k] = ValueLevel(k, h[k - 1])
          OBVIOUS
        <5>1. CASE k = 0
          <6>1. h[k] = g[0] /\ 0 \in 0..(n - 1)
            BY <3>2, <5>1
          <6>2. g[0] = ValueLevel(0, g[0 - 1])
            BY <4>2, <6>1
          <6> HIDE DEF h
          <6> QED BY <1>1, <5>1, <6>1, <6>2
        <5>2. CASE k # 0 /\ k # n
          <6>1. h[k] = g[k] /\ h[k - 1] = g[k - 1] /\ k \in 0..(n - 1)
            BY <5>2
          <6> HIDE DEF h
          <6> QED BY <4>2, <6>1
        <5>3. CASE k = n
          BY <3>2, <5>3
        <5> QED BY <5>1, <5>2, <5>3
      <4>4. Good(h, n)
        BY <4>3
      <4> HIDE DEF h, Good
      <4> QED BY <4>4
    <3> QED BY <3>1, <3>2
  <2> HIDE DEF N
  <2>2. \A n \in Nat : n \in N
    BY <2>1, StrongInduction
  <2> QED BY <2>2 DEF N
<1>3. ASSUME NEW g, NEW h, NEW n \in Nat, NEW m \in Nat, Good(g, n), Good(h, m)
      PROVE  \A k \in Nat : k =< n /\ k =< m => g[k] = h[k]
  <2> DEFINE K == {k \in Nat : k =< n /\ k =< m => g[k] = h[k]}
  <2>1. ASSUME NEW k \in Nat, \A j \in Nat : j < k => j \in K
        PROVE  k \in K
    <3> SUFFICES ASSUME k =< n, k =< m PROVE g[k] = h[k]
      OBVIOUS
    <3>1. g[k] = ValueLevel(k, g[k - 1]) /\ h[k] = ValueLevel(k, h[k - 1])
      BY <1>3
    <3>2. CASE k = 0
      BY <1>1, <3>1, <3>2
    <3>3. CASE k # 0
      <4>1. k - 1 \in Nat /\ k - 1 < k /\ k - 1 =< n /\ k - 1 =< m
        BY <3>3
      <4>2. g[k - 1] = h[k - 1]
        BY <2>1, <4>1
      <4> QED BY <3>1, <4>2
    <3> QED BY <3>2, <3>3
  <2> HIDE DEF K
  <2>2. \A k \in Nat : k \in K
    BY <2>1, StrongInduction
  <2> QED BY <2>2 DEF K
<1>4. \E f : All(f)
  <2> DEFINE G == [n \in Nat |-> CHOOSE g : Good(g, n)]
             f == [n \in Nat |-> G[n][n]]
  <2>1. \A n \in Nat : Good(G[n], n)
    <3> SUFFICES ASSUME NEW n \in Nat PROVE Good(G[n], n)
      OBVIOUS
    <3>1. G[n] = CHOOSE g : Good(g, n)
      OBVIOUS
    <3>2. \E g : Good(g, n)
      BY <1>2
    <3> HIDE DEF G, Good
    <3> QED BY <3>1, <3>2
  <2> HIDE DEF G
  <2>2. \A n \in Nat : f[n] = ValueLevel(n, f[n - 1])
    <3> SUFFICES ASSUME NEW n \in Nat PROVE f[n] = ValueLevel(n, f[n - 1])
      OBVIOUS
    <3>1. f[n] = G[n][n] /\ G[n][n] = ValueLevel(n, G[n][n - 1])
      <4>1. \A g : Good(g, n) => \A k \in 0..n : g[k] = ValueLevel(k, g[k - 1])
        OBVIOUS
      <4>2. n \in 0..n /\ f[n] = G[n][n]
        OBVIOUS
      <4> HIDE DEF Good, f
      <4> QED BY <2>1, <4>1, <4>2
    <3>2. CASE n = 0
      BY <1>1, <3>1, <3>2
    <3>3. CASE n # 0
      <4>1. n - 1 \in Nat /\ n - 1 =< n /\ f[n - 1] = G[n - 1][n - 1]
        BY <3>3
      <4>2. G[n][n - 1] = G[n - 1][n - 1]
        <5> HIDE DEF Good
        <5> QED BY <1>3, <2>1, <4>1
      <4> HIDE DEF f
      <4> QED BY <3>1, <4>1, <4>2
    <3> QED BY <3>2, <3>3
  <2>3. All(f)
    BY <2>2
  <2> HIDE DEF f, All
  <2> QED BY <2>3
<1>5. ValuesUpTo = CHOOSE f : All(f)
  BY DEF ValuesUpTo, ValueLevel
<1>6. All(ValuesUpTo)
  <2> HIDE DEF All
  <2> QED BY <1>4, <1>5
<1>7. \A f : All(f) => \A n \in Nat : f[n] = ValueLevel(n, f[n - 1])
  OBVIOUS
<1> HIDE DEF All
<1> QED BY <1>6, <1>7

\* Lists and objects of more values are more lists and objects.
LEMMA FormsGrow ==
  ASSUME NEW A, NEW B, A \subseteq B
  PROVE  Lists(A) \subseteq Lists(B) /\ Objects(A) \subseteq Objects(B)
<1>1. [key : Key, val : A] \subseteq [key : Key, val : B]
  OBVIOUS
<1> QED BY <1>1, SeqsGrow DEF Lists, Objects

\* A value that is not too deep for a level is not for the higher ones.
LEMMA ValueLevelsGrow ==
  \A m, n \in Nat : m =< n => ValuesUpTo[m] \subseteq ValuesUpTo[n]
<1>1. \A n \in Nat : ValuesUpTo[n] \subseteq ValuesUpTo[n + 1]
  <2> DEFINE N == {n \in Nat : ValuesUpTo[n] \subseteq ValuesUpTo[n + 1]}
  <2>1. ASSUME NEW n \in Nat, \A m \in Nat : m < n => m \in N
        PROVE  n \in N
    <3>1. /\ ValuesUpTo[n] = ValueLevel(n, ValuesUpTo[n - 1])
          /\ ValuesUpTo[n + 1] = ValueLevel(n + 1, ValuesUpTo[n])
      <4>1. n + 1 \in Nat /\ (n + 1) - 1 = n
        OBVIOUS
      <4> QED BY <4>1, ValueLevels
    <3>2. n + 1 # 0
      OBVIOUS
    <3>3. CASE n = 0
      BY <3>1, <3>2, <3>3 DEF ValueLevel
    <3>4. CASE n # 0
      <4>1. n - 1 \in Nat /\ n - 1 < n /\ (n - 1) + 1 = n
        BY <3>4
      <4>2. ValuesUpTo[n - 1] \subseteq ValuesUpTo[n]
        BY <2>1, <4>1
      <4>3. /\ Lists(ValuesUpTo[n - 1]) \subseteq Lists(ValuesUpTo[n])
            /\ Objects(ValuesUpTo[n - 1]) \subseteq Objects(ValuesUpTo[n])
        BY <4>2, FormsGrow
      <4> QED BY <3>1, <3>2, <3>4, <4>3 DEF ValueLevel
    <3> QED BY <3>3, <3>4
  <2> HIDE DEF N
  <2>2. \A n \in Nat : n \in N
    BY <2>1, StrongInduction
  <2> QED BY <2>2 DEF N
<1>2. ASSUME NEW m \in Nat
      PROVE  \A n \in Nat : m =< n => ValuesUpTo[m] \subseteq ValuesUpTo[n]
  <2> DEFINE N == {n \in Nat : m =< n => ValuesUpTo[m] \subseteq ValuesUpTo[n]}
  <2>1. ASSUME NEW n \in Nat, \A k \in Nat : k < n => k \in N
        PROVE  n \in N
    <3> SUFFICES ASSUME m =< n, m # n PROVE ValuesUpTo[m] \subseteq ValuesUpTo[n]
      OBVIOUS
    <3>1. n - 1 \in Nat /\ n - 1 < n /\ m =< n - 1 /\ (n - 1) + 1 = n
      OBVIOUS
    <3>2. ValuesUpTo[m] \subseteq ValuesUpTo[n - 1]
      BY <2>1, <3>1
    <3> QED BY <1>1, <3>1, <3>2
  <2> HIDE DEF N
  <2>2. \A n \in Nat : n \in N
    BY <2>1, StrongInduction
  <2> QED BY <2>2 DEF N
<1> QED BY <1>2

\* A function to the first levels the values are of.
IsValueDepth(depth) ==
  /\ depth \in [Value -> Nat]
  /\ \A v \in Value :
       /\ depth[v] =< MaxNesting
       /\ \A n \in Nat : v \in ValuesUpTo[n] <=> depth[v] =< n

ValueDepth == CHOOSE depth : IsValueDepth(depth)

\* Each value has a depth.
LEMMA ValueDepths == IsValueDepth(ValueDepth)
<1> DEFINE Fits(v)  == {n \in Nat : v \in ValuesUpTo[n]}
           Least(v, d) == d \in Fits(v) /\ \A n \in Fits(v) : d =< n
           depth == [v \in Value |-> CHOOSE d \in Nat : Least(v, d)]
<1>1. \A v \in Value : MaxNesting \in Fits(v)
  BY FormAssumption DEF Value
<1>2. \A v \in Value : \E d \in Nat : Least(v, d)
  <2> SUFFICES ASSUME NEW v \in Value PROVE \E d \in Nat : Least(v, d)
    OBVIOUS
  <2>1. Fits(v) \in SUBSET Nat /\ Fits(v) # {}
    BY <1>1
  <2>2. PICK d \in Fits(v) : \A n \in Fits(v) : d =< n
    <3> HIDE DEF Fits
    <3> QED BY <2>1, FirstExists
  <2>3. d \in Nat
    BY <2>1
  <2> HIDE DEF Fits
  <2> QED BY <2>2, <2>3
<1>3. \A v \in Value : depth[v] \in Nat /\ Least(v, depth[v])
  <2> SUFFICES ASSUME NEW v \in Value PROVE depth[v] \in Nat /\ Least(v, depth[v])
    OBVIOUS
  <2>1. depth[v] = CHOOSE d \in Nat : Least(v, d)
    OBVIOUS
  <2>2. \E d \in Nat : Least(v, d)
    BY <1>2
  <2> HIDE DEF depth, Least
  <2> QED BY <2>1, <2>2
<1>4. depth \in [Value -> Nat]
  BY <1>3
<1> HIDE DEF depth
<1>5. ASSUME NEW v \in Value
      PROVE  /\ depth[v] =< MaxNesting
             /\ \A n \in Nat : v \in ValuesUpTo[n] <=> depth[v] =< n
  <2>1. depth[v] \in Nat /\ v \in ValuesUpTo[depth[v]]
    BY <1>3
  <2>2. \A n \in Nat : v \in ValuesUpTo[n] => depth[v] =< n
    BY <1>3
  <2>3. \A n \in Nat : depth[v] =< n => v \in ValuesUpTo[n]
    BY <2>1, ValueLevelsGrow
  <2> QED BY <1>1, <2>2, <2>3
<1>6. IsValueDepth(depth)
  BY <1>4, <1>5 DEF IsValueDepth
<1> QED BY <1>6 DEF ValueDepth

\* What a value of a level looks like.
LEMMA ValueShape ==
  ASSUME NEW n \in Nat, NEW v \in ValuesUpTo[n]
  PROVE  /\ v.t \in {"scalar", "list", "map"}
         /\ v.t = "scalar" => v = Scalar(v.v) /\ v.v \in STRING
         /\ v.t = "list" => v = List(v.items) /\ n # 0 /\ v.items \in Lists(ValuesUpTo[n - 1])
         /\ v.t = "map" => v = EntriesOf(v.ents) /\ n # 0 /\ v.ents \in Objects(ValuesUpTo[n - 1])
<1>1. ValuesUpTo[n] = ValueLevel(n, ValuesUpTo[n - 1])
  BY ValueLevels
<1>2. CASE v \in [t : {"scalar"}, v : STRING]
  BY <1>2 DEF Scalar
<1>3. CASE n # 0 /\ v \in [t : {"list"}, items : Lists(ValuesUpTo[n - 1])]
  BY <1>3 DEF List
<1>4. CASE n # 0 /\ v \in [t : {"map"}, ents : Objects(ValuesUpTo[n - 1])]
  BY <1>4 DEF EntriesOf
<1> QED BY <1>1, <1>2, <1>3, <1>4 DEF ValueLevel

\* What makes a value of a level.
LEMMA ValueForms ==
  ASSUME NEW n \in Nat
  PROVE  /\ \A s \in STRING : Scalar(s) \in ValuesUpTo[n]
         /\ n # 0 => \A xs \in Lists(ValuesUpTo[n - 1]) : List(xs) \in ValuesUpTo[n]
         /\ n # 0 => \A o \in Objects(ValuesUpTo[n - 1]) : EntriesOf(o) \in ValuesUpTo[n]
BY ValueLevels DEF ValueLevel, Scalar, List, EntriesOf

\* Indices are keys of one part, each its own, and none is dropped.
LEMMA IndexFacts ==
  /\ IndexKeys \in Seq(Key) /\ IsInjective(IndexKeys) /\ DOMAIN IndexKeys = DOMAIN IndexParts
  /\ Len(IndexParts) \in Nat /\ DOMAIN IndexParts = 1..Len(IndexParts)
  /\ \A i \in DOMAIN IndexParts :
       IndexKeys[i] = IndexKey(i) /\ IndexKey(i) \in Key \ PollutionKeys
  /\ \A i, j \in DOMAIN IndexParts : IndexKey(i) = IndexKey(j) => i = j
<1>1. /\ Len(IndexParts) \in Nat /\ DOMAIN IndexParts = 1..Len(IndexParts)
      /\ \A i \in DOMAIN IndexParts : IndexParts[i] \in STRING \ Pollution
      /\ \A i, j \in DOMAIN IndexParts : IndexParts[i] = IndexParts[j] => i = j
  <2>1. Pollution \subseteq KnownParts
    BY DEF KnownParts
  <2>2. /\ IndexParts \in Seq(STRING) /\ IsInjective(IndexParts)
        /\ ToSet(IndexParts) \cap KnownParts = {}
    BY FormAssumption
  <2> QED BY <2>1, <2>2 DEF ToSet, IsInjective
<1>2. \A i, j \in DOMAIN IndexParts : IndexKey(i) = IndexKey(j) => i = j
  <2>1. \A a, b : <<a>> = <<b>> => a = b
    OBVIOUS
  <2> QED BY <1>1, <2>1 DEF IndexKey
<1>3. \A i \in DOMAIN IndexParts : IndexKey(i) \in Key \ PollutionKeys
  <2>1. \A S : \A s \in S : <<s>> \in Seq(S) \ {<<>>}
    OBVIOUS
  <2>3. \A s \in STRING : <<s>> \in Key
    BY <2>1, Zenon DEF Key
  <2>2. \A a, b : <<a>> = <<b>> => a = b
    OBVIOUS
  <2> QED BY <1>1, <2>2, <2>3 DEF IndexKey, PollutionKeys
<1>4. IndexKeys \in [1..Len(IndexParts) -> Key]
  BY <1>1, <1>3 DEF IndexKeys
<1>5. IndexKeys \in Seq(Key)
  <2>1. \A Z : \A n \in Nat : \A t \in [1..n -> Z] : t \in Seq(Z)
    OBVIOUS
  <2> QED BY <1>1, <1>4, <2>1
<1>6. \A i \in DOMAIN IndexParts : IndexKeys[i] = IndexKey(i)
  BY DEF IndexKeys
<1>7. DOMAIN IndexKeys = DOMAIN IndexParts
  BY DEF IndexKeys
<1> QED BY <1>1, <1>2, <1>3, <1>5, <1>6, <1>7 DEF IsInjective

\* What is below a value is lower, and each step leads to one thing.
LEMMA KidsAreBelow ==
  ASSUME NEW v \in Value
  PROVE  /\ v.t \in {"scalar", "list", "map"}
         /\ Arity(v) \in Nat
         /\ \A i \in 1..Arity(v) :
              /\ v.t \in {"list", "map"}
              /\ StepTo(v, i) \in Key
              /\ v.t = "list" => StepTo(v, i) = IndexKey(i) /\ StepTo(v, i) \notin PollutionKeys
              /\ Child(v, i) \in Value
              /\ ValueDepth[Child(v, i)] \in Nat /\ ValueDepth[Child(v, i)] < ValueDepth[v]
         /\ \A i, j \in 1..Arity(v) : StepTo(v, i) = StepTo(v, j) => i = j
<1> DEFINE n == ValueDepth[v]
<1>1. n \in Nat /\ n =< MaxNesting /\ v \in ValuesUpTo[n] /\ MaxNesting \in Nat
  BY ValueDepths, FormAssumption DEF IsValueDepth
<1> HIDE DEF n
<1>2. /\ v.t \in {"scalar", "list", "map"}
      /\ v.t = "list" => v = List(v.items) /\ n # 0 /\ v.items \in Lists(ValuesUpTo[n - 1])
      /\ v.t = "map" => v = EntriesOf(v.ents) /\ n # 0 /\ v.ents \in Objects(ValuesUpTo[n - 1])
  BY <1>1, ValueShape
<1>3. n # 0 => \A x \in ValuesUpTo[n - 1] :
        x \in Value /\ ValueDepth[x] \in Nat /\ ValueDepth[x] < n
  <2> SUFFICES ASSUME n # 0, NEW x \in ValuesUpTo[n - 1]
               PROVE  x \in Value /\ ValueDepth[x] \in Nat /\ ValueDepth[x] < n
    OBVIOUS
  <2>1. n - 1 \in Nat /\ n - 1 =< MaxNesting
    BY <1>1
  <2>2. x \in Value
    BY <1>1, <2>1, ValueLevelsGrow DEF Value
  <2>3. ValueDepth[x] \in Nat /\ ValueDepth[x] =< n - 1
    BY <2>1, <2>2, ValueDepths DEF IsValueDepth
  <2> QED BY <1>1, <2>2, <2>3
<1>4. CASE v.t = "scalar"
  <2>1. Arity(v) = 0
    BY <1>4 DEF Arity
  <2> QED BY <1>2, <2>1
<1>5. CASE v.t = "list"
  <2>1. /\ Arity(v) = Len(v.items) /\ v.items \in Seq(ValuesUpTo[n - 1])
        /\ Len(v.items) =< Len(IndexParts)
        /\ \A i : StepTo(v, i) = IndexKey(i) /\ Child(v, i) = v.items[i]
    BY <1>2, <1>5 DEF Arity, StepTo, Child, Lists
  <2>2. Arity(v) \in Nat /\ \A i \in 1..Arity(v) : Child(v, i) \in ValuesUpTo[n - 1]
    BY <2>1
  <2>3. \A i \in 1..Arity(v) : i \in DOMAIN IndexParts
    BY <2>1, <2>2, IndexFacts
  <2> QED BY <1>2, <1>3, <1>5, <2>1, <2>2, <2>3, IndexFacts DEF n
<1>6. CASE v.t = "map"
  <2>1. /\ Arity(v) = Len(v.ents) /\ v.ents \in Seq([key : Key, val : ValuesUpTo[n - 1]])
        /\ IsInjective(Keys(v.ents))
        /\ \A i : StepTo(v, i) = v.ents[i].key /\ Child(v, i) = v.ents[i].val
    BY <1>2, <1>6 DEF Arity, StepTo, Child, Objects
  <2>2. /\ Arity(v) \in Nat /\ DOMAIN v.ents = 1..Arity(v)
        /\ \A i \in 1..Arity(v) : v.ents[i] \in [key : Key, val : ValuesUpTo[n - 1]]
    <3>1. \A S : \A s \in Seq(S) :
            Len(s) \in Nat /\ DOMAIN s = 1..Len(s) /\ \A i \in 1..Len(s) : s[i] \in S
      OBVIOUS
    <3> QED BY <2>1, <3>1
  <2>3. \A i \in 1..Arity(v) : StepTo(v, i) \in Key /\ Child(v, i) \in ValuesUpTo[n - 1]
    BY <2>1, <2>2
  <2>4. \A i, j \in 1..Arity(v) : StepTo(v, i) = StepTo(v, j) => i = j
    <3>1. /\ DOMAIN Keys(v.ents) = DOMAIN v.ents
          /\ \A i \in DOMAIN v.ents : Keys(v.ents)[i] = v.ents[i].key
      BY DEF Keys
    <3> QED BY <2>1, <2>2, <3>1 DEF IsInjective
  <2> QED BY <1>2, <1>3, <1>6, <2>2, <2>3, <2>4 DEF n
<1> QED BY <1>2, <1>4, <1>5, <1>6

\* A set that has each value whose kids it has has them all.
LEMMA ValueInduction ==
  ASSUME NEW P, \A v \in Value : (\A i \in 1..Arity(v) : Child(v, i) \in P) => v \in P
  PROVE  \A v \in Value : v \in P
<1> DEFINE N == {n \in Nat : \A v \in Value : ValueDepth[v] = n => v \in P}
<1>1. ASSUME NEW n \in Nat, \A m \in Nat : m < n => m \in N
      PROVE  n \in N
  <2> SUFFICES ASSUME NEW v \in Value, ValueDepth[v] = n PROVE v \in P
    OBVIOUS
  <2>1. \A i \in 1..Arity(v) : Child(v, i) \in P
    BY <1>1, KidsAreBelow
  <2> QED BY <2>1
<1> HIDE DEF N
<1>2. \A n \in Nat : n \in N
  BY <1>1, StrongInduction
<1> QED BY <1>2, ValueDepths DEF N, IsValueDepth

\* A definition that looks only at the kids of its argument ...
IsValueRecursive(V, T, F, D) ==
  /\ T \in [Value -> SUBSET V] /\ \A v \in Value : T[v] # {}
  /\ F = {g \in [Value -> V] : \A v \in Value : g[v] \in T[v]}
  /\ D \in [Value -> [F -> V]]
  /\ \A v \in Value : \A g \in F : D[v][g] \in T[v]
  /\ \A v \in Value : \A g, h \in F :
       (\A i \in 1..Arity(v) : g[Child(v, i)] = h[Child(v, i)]) => D[v][g] = D[v][h]

\* ... defines a function.
LEMMA ValueRecursion ==
  ASSUME NEW V, NEW T, NEW F, NEW D, IsValueRecursive(V, T, F, D)
  PROVE  \E f \in F : \A v \in Value : f[v] = D[v][f]
<1>1. ValueDepth \in [Value -> Nat]
  BY ValueDepths DEF IsValueDepth
<1>2. \A v \in Value : \A g, h \in F :
        (\A x \in Value : ValueDepth[x] < ValueDepth[v] => g[x] = h[x]) => D[v][g] = D[v][h]
  <2> SUFFICES ASSUME NEW v \in Value, NEW g \in F, NEW h \in F,
                      \A x \in Value : ValueDepth[x] < ValueDepth[v] => g[x] = h[x]
               PROVE  D[v][g] = D[v][h]
    OBVIOUS
  <2>1. \A i \in 1..Arity(v) : g[Child(v, i)] = h[Child(v, i)]
    BY KidsAreBelow
  <2> QED BY <2>1 DEF IsValueRecursive
<1>3. IsRecursive(Value, V, ValueDepth, T, F, D)
  BY <1>1, <1>2 DEF IsRecursive, IsValueRecursive
<1> QED BY <1>3, Recursion

-----------------------------------------------------------------------------
(* More about sequences of sequences.                                      *)

\* Two sequences without repetitions and common members follow each other
\* without repetitions.
LEMMA ConcatInjective ==
  ASSUME NEW X, NEW s \in Seq(X), NEW t \in Seq(X), IsInjective(s), IsInjective(t),
         ToSet(s) \cap ToSet(t) = {}
  PROVE  IsInjective(s \o t)
<1> DEFINE both == s \o t
<1>1. Len(s) \in Nat /\ Len(t) \in Nat /\ DOMAIN s = 1..Len(s) /\ DOMAIN t = 1..Len(t)
  OBVIOUS
<1>2. /\ DOMAIN both = 1..(Len(s) + Len(t))
      /\ \A k \in 1..(Len(s) + Len(t)) :
           both[k] = IF k =< Len(s) THEN s[k] ELSE t[k - Len(s)]
  OBVIOUS
<1> HIDE DEF both
<1>3. \A k \in DOMAIN both :
        \/ k =< Len(s) /\ k \in DOMAIN s /\ both[k] = s[k]
        \/ ~(k =< Len(s)) /\ k - Len(s) \in DOMAIN t /\ both[k] = t[k - Len(s)]
  BY <1>1, <1>2
<1>4. \A i \in DOMAIN s, j \in DOMAIN t : s[i] # t[j]
  BY DEF ToSet
<1>5. ASSUME NEW a \in DOMAIN both, NEW b \in DOMAIN both, both[a] = both[b]
      PROVE  a = b
  <2>1. CASE a =< Len(s) /\ b =< Len(s)
    BY <1>3, <1>5, <2>1 DEF IsInjective
  <2>2. CASE ~(a =< Len(s)) /\ ~(b =< Len(s))
    <3>1. a - Len(s) = b - Len(s)
      BY <1>3, <1>5, <2>2 DEF IsInjective
    <3> QED BY <1>1, <1>2, <3>1
  <2>3. CASE a =< Len(s) /\ ~(b =< Len(s))
    BY <1>3, <1>4, <1>5, <2>3
  <2>4. CASE ~(a =< Len(s)) /\ b =< Len(s)
    <3>1. b \in DOMAIN s /\ both[b] = s[b] /\ a - Len(s) \in DOMAIN t /\ both[a] = t[a - Len(s)]
      BY <1>3, <2>4
    <3>2. s[b] # t[a - Len(s)]
      BY <1>4, <3>1
    <3> QED BY <1>5, <3>1, <3>2
  <2> QED BY <2>1, <2>2, <2>3, <2>4
<1> QED BY <1>5 DEF IsInjective, both

\* So do many.
LEMMA FlattenInjective ==
  ASSUME NEW X, NEW ss \in Seq(Seq(X)), \A i \in DOMAIN ss : IsInjective(ss[i]),
         \A i, j \in DOMAIN ss : i # j => ToSet(ss[i]) \cap ToSet(ss[j]) = {}
  PROVE  IsInjective(FlattenSeq(ss))
<1>1. CASE Len(ss) = 0
  BY <1>1 DEF FlattenSeq, IsInjective
<1>2. CASE Len(ss) # 0
  <2> DEFINE I == 1..Len(ss)
  <2>1. PICK f \in [I -> Seq(X)] :
          /\ FlattenSeq(ss) = f[Len(ss)]
          /\ f[1] = ss[1]
          /\ \A i \in I : i # 1 => f[i] = f[i - 1] \o ss[i]
    <3>1. \A tt \in Seq(Seq(X)) : Len(tt) # 0 =>
            \E f \in [1..Len(tt) -> Seq(X)] :
              /\ FlattenSeq(tt) = f[Len(tt)]
              /\ f[1] = tt[1]
              /\ \A i \in 1..Len(tt) : i # 1 => f[i] = f[i - 1] \o tt[i]
      BY FlattenSteps
    <3> QED BY <1>2, <3>1
  <2>2. /\ Len(ss) \in I /\ DOMAIN ss = I
        /\ \A i \in I : f[i] \in Seq(X) /\ ss[i] \in Seq(X) /\ i \in Nat /\ i >= 1
        /\ \A i \in I : i # 1 => i - 1 \in I /\ i - 1 < i /\ i - 1 \in Nat
    <3>1. Len(ss) \in Nat \ {0} /\ DOMAIN ss = I
      BY <1>2
    <3>2. \A i \in I : ss[i] \in Seq(X)
      OBVIOUS
    <3>3. \A i \in I : f[i] \in Seq(X)
      OBVIOUS
    <3>4. Len(ss) \in I /\ \A i \in I : i \in Nat /\ i >= 1 /\ i - 1 < i /\ i - 1 \in Nat
      BY <3>1
    <3>5. \A i \in I : i # 1 => i - 1 \in I
      BY <3>1
    <3> QED BY <3>1, <3>2, <3>3, <3>4, <3>5
  <2> DEFINE N == {n \in Nat : n \in I =>
                     /\ IsInjective(f[n])
                     /\ \A x : x \in ToSet(f[n]) <=> \E i \in 1..n : x \in ToSet(ss[i])}
  <2>3. ASSUME NEW n \in Nat, \A m \in Nat : m < n => m \in N
        PROVE  n \in N
    <3> SUFFICES ASSUME n \in I
                 PROVE  /\ IsInjective(f[n])
                        /\ \A x : x \in ToSet(f[n]) <=> \E i \in 1..n : x \in ToSet(ss[i])
      OBVIOUS
    <3>1. CASE n = 1
      <4>1. f[n] = ss[1] /\ 1..n = {1} /\ 1 \in DOMAIN ss
        BY <2>1, <2>2, <3>1
      <4> QED BY <4>1
    <3>2. CASE n # 1
      <4>1. n - 1 \in I /\ n - 1 \in N
        BY <2>2, <2>3, <3>2
      <4>2. /\ IsInjective(f[n - 1])
            /\ \A x : x \in ToSet(f[n - 1]) <=> \E i \in 1..(n - 1) : x \in ToSet(ss[i])
        BY <4>1
      <4>3. /\ f[n] = f[n - 1] \o ss[n]
            /\ f[n - 1] \in Seq(X) /\ ss[n] \in Seq(X)
        BY <2>1, <2>2, <3>2, <4>1
      <4>4. ToSet(f[n]) = ToSet(f[n - 1]) \cup ToSet(ss[n])
        BY <4>3, ConcatMembers
      <4>5. /\ 1..n = 1..(n - 1) \cup {n} /\ \A i \in 1..(n - 1) : i \in DOMAIN ss /\ i # n
            /\ n \in DOMAIN ss
        BY <2>2, <3>2
      <4>6. ToSet(f[n - 1]) \cap ToSet(ss[n]) = {}
        <5> SUFFICES ASSUME NEW x \in ToSet(f[n - 1]), x \in ToSet(ss[n]) PROVE FALSE
          OBVIOUS
        <5>1. PICK i \in 1..(n - 1) : x \in ToSet(ss[i])
          BY <4>2
        <5> QED BY <4>5, <5>1
      <4>7. IsInjective(f[n])
        BY <4>2, <4>3, <4>5, <4>6, ConcatInjective
      <4> QED BY <4>2, <4>4, <4>5, <4>7
    <3> QED BY <3>1, <3>2
  <2> HIDE DEF N
  <2>4. \A n \in Nat : n \in N
    BY <2>3, StrongInduction
  <2> QED BY <2>1, <2>2, <2>4 DEF N
<1> QED BY <1>1, <1>2

\* The flattened sequence begins with the first of its parts.
LEMMA FlattenFirst ==
  ASSUME NEW X, NEW s \in Seq(X), NEW ss \in Seq(Seq(X))
  PROVE  FlattenSeq(<<s>> \o ss) = s \o FlattenSeq(ss)
<1> DEFINE tt == <<s>> \o ss
           n  == Len(ss)
<1>1. /\ n \in Nat /\ tt \in Seq(Seq(X)) /\ Len(tt) = n + 1 /\ tt[1] = s
      /\ \A k \in 1..n : tt[k + 1] = ss[k]
  <2>1. <<s>> \in Seq(Seq(X)) /\ Len(<<s>>) = 1 /\ <<s>>[1] = s
    OBVIOUS
  <2>2. n \in Nat
    OBVIOUS
  <2>3. /\ tt \in Seq(Seq(X)) /\ Len(tt) = 1 + n
        /\ \A i \in 1..(1 + n) : tt[i] = IF i =< 1 THEN <<s>>[i] ELSE ss[i - 1]
    BY <2>1, ConcatProperties
  <2> HIDE DEF tt, n
  <2>4. 1 \in 1..(1 + n) /\ 1 =< 1 /\ 1 + n = n + 1
    BY <2>2
  <2>5. tt[1] = s
    BY <2>1, <2>3, <2>4
  <2>6. ASSUME NEW k \in 1..n
        PROVE  tt[k + 1] = ss[k]
    <3>1. k + 1 \in 1..(1 + n) /\ ~(k + 1 =< 1) /\ (k + 1) - 1 = k
      BY <2>2
    <3>2. tt[k + 1] = ss[(k + 1) - 1]
      BY <2>3, <3>1
    <3> QED BY <3>1, <3>2
  <2> QED BY <2>2, <2>3, <2>4, <2>5, <2>6
<1> HIDE DEF tt
<1>0. \A uu \in Seq(Seq(X)) : Len(uu) # 0 =>
          \E f \in [1..Len(uu) -> Seq(X)] :
             /\ FlattenSeq(uu) = f[Len(uu)]
             /\ f[1] = uu[1]
             /\ \A i \in 1..Len(uu) : i # 1 => f[i] = f[i - 1] \o uu[i]
  BY FlattenSteps
<1>2. PICK f \in [1..(n + 1) -> Seq(X)] :
        /\ FlattenSeq(tt) = f[n + 1]
        /\ f[1] = s
        /\ \A i \in 1..(n + 1) : i # 1 => f[i] = f[i - 1] \o tt[i]
  <2>1. Len(tt) # 0
    BY <1>1
  <2>2. \E f \in [1..Len(tt) -> Seq(X)] :
           /\ FlattenSeq(tt) = f[Len(tt)]
           /\ f[1] = tt[1]
           /\ \A i \in 1..Len(tt) : i # 1 => f[i] = f[i - 1] \o tt[i]
    BY <1>0, <1>1, <2>1
  <2> QED BY <1>1, <2>2
<1>3. CASE n = 0
  <2>1. FlattenSeq(ss) = <<>>
    BY <1>3 DEF FlattenSeq
  <2> QED BY <1>2, <1>3, <2>1, ConcatEmptySeq DEF tt
<1>4. CASE n # 0
  <2>1. PICK g \in [1..n -> Seq(X)] :
          /\ FlattenSeq(ss) = g[n]
          /\ g[1] = ss[1]
          /\ \A i \in 1..n : i # 1 => g[i] = g[i - 1] \o ss[i]
    BY <1>0, <1>4
  <2> HIDE DEF n
  <2> DEFINE N == {k \in Nat : k \in 1..n => f[k + 1] = s \o g[k]}
  <2>2. ASSUME NEW k \in Nat, \A m \in Nat : m < k => m \in N
        PROVE  k \in N
    <3> SUFFICES ASSUME k \in 1..n PROVE f[k + 1] = s \o g[k]
      OBVIOUS
    <3>1. f[k + 1] = f[k] \o ss[k]
      <4>1. k + 1 \in 1..(n + 1) /\ k + 1 # 1 /\ (k + 1) - 1 = k
        BY <1>1
      <4> QED BY <1>1, <1>2, <4>1
    <3>2. CASE k = 1
      BY <1>2, <2>1, <3>1, <3>2
    <3>3. CASE k # 1
      <4>1. k - 1 \in 1..n /\ k - 1 \in Nat /\ k - 1 < k /\ (k - 1) + 1 = k
        BY <1>1, <3>3
      <4>2. f[k] = s \o g[k - 1]
        BY <2>2, <4>1
      <4>3. g[k - 1] \in Seq(X) /\ ss[k] \in Seq(X) /\ g[k] = g[k - 1] \o ss[k]
        <5>1. \A i \in 1..Len(ss) : ss[i] \in Seq(X)
          BY ElementOfSeq
        <5> QED BY <2>1, <3>3, <4>1, <5>1 DEF n
      <4>4. (s \o g[k - 1]) \o ss[k] = s \o (g[k - 1] \o ss[k])
        <5>1. \A a, b, c \in Seq(X) : (a \o b) \o c = a \o (b \o c)
          BY ConcatAssociative
        <5> QED BY <4>3, <5>1
      <4> QED BY <3>1, <4>2, <4>3, <4>4
    <3> QED BY <3>2, <3>3
  <2> HIDE DEF N
  <2>3. \A k \in Nat : k \in N
    BY <2>2, StrongInduction
  <2>4. n \in 1..n /\ n \in Nat
    BY <1>1, <1>4
  <2>5. f[n + 1] = s \o g[n]
    BY <2>3, <2>4 DEF N
  <2> QED BY <1>2, <2>1, <2>5 DEF tt
<1> QED BY <1>3, <1>4

\* The members at some positions: all of these, and no others.
LEMMA Sifted ==
  ASSUME NEW X, NEW s \in Seq(X), NEW I
  PROVE  /\ Sift(s, I) \in Seq(X)
         /\ \A x : x \in ToSet(Sift(s, I)) <=> \E i \in DOMAIN s : i \in I /\ x = s[i]
         /\ (\A i, j \in DOMAIN s : i \in I /\ j \in I /\ s[i] = s[j] => i = j)
              => IsInjective(Sift(s, I))
         /\ (\A i \in DOMAIN s : i \in I) => Sift(s, I) = s
<1> DEFINE ss == [i \in DOMAIN s |-> IF i \in I THEN <<s[i]>> ELSE <<>>]
<1>1. Sift(s, I) = FlattenSeq(ss)
  BY DEF Sift
<1>2. /\ ss \in [DOMAIN s -> Seq(X)]
      /\ ss \in Seq(Seq(X)) /\ DOMAIN ss = DOMAIN s
  <2>1. Len(s) \in Nat /\ DOMAIN s = 1..Len(s) /\ \A i \in DOMAIN s : s[i] \in X
    OBVIOUS
  <2>2. <<>> \in Seq(X) /\ \A x \in X : <<x>> \in Seq(X)
    OBVIOUS
  <2>3. ss \in [DOMAIN s -> Seq(X)]
    BY <2>1, <2>2
  <2>4. \A Z : \A n \in Nat : \A t \in [1..n -> Z] : t \in Seq(Z) /\ DOMAIN t = 1..n
    OBVIOUS
  <2> HIDE DEF ss
  <2> QED BY <2>1, <2>3, <2>4
<1>3. \A i \in DOMAIN s : \A x : x \in ToSet(ss[i]) <=> i \in I /\ x = s[i]
  <2>1. \A a, b : a \in ToSet(<<b>>) <=> a = b
    BY DEF ToSet
  <2>2. \A a : a \notin ToSet(<<>>)
    BY DEF ToSet
  <2> QED BY <2>1, <2>2
<1>4. \A i \in DOMAIN s : IsInjective(ss[i])
  <2>1. IsInjective(<<>>) /\ \A a : IsInjective(<<a>>)
    BY DEF IsInjective
  <2> QED BY <2>1
<1>5. ASSUME \A i \in DOMAIN s : i \in I
      PROVE  FlattenSeq(ss) = s
  <2>1. ss = [i \in DOMAIN s |-> <<s[i]>>]
    BY <1>5
  <2> HIDE DEF ss
  <2> QED BY <2>1, FlattenSingletons
<1> HIDE DEF ss
<1>6. /\ FlattenSeq(ss) \in Seq(X)
      /\ \A x : x \in ToSet(FlattenSeq(ss)) <=> \E i \in DOMAIN s : x \in ToSet(ss[i])
  BY <1>2, Mapped
<1>7. ASSUME \A i, j \in DOMAIN s : i \in I /\ j \in I /\ s[i] = s[j] => i = j
      PROVE  IsInjective(FlattenSeq(ss))
  <2>1. \A i, j \in DOMAIN ss : i # j => ToSet(ss[i]) \cap ToSet(ss[j]) = {}
    BY <1>2, <1>3, <1>7
  <2> QED BY <1>2, <1>4, <2>1, FlattenInjective
<1> QED BY <1>1, <1>3, <1>5, <1>6, <1>7

-----------------------------------------------------------------------------
(* The visits of sanitizeJsonValue.                                        *)

Visit == [what : {"node", "key"}, at : Seq(Key)]

VisitsBelow(v, i, visits) ==
  IF StepTo(v, i) \in PollutionKeys THEN <<>>
  ELSE (IF v.t = "map" THEN <<[what |-> "key", at |-> <<StepTo(v, i)>>]>> ELSE <<>>)
         \o Under(StepTo(v, i), visits[Child(v, i)])

VisitsOf(v, visits) ==
  <<[what |-> "node", at |-> <<>>]>>
    \o FlattenSeq([i \in 1..Arity(v) |-> VisitsBelow(v, i, visits)])

\* What is under a step are visits again, as many and of the same kinds.
LEMMA UnderIsVisits ==
  ASSUME NEW step \in Key, NEW vs \in Seq(Visit)
  PROVE  /\ Under(step, vs) \in Seq(Visit)
         /\ DOMAIN Under(step, vs) = DOMAIN vs
         /\ \A j \in DOMAIN vs : /\ Under(step, vs)[j].what = vs[j].what
                                 /\ Under(step, vs)[j].at = <<step>> \o vs[j].at
<1>1. /\ Len(vs) \in Nat /\ DOMAIN vs = 1..Len(vs)
      /\ \A j \in DOMAIN vs : vs[j] \in Visit
  OBVIOUS
<1>2. \A s \in Seq(Key) : <<step>> \o s \in Seq(Key)
  <2>1. <<step>> \in Seq(Key)
    OBVIOUS
  <2> QED BY <2>1, ConcatProperties
<1>3. \A j \in DOMAIN vs : /\ Under(step, vs)[j] \in Visit
                           /\ Under(step, vs)[j].what = vs[j].what
                           /\ Under(step, vs)[j].at = <<step>> \o vs[j].at
  BY <1>1, <1>2 DEF Under, Visit
<1>4. DOMAIN Under(step, vs) = DOMAIN vs /\ Under(step, vs) \in [1..Len(vs) -> Visit]
  BY <1>1, <1>3 DEF Under
<1>5. \A Z : \A n \in Nat : \A t \in [1..n -> Z] : t \in Seq(Z)
  OBVIOUS
<1> QED BY <1>1, <1>3, <1>4, <1>5

\* A function on 1..n to sequences, flattened.
LEMMA FlattenedMap ==
  ASSUME NEW X, NEW n \in Nat, NEW ss \in [1..n -> Seq(X)]
  PROVE  /\ ss \in Seq(Seq(X)) /\ DOMAIN ss = 1..n
         /\ FlattenSeq(ss) \in Seq(X)
         /\ \A x : x \in ToSet(FlattenSeq(ss)) <=> \E i \in 1..n : x \in ToSet(ss[i])
<1>1. \A Z : \A m \in Nat : \A t \in [1..m -> Z] : t \in Seq(Z) /\ DOMAIN t = 1..m
  OBVIOUS
<1>2. ss \in Seq(Seq(X)) /\ DOMAIN ss = 1..n
  BY <1>1
<1> QED BY <1>2, FlattenMembers

\* Visits of a value are visits when those of its kids are.
LEMMA VisitsAreVisits ==
  ASSUME NEW v \in Value, NEW visits, \A i \in 1..Arity(v) : visits[Child(v, i)] \in Seq(Visit)
  PROVE  /\ [i \in 1..Arity(v) |-> VisitsBelow(v, i, visits)] \in [1..Arity(v) -> Seq(Visit)]
         /\ VisitsOf(v, visits) \in Seq(Visit)
<1>1. ASSUME NEW i \in 1..Arity(v)
      PROVE  VisitsBelow(v, i, visits) \in Seq(Visit)
  <2>1. StepTo(v, i) \in Key
    BY KidsAreBelow
  <2>2. \A k \in Key : <<k>> \in Seq(Key)
    OBVIOUS
  <2>3. [what |-> "key", at |-> <<StepTo(v, i)>>] \in Visit
    BY <2>1, <2>2 DEF Visit
  <2>4. Under(StepTo(v, i), visits[Child(v, i)]) \in Seq(Visit)
    BY <2>1, UnderIsVisits
  <2>5. \A s, t \in Seq(Visit) : s \o t \in Seq(Visit)
    BY ConcatProperties
  <2>6. <<>> \in Seq(Visit) /\ \A x \in Visit : <<x>> \in Seq(Visit)
    OBVIOUS
  <2> QED BY <2>3, <2>4, <2>5, <2>6 DEF VisitsBelow
<1> DEFINE ss == [i \in 1..Arity(v) |-> VisitsBelow(v, i, visits)]
<1>2. ss \in [1..Arity(v) -> Seq(Visit)]
  BY <1>1
<1> HIDE DEF ss
<1>3. FlattenSeq(ss) \in Seq(Visit)
  BY <1>2, FlattenedMap, KidsAreBelow
<1>4. <<[what |-> "node", at |-> <<>>]>> \in Seq(Visit)
  <2>1. <<>> \in Seq(Key)
    OBVIOUS
  <2>2. [what |-> "node", at |-> <<>>] \in Visit
    BY <2>1 DEF Visit
  <2>3. \A x \in Visit : <<x>> \in Seq(Visit)
    OBVIOUS
  <2> QED BY <2>2, <2>3
<1>5. VisitsOf(v, visits) \in Seq(Visit)
  <2>1. \A s, t \in Seq(Visit) : s \o t \in Seq(Visit)
    BY ConcatProperties
  <2> QED BY <1>3, <1>4, <2>1 DEF VisitsOf, ss
<1> QED BY <1>2, <1>5 DEF ss

\* They depend on those of its kids alone.
LEMMA VisitsLookDown ==
  ASSUME NEW v, NEW f, NEW g, \A i \in 1..Arity(v) : f[Child(v, i)] = g[Child(v, i)]
  PROVE  VisitsOf(v, f) = VisitsOf(v, g)
<1>1. \A i \in 1..Arity(v) : VisitsBelow(v, i, f) = VisitsBelow(v, i, g)
  BY DEF VisitsBelow
<1>2. [i \in 1..Arity(v) |-> VisitsBelow(v, i, f)] = [i \in 1..Arity(v) |-> VisitsBelow(v, i, g)]
  BY <1>1
<1> QED BY <1>2 DEF VisitsOf

\* So the definition of Visits defines a function.
LEMMA Visiting ==
  \A v \in Value : Visits[v] \in Seq(Visit) /\ Visits[v] = VisitsOf(v, Visits)
<1> DEFINE V == Seq(Visit)
           T == [v \in Value |-> V]
           F == {g \in [Value -> V] : \A v \in Value : g[v] \in T[v]}
           D == [v \in Value |-> [g \in F |-> VisitsOf(v, g)]]
           Solves(f) == f = [v \in Value |-> VisitsOf(v, f)]
<1>1. \A v \in Value : \A g \in F : D[v][g] = VisitsOf(v, g)
  OBVIOUS
<1>2. ASSUME NEW v \in Value, NEW g \in F
      PROVE  VisitsOf(v, g) \in V
  <2>1. \A i \in 1..Arity(v) : g[Child(v, i)] \in V
    BY KidsAreBelow
  <2> QED BY <2>1, VisitsAreVisits
<1>3. D \in [Value -> [F -> V]] /\ T \in [Value -> SUBSET V] /\ \A v \in Value : T[v] = V
  BY <1>2
<1>4. V # {}
  <2>1. \A S : <<>> \in Seq(S)
    OBVIOUS
  <2> QED BY <2>1, Zenon
<1>5. \A g \in F : g = [v \in Value |-> g[v]]
  OBVIOUS
<1>6. F = {g \in [Value -> V] : \A v \in Value : g[v] \in T[v]}
  OBVIOUS
<1> HIDE DEF T, F, D
<1>7. \A v \in Value : \A g, h \in F :
        (\A i \in 1..Arity(v) : g[Child(v, i)] = h[Child(v, i)]) => D[v][g] = D[v][h]
  BY <1>1, VisitsLookDown
<1>8. \E f \in F : \A v \in Value : f[v] = D[v][f]
  <2> HIDE DEF V
  <2>1. IsValueRecursive(V, T, F, D)
    <3>1. \A v \in Value : \A g \in F : D[v][g] \in T[v]
      BY <1>1, <1>2, <1>3
    <3>2. \A v \in Value : T[v] # {}
      BY <1>3, <1>4
    <3> QED BY <1>3, <1>6, <1>7, <3>1, <3>2, Zenon DEF IsValueRecursive
  <2> QED BY <2>1, ValueRecursion
<1>9. PICK f \in F : \A v \in Value : f[v] = VisitsOf(v, f)
  BY <1>1, <1>8
<1>10. Solves(f)
  BY <1>5, <1>9
<1>11. Visits = CHOOSE g : Solves(g)
  BY DEF Visits, VisitsOf, VisitsBelow
<1>12. Solves(Visits)
  <2> HIDE DEF Solves
  <2> QED BY <1>10, <1>11
<1>13. \A v \in Value : Visits[v] = VisitsOf(v, Visits)
  BY <1>12
<1> DEFINE P == {v \in Value : Visits[v] = f[v]}
<1>14. \A v \in Value : (\A i \in 1..Arity(v) : Child(v, i) \in P) => v \in P
  BY <1>9, <1>13, VisitsLookDown
<1> HIDE DEF P
<1>15. \A v \in Value : v \in P
  BY <1>14, ValueInduction
<1> QED BY <1>9, <1>13, <1>15 DEF P, F

-----------------------------------------------------------------------------
(* The nodes of a value.                                                   *)

Spot == [at : Seq(Key), key : BOOLEAN, t : {"scalar", "list", "map"}, v : STRING]

NodesOf(v, nodes) ==
  {Root(v)} \cup UNION {{Lifted(v, kid.step, n) : n \in nodes[kid.val]} : kid \in Kids(v)}

\* One key more at the front of a path.
LEMMA LongerPath ==
  /\ \A X : \A a \in X : \A s \in Seq(X) :
       /\ <<a>> \o s \in Seq(X) /\ <<a>> \o s # <<>> /\ (<<a>> \o s)[1] = a
       /\ Len(<<a>> \o s) = Len(s) + 1
       /\ DOMAIN (<<a>> \o s) = 1..(Len(s) + 1)
       /\ \A i \in 1..Len(s) : (<<a>> \o s)[i + 1] = s[i]
       /\ s = <<>> => <<a>> \o s = <<a>>
  /\ \A X : \A a, b \in X : \A s, t \in Seq(X) : <<a>> \o s = <<b>> \o t => a = b /\ s = t
<1>1. ASSUME NEW X, NEW a \in X, NEW s \in Seq(X)
      PROVE  /\ <<a>> \o s \in Seq(X) /\ <<a>> \o s # <<>> /\ (<<a>> \o s)[1] = a
             /\ Len(<<a>> \o s) = Len(s) + 1
             /\ DOMAIN (<<a>> \o s) = 1..(Len(s) + 1)
             /\ \A i \in 1..Len(s) : (<<a>> \o s)[i + 1] = s[i]
             /\ s = <<>> => <<a>> \o s = <<a>>
  <2>1. <<a>> \in Seq(X) /\ Len(<<a>>) = 1 /\ <<a>>[1] = a /\ Len(s) \in Nat
    OBVIOUS
  <2>2. /\ <<a>> \o s \in Seq(X) /\ Len(<<a>> \o s) = Len(s) + 1
        /\ \A i \in 1..(Len(s) + 1) : (<<a>> \o s)[i] = IF i =< 1 THEN <<a>>[i] ELSE s[i - 1]
    BY <2>1, ConcatProperties
  <2> DEFINE both == <<a>> \o s
  <2> HIDE DEF both
  <2>3. both \in Seq(X) /\ Len(both) = Len(s) + 1 /\ DOMAIN both = 1..(Len(s) + 1)
    BY <2>2 DEF both
  <2>4. both # <<>>
    BY <2>1, <2>3
  <2>5. both[1] = a
    BY <2>1, <2>2 DEF both
  <2>6. \A i \in 1..Len(s) : both[i + 1] = s[i]
    <3> SUFFICES ASSUME NEW i \in 1..Len(s) PROVE both[i + 1] = s[i]
      OBVIOUS
    <3>1. i + 1 \in 1..(Len(s) + 1) /\ ~(i + 1 =< 1) /\ (i + 1) - 1 = i
      BY <2>1
    <3>2. both[i + 1] = s[(i + 1) - 1]
      BY <2>2, <3>1 DEF both
    <3> QED BY <3>1, <3>2
  <2>7. s = <<>> => both = <<a>>
    BY <2>1, ConcatEmptySeq DEF both
  <2> QED BY <2>3, <2>4, <2>5, <2>6, <2>7 DEF both
<1>2. ASSUME NEW X, NEW a \in X, NEW b \in X, NEW s \in Seq(X), NEW t \in Seq(X),
             <<a>> \o s = <<b>> \o t
      PROVE  a = b /\ s = t
  <2>1. a = b /\ Len(s) + 1 = Len(t) + 1 /\ \A i \in 1..Len(s) : s[i] = (<<b>> \o t)[i + 1]
    BY <1>1, <1>2
  <2>2. Len(s) = Len(t) /\ \A i \in 1..Len(t) : (<<b>> \o t)[i + 1] = t[i]
    <3>1. Len(s) \in Nat /\ Len(t) \in Nat
      OBVIOUS
    <3> QED BY <1>1, <2>1, <3>1
  <2>3. \A i \in 1..Len(s) : s[i] = t[i]
    BY <2>1, <2>2
  <2>4. s = t
    BY <2>2, <2>3
  <2> QED BY <2>1, <2>4
<1> QED BY <1>1, <1>2

\* A path of keys has one first key and one rest.
LEMMA OneFirstKey ==
  \A a, b \in Key : \A s, t \in Seq(Key) : <<a>> \o s = <<b>> \o t => a = b /\ s = t
<1>1. \A X : \A a, b \in X : \A s, t \in Seq(X) : <<a>> \o s = <<b>> \o t => a = b /\ s = t
  BY LongerPath
<1> QED BY <1>1

\* A node below a step.
LEMMA LiftedSpot ==
  ASSUME NEW v \in Value, NEW step \in Key, NEW n \in Spot
  PROVE  /\ Lifted(v, step, n) \in Spot
         /\ Lifted(v, step, n).at = <<step>> \o n.at
         /\ Lifted(v, step, n).key = (IF n.at = <<>> THEN v.t = "map" ELSE n.key)
         /\ Lifted(v, step, n).t = n.t /\ Lifted(v, step, n).v = n.v
<1>1. <<step>> \o n.at \in Seq(Key)
  BY LongerPath DEF Spot
<1> QED BY <1>1 DEF Lifted, Spot

\* The root is a node.
LEMMA RootSpot ==
  ASSUME NEW v \in Value
  PROVE  /\ Root(v) \in Spot
         /\ Root(v).at = <<>> /\ Root(v).key = FALSE /\ Root(v).t = v.t
         /\ Root(v).v = IF v.t = "scalar" THEN v.v ELSE NoText
<1>1. v.t \in {"scalar", "list", "map"} /\ (v.t = "scalar" => v.v \in STRING)
  BY FormAssumption, ValueShape DEF Value
<1>2. NoText \in STRING
  BY FormAssumption DEF KnownParts
<1>3. <<>> \in Seq(Key)
  OBVIOUS
<1> QED BY <1>1, <1>2, <1>3 DEF Root, Spot, IsScalar

\* Nodes of a value are nodes when those of its kids are.
LEMMA NodesAreSpots ==
  ASSUME NEW v \in Value, NEW nodes, \A i \in 1..Arity(v) : nodes[Child(v, i)] \in SUBSET Spot
  PROVE  /\ NodesOf(v, nodes) \in SUBSET Spot
         /\ \A n : n \in NodesOf(v, nodes) <=>
              \/ n = Root(v)
              \/ \E i \in 1..Arity(v) : \E m \in nodes[Child(v, i)] :
                   n = Lifted(v, StepTo(v, i), m)
<1>1. ASSUME NEW n
      PROVE  n \in NodesOf(v, nodes) <=>
              \/ n = Root(v)
              \/ \E i \in 1..Arity(v) : \E m \in nodes[Child(v, i)] :
                   n = Lifted(v, StepTo(v, i), m)
  <2>1. n \in NodesOf(v, nodes) <=>
          n = Root(v) \/ \E kid \in Kids(v) : \E m \in nodes[kid.val] : n = Lifted(v, kid.step, m)
    BY DEF NodesOf
  <2> DEFINE Kid(i) == [step |-> StepTo(v, i), val |-> Child(v, i)]
  <2>2. /\ \A i \in 1..Arity(v) :
             Kid(i) \in Kids(v) /\ Kid(i).step = StepTo(v, i) /\ Kid(i).val = Child(v, i)
        /\ \A kid \in Kids(v) : \E i \in 1..Arity(v) : kid = Kid(i)
    BY DEF Kids
  <2> HIDE DEF Kid
  <2> QED BY <2>1, <2>2
<1>2. NodesOf(v, nodes) \in SUBSET Spot
  <2>1. Root(v) \in Spot
    BY RootSpot
  <2>2. ASSUME NEW i \in 1..Arity(v), NEW m \in nodes[Child(v, i)]
        PROVE  Lifted(v, StepTo(v, i), m) \in Spot
    <3>1. StepTo(v, i) \in Key /\ m \in Spot
      BY KidsAreBelow
    <3> QED BY <3>1, LiftedSpot
  <2> QED BY <1>1, <2>1, <2>2
<1> QED BY <1>1, <1>2

\* They depend on those of its kids alone.
LEMMA NodesLookDown ==
  ASSUME NEW v, NEW f, NEW g, \A i \in 1..Arity(v) : f[Child(v, i)] = g[Child(v, i)]
  PROVE  NodesOf(v, f) = NodesOf(v, g)
<1>1. \A kid \in Kids(v) : f[kid.val] = g[kid.val]
  BY DEF Kids
<1>2. {{Lifted(v, kid.step, n) : n \in f[kid.val]} : kid \in Kids(v)}
        = {{Lifted(v, kid.step, n) : n \in g[kid.val]} : kid \in Kids(v)}
  BY <1>1
<1> QED BY <1>2 DEF NodesOf

\* So the definition of Nodes defines a function.
LEMMA Noding ==
  \A v \in Value : Nodes[v] \in SUBSET Spot /\ Nodes[v] = NodesOf(v, Nodes)
<1> DEFINE V == SUBSET Spot
           T == [v \in Value |-> V]
           F == {g \in [Value -> V] : \A v \in Value : g[v] \in T[v]}
           D == [v \in Value |-> [g \in F |-> NodesOf(v, g)]]
           Solves(f) == f = [v \in Value |-> NodesOf(v, f)]
<1>1. \A v \in Value : \A g \in F : D[v][g] = NodesOf(v, g)
  OBVIOUS
<1>2. ASSUME NEW v \in Value, NEW g \in F
      PROVE  NodesOf(v, g) \in V
  <2>1. \A i \in 1..Arity(v) : g[Child(v, i)] \in V
    BY KidsAreBelow
  <2> QED BY <2>1, NodesAreSpots
<1>3. D \in [Value -> [F -> V]] /\ T \in [Value -> SUBSET V] /\ \A v \in Value : T[v] = V
  BY <1>2
<1>4. V # {}
  OBVIOUS
<1>5. \A g \in F : g = [v \in Value |-> g[v]]
  OBVIOUS
<1>6. F = {g \in [Value -> V] : \A v \in Value : g[v] \in T[v]}
  OBVIOUS
<1> HIDE DEF T, F, D
<1>7. \A v \in Value : \A g, h \in F :
        (\A i \in 1..Arity(v) : g[Child(v, i)] = h[Child(v, i)]) => D[v][g] = D[v][h]
  BY <1>1, NodesLookDown
<1>8. \E f \in F : \A v \in Value : f[v] = D[v][f]
  <2> HIDE DEF V
  <2>1. IsValueRecursive(V, T, F, D)
    <3>1. \A v \in Value : \A g \in F : D[v][g] \in T[v]
      BY <1>1, <1>2, <1>3
    <3>2. \A v \in Value : T[v] # {}
      BY <1>3, <1>4
    <3> QED BY <1>3, <1>6, <1>7, <3>1, <3>2, Zenon DEF IsValueRecursive
  <2> QED BY <2>1, ValueRecursion
<1>9. PICK f \in F : \A v \in Value : f[v] = NodesOf(v, f)
  BY <1>1, <1>8
<1>10. Solves(f)
  BY <1>5, <1>9
<1>11. Nodes = CHOOSE g : Solves(g)
  BY DEF Nodes, NodesOf
<1>12. Solves(Nodes)
  <2> HIDE DEF Solves
  <2> QED BY <1>10, <1>11
<1>13. \A v \in Value : Nodes[v] = NodesOf(v, Nodes)
  BY <1>12
<1> DEFINE P == {v \in Value : Nodes[v] = f[v]}
<1>14. \A v \in Value : (\A i \in 1..Arity(v) : Child(v, i) \in P) => v \in P
  BY <1>9, <1>13, NodesLookDown
<1> HIDE DEF P
<1>15. \A v \in Value : v \in P
  BY <1>14, ValueInduction
<1> QED BY <1>9, <1>13, <1>15 DEF P, F

\* The nodes that no dropped key leads to: the root, and those of the kids that are kept.
LEMMA Reaching ==
  ASSUME NEW v \in Value
  PROVE  /\ Reachable(v) \in SUBSET Spot
         /\ Root(v) \in Reachable(v)
         /\ \A n : n \in Reachable(v) <=>
              \/ n = Root(v)
              \/ \E i \in 1..Arity(v) :
                   /\ StepTo(v, i) \notin PollutionKeys
                   /\ \E m \in Reachable(Child(v, i)) : n = Lifted(v, StepTo(v, i), m)
<1>1. /\ Nodes[v] \in SUBSET Spot
      /\ \A i \in 1..Arity(v) : Nodes[Child(v, i)] \in SUBSET Spot
      /\ \A n : n \in Nodes[v] <=>
           \/ n = Root(v)
           \/ \E i \in 1..Arity(v) : \E m \in Nodes[Child(v, i)] :
                n = Lifted(v, StepTo(v, i), m)
  <2>1. \A i \in 1..Arity(v) : Nodes[Child(v, i)] \in SUBSET Spot
    BY KidsAreBelow, Noding
  <2> QED BY <2>1, Noding, NodesAreSpots
<1>2. \A i \in 1..Arity(v) : StepTo(v, i) \in Key
  BY KidsAreBelow
<1>3. /\ Root(v) \in Reachable(v)
      /\ Reachable(v) \in SUBSET Spot
  <2>1. Root(v).at = <<>>
    BY RootSpot
  <2>2. \A i \in DOMAIN Root(v).at : FALSE
    BY <2>1
  <2>3. Root(v) \in Nodes[v]
    BY <1>1
  <2> QED BY <1>1, <2>2, <2>3 DEF Reachable
<1>4. ASSUME NEW i \in 1..Arity(v), NEW m \in Nodes[Child(v, i)]
      PROVE  Lifted(v, StepTo(v, i), m) \in Reachable(v) <=>
               StepTo(v, i) \notin PollutionKeys /\ m \in Reachable(Child(v, i))
  <2> DEFINE n == Lifted(v, StepTo(v, i), m)
             k == Len(m.at)
  <2>1. n.at = <<StepTo(v, i)>> \o m.at /\ m.at \in Seq(Key)
    BY <1>1, <1>2, LiftedSpot DEF Spot
  <2>2. /\ k \in Nat /\ DOMAIN m.at = 1..k
        /\ DOMAIN n.at = 1..(k + 1) /\ n.at[1] = StepTo(v, i)
        /\ \A j \in 1..k : n.at[j + 1] = m.at[j]
    BY <1>2, <2>1, LongerPath
  <2> HIDE DEF n, k
  <2>3. (\A j \in DOMAIN n.at : n.at[j] \notin PollutionKeys) <=>
          /\ StepTo(v, i) \notin PollutionKeys
          /\ \A j \in DOMAIN m.at : m.at[j] \notin PollutionKeys
    <3>1. /\ 1 \in 1..(k + 1) /\ \A j \in 1..k : j + 1 \in 1..(k + 1)
          /\ \A j \in 1..(k + 1) : j = 1 \/ (j - 1 \in 1..k /\ (j - 1) + 1 = j)
      BY <2>2
    <3> QED BY <2>2, <3>1
  <2>4. n \in Nodes[v]
    BY <1>1 DEF n
  <2> QED BY <2>3, <2>4 DEF Reachable, n
<1>5. ASSUME NEW n
      PROVE  n \in Reachable(v) <=>
              \/ n = Root(v)
              \/ \E i \in 1..Arity(v) :
                   /\ StepTo(v, i) \notin PollutionKeys
                   /\ \E m \in Reachable(Child(v, i)) : n = Lifted(v, StepTo(v, i), m)
  <2>1. Reachable(v) \subseteq Nodes[v]
        /\ \A i \in 1..Arity(v) : Reachable(Child(v, i)) \subseteq Nodes[Child(v, i)]
    BY DEF Reachable
  <2> QED BY <1>1, <1>3, <1>4, <2>1
<1> QED BY <1>3, <1>5

\* What is below a kid keeps what it is and gets the step to the kid before its path.
LEMMA LiftedNode ==
  ASSUME NEW v \in Value, NEW i \in 1..Arity(v), NEW m \in Reachable(Child(v, i))
  PROVE  LET n == Lifted(v, StepTo(v, i), m) IN
         /\ StepTo(v, i) \in Key /\ Child(v, i) \in Value /\ m \in Spot
         /\ n.at = <<StepTo(v, i)>> \o m.at
         /\ n.at # <<>> /\ n.at[1] = StepTo(v, i) /\ n.at \in Seq(Key)
         /\ n.key = (IF m.at = <<>> THEN v.t = "map" ELSE m.key)
         /\ n.t = m.t /\ n.v = m.v
<1>1. StepTo(v, i) \in Key /\ Child(v, i) \in Value
  BY KidsAreBelow
<1>2. m \in Spot
  BY <1>1, Reaching
<1>3. m.at \in Seq(Key)
  BY <1>2 DEF Spot
<1> DEFINE s == <<StepTo(v, i)>> \o m.at
<1>4. s # <<>> /\ s[1] = StepTo(v, i) /\ s \in Seq(Key)
  BY <1>1, <1>3, LongerPath
<1> HIDE DEF s
<1>5. /\ Lifted(v, StepTo(v, i), m).at = s
      /\ Lifted(v, StepTo(v, i), m).key = (IF m.at = <<>> THEN v.t = "map" ELSE m.key)
      /\ Lifted(v, StepTo(v, i), m).t = m.t /\ Lifted(v, StepTo(v, i), m).v = m.v
  BY <1>1, <1>2, LiftedSpot DEF s
<1> QED BY <1>1, <1>2, <1>4, <1>5 DEF s

\* A path leads to one node, and a node that is a key has a path.
LEMMA OneNodePerPath ==
  \A v \in Value :
    /\ \A m, n \in Reachable(v) : m.at = n.at => m = n
    /\ \A n \in Reachable(v) : n.key => n.at # <<>>
<1> DEFINE P == {v \in Value :
                   /\ \A m, n \in Reachable(v) : m.at = n.at => m = n
                   /\ \A n \in Reachable(v) : n.key => n.at # <<>>}
<1>1. ASSUME NEW v \in Value, \A i \in 1..Arity(v) : Child(v, i) \in P
      PROVE  v \in P
  <2>1. Root(v).at = <<>> /\ Root(v).key = FALSE
    BY RootSpot
  <2>2. \A n \in Reachable(v) : n = Root(v) \/
          \E i \in 1..Arity(v) : \E m \in Reachable(Child(v, i)) : n = Lifted(v, StepTo(v, i), m)
    BY Reaching
  <2>3. ASSUME NEW i \in 1..Arity(v), NEW m \in Reachable(Child(v, i))
        PROVE  Lifted(v, StepTo(v, i), m).at # <<>>
    BY LiftedNode
  <2>4. ASSUME NEW i \in 1..Arity(v), NEW m \in Reachable(Child(v, i)),
               NEW j \in 1..Arity(v), NEW n \in Reachable(Child(v, j)),
               Lifted(v, StepTo(v, i), m).at = Lifted(v, StepTo(v, j), n).at
        PROVE  Lifted(v, StepTo(v, i), m) = Lifted(v, StepTo(v, j), n)
    <3>1. /\ StepTo(v, i) \in Key /\ StepTo(v, j) \in Key
          /\ m.at \in Seq(Key) /\ n.at \in Seq(Key)
          /\ <<StepTo(v, i)>> \o m.at = <<StepTo(v, j)>> \o n.at
      <4>1. \A x \in Spot : x.at \in Seq(Key)
        BY DEF Spot
      <4>2. /\ StepTo(v, i) \in Key /\ m.at \in Seq(Key)
            /\ Lifted(v, StepTo(v, i), m).at = <<StepTo(v, i)>> \o m.at
        BY <4>1, LiftedNode
      <4>3. /\ StepTo(v, j) \in Key /\ n.at \in Seq(Key)
            /\ Lifted(v, StepTo(v, j), n).at = <<StepTo(v, j)>> \o n.at
        BY <4>1, LiftedNode
      <4> QED BY <2>4, <4>2, <4>3
    <3>2. StepTo(v, i) = StepTo(v, j) /\ m.at = n.at
      BY <3>1, OneFirstKey
    <3>3. i = j
      BY <3>2, KidsAreBelow
    <3>4. m = n
      BY <1>1, <3>2, <3>3
    <3> QED BY <3>3, <3>4
  <2> QED BY <2>1, <2>2, <2>3, <2>4
<1> HIDE DEF P
<1>2. \A v \in Value : v \in P
  BY <1>1, ValueInduction
<1> QED BY <1>2 DEF P

-----------------------------------------------------------------------------
(* The visits are the nodes, and once more those that are keys.            *)

AtNode(n) == [what |-> "node", at |-> n.at]
AtKey(n)  == [what |-> "key", at |-> n.at]

\* Each node is visited once, and so is each key.
VisitsAll(v) ==
  /\ IsInjective(Visits[v])
  /\ \A x : x \in ToSet(Visits[v]) <=>
       \E n \in Reachable(v) : x = AtNode(n) \/ (n.key /\ x = AtKey(n))

\* What is visited at and below a kid.
LEMMA VisitsOfKid ==
  ASSUME NEW v \in Value, NEW i \in 1..Arity(v), VisitsAll(Child(v, i))
  PROVE  LET vs == VisitsBelow(v, i, Visits) IN
         /\ vs \in Seq(Visit)
         /\ IsInjective(vs)
         /\ \A x : x \in ToSet(vs) <=>
              /\ StepTo(v, i) \notin PollutionKeys
              /\ \E m \in Reachable(Child(v, i)) :
                   LET n == Lifted(v, StepTo(v, i), m) IN x = AtNode(n) \/ (n.key /\ x = AtKey(n))
<1> DEFINE c    == Child(v, i)
           step == StepTo(v, i)
           us   == Under(step, Visits[c])
           ks   == IF v.t = "map" THEN <<[what |-> "key", at |-> <<step>>]>> ELSE <<>>
           vs   == VisitsBelow(v, i, Visits)
<1>1. step \in Key /\ c \in Value /\ Visits[c] \in Seq(Visit)
  BY KidsAreBelow, Visiting
<1>2. CASE step \in PollutionKeys
  <2>1. vs = <<>>
    BY <1>2 DEF VisitsBelow
  <2>2. <<>> \in Seq(Visit) /\ IsInjective(<<>>) /\ \A x : x \notin ToSet(<<>>)
    BY DEF IsInjective, ToSet
  <2> QED BY <1>2, <2>1, <2>2
<1>3. CASE step \notin PollutionKeys
  <2>1. vs = ks \o us
    BY <1>3 DEF VisitsBelow
  <2>2. /\ us \in Seq(Visit) /\ DOMAIN us = DOMAIN Visits[c]
        /\ \A j \in DOMAIN us : us[j].what = Visits[c][j].what
                                /\ us[j].at = <<step>> \o Visits[c][j].at
    BY <1>1, UnderIsVisits
  <2>3. \A j \in DOMAIN us :
          us[j] \in Visit /\ Visits[c][j] \in Visit /\ Visits[c][j].at \in Seq(Key)
    <3>1. \A s \in Seq(Visit) : \A j \in DOMAIN s : s[j] \in Visit
      OBVIOUS
    <3>2. \A x \in Visit : x.at \in Seq(Key)
      BY DEF Visit
    <3> QED BY <1>1, <2>2, <3>1, <3>2
  <2>4. \A x, y \in Visit : x.what = y.what /\ x.at = y.at => x = y
    BY DEF Visit
  <2> HIDE DEF us
  <2>5. IsInjective(us)
    <3> SUFFICES ASSUME NEW j \in DOMAIN us, NEW k \in DOMAIN us, us[j] = us[k]
                 PROVE  j = k
      BY DEF IsInjective
    <3>1. Visits[c][j].what = Visits[c][k].what
      BY <2>2
    <3>2. <<step>> \o Visits[c][j].at = <<step>> \o Visits[c][k].at
      BY <2>2
    <3>3. Visits[c][j].at = Visits[c][k].at
      <4>1. Visits[c][j].at \in Seq(Key) /\ Visits[c][k].at \in Seq(Key)
        BY <2>3
      <4>2. \A s, t \in Seq(Key) : <<step>> \o s = <<step>> \o t => s = t
        BY <1>1, OneFirstKey
      <4> QED BY <3>2, <4>1, <4>2, Zenon
    <3>4. Visits[c][j] = Visits[c][k]
      BY <2>3, <2>4, <3>1, <3>3
    <3> QED BY <2>2, <3>4 DEF VisitsAll, IsInjective
  <2>6. \A x \in ToSet(us) : \E y \in ToSet(Visits[c]) :
          y \in Visit /\ x \in Visit /\ x.what = y.what /\ x.at = <<step>> \o y.at
    BY <2>2, <2>3 DEF ToSet
  <2>7. \A y \in ToSet(Visits[c]) : \E x \in ToSet(us) :
          y \in Visit /\ x \in Visit /\ x.what = y.what /\ x.at = <<step>> \o y.at
    BY <2>2, <2>3 DEF ToSet
  <2>8. \A m \in Reachable(c) :
          LET n == Lifted(v, step, m) IN
          /\ m.at \in Seq(Key) /\ n.at = <<step>> \o m.at
          /\ n.at \in Seq(Key)
          /\ n.key = (IF m.at = <<>> THEN v.t = "map" ELSE m.key)
          /\ m.key => m.at # <<>>
          /\ AtNode(m) \in Visit /\ AtNode(n) \in Visit /\ AtKey(m) \in Visit /\ AtKey(n) \in Visit
    <3> SUFFICES ASSUME NEW m \in Reachable(c)
                 PROVE  LET n == Lifted(v, step, m) IN
                        /\ m.at \in Seq(Key) /\ n.at = <<step>> \o m.at
                        /\ n.at \in Seq(Key)
                        /\ n.key = (IF m.at = <<>> THEN v.t = "map" ELSE m.key)
                        /\ m.key => m.at # <<>>
                        /\ AtNode(m) \in Visit /\ AtNode(n) \in Visit
                        /\ AtKey(m) \in Visit /\ AtKey(n) \in Visit
      BY Zenon
    <3>1. /\ m.at \in Seq(Key) /\ Lifted(v, step, m).at = <<step>> \o m.at
          /\ Lifted(v, step, m).at \in Seq(Key)
          /\ Lifted(v, step, m).key = (IF m.at = <<>> THEN v.t = "map" ELSE m.key)
      BY LiftedNode DEF Spot
    <3>2. m.key => m.at # <<>>
      BY <1>1, OneNodePerPath
    <3> QED BY <3>1, <3>2 DEF AtNode, AtKey, Visit
  <2>9. \A x : x \in ToSet(us) <=> \E m \in Reachable(c) :
          LET n == Lifted(v, step, m) IN x = AtNode(n) \/ (m.key /\ x = AtKey(n))
    <3>1. ASSUME NEW m \in Reachable(c)
          PROVE  /\ AtNode(Lifted(v, step, m)) \in ToSet(us)
                 /\ m.key => AtKey(Lifted(v, step, m)) \in ToSet(us)
      <4>1. /\ AtNode(m) \in ToSet(Visits[c]) /\ (m.key => AtKey(m) \in ToSet(Visits[c]))
        BY DEF VisitsAll
      <4> DEFINE n == Lifted(v, step, m)
      <4>2. n.at = <<step>> \o m.at /\ AtNode(n) \in Visit /\ AtKey(n) \in Visit
        BY <2>8, Zenon
      <4> HIDE DEF n
      <4>3. /\ AtNode(n).what = AtNode(m).what /\ AtNode(n).at = <<step>> \o AtNode(m).at
            /\ AtKey(n).what = AtKey(m).what /\ AtKey(n).at = <<step>> \o AtKey(m).at
        BY <4>2 DEF AtNode, AtKey
      <4>4. AtNode(n) \in ToSet(us)
        <5>1. PICK x \in ToSet(us) :
                x \in Visit /\ x.what = AtNode(m).what /\ x.at = <<step>> \o AtNode(m).at
          BY <2>7, <4>1
        <5>2. x = AtNode(n)
          BY <2>4, <4>2, <4>3, <5>1
        <5> QED BY <5>1, <5>2
      <4>5. m.key => AtKey(n) \in ToSet(us)
        <5> SUFFICES ASSUME m.key PROVE AtKey(n) \in ToSet(us)
          OBVIOUS
        <5>1. PICK x \in ToSet(us) :
                x \in Visit /\ x.what = AtKey(m).what /\ x.at = <<step>> \o AtKey(m).at
          BY <2>7, <4>1
        <5>2. x = AtKey(n)
          BY <2>4, <4>2, <4>3, <5>1
        <5> QED BY <5>1, <5>2
      <4> QED BY <4>4, <4>5 DEF n
    <3>2. ASSUME NEW x \in ToSet(us)
          PROVE  \E m \in Reachable(c) :
                   LET n == Lifted(v, step, m) IN x = AtNode(n) \/ (m.key /\ x = AtKey(n))
      <4>1. PICK y \in ToSet(Visits[c]) :
              y \in Visit /\ x \in Visit /\ x.what = y.what /\ x.at = <<step>> \o y.at
        BY <2>6
      <4>2. PICK m \in Reachable(c) : y = AtNode(m) \/ (m.key /\ y = AtKey(m))
        BY <4>1 DEF VisitsAll
      <4> DEFINE n == Lifted(v, step, m)
      <4>3. n.at = <<step>> \o m.at /\ AtNode(n) \in Visit /\ AtKey(n) \in Visit
        BY <2>8, Zenon
      <4> HIDE DEF n
      <4>4. /\ AtNode(n).what = AtNode(m).what /\ AtNode(n).at = <<step>> \o AtNode(m).at
            /\ AtKey(n).what = AtKey(m).what /\ AtKey(n).at = <<step>> \o AtKey(m).at
        BY <4>3 DEF AtNode, AtKey
      <4>5. x = AtNode(n) \/ (m.key /\ x = AtKey(n))
        BY <2>4, <4>1, <4>2, <4>3, <4>4
      <4> QED BY <4>5 DEF n
    <3> QED BY <3>1, <3>2
  <2>10. /\ ks \in Seq(Visit) /\ IsInjective(ks)
         /\ \A x : x \in ToSet(ks) <=> v.t = "map" /\ x = [what |-> "key", at |-> <<step>>]
    <3>1. /\ IsInjective(<<>>) /\ \A x : x \notin ToSet(<<>>)
          /\ \A a : IsInjective(<<a>>) /\ \A x : x \in ToSet(<<a>>) <=> x = a
      BY DEF IsInjective, ToSet
    <3>2. \A S : <<>> \in Seq(S) /\ \A x \in S : <<x>> \in Seq(S)
      OBVIOUS
    <3>3. [what |-> "key", at |-> <<step>>] \in Visit
      BY <1>1, <3>2 DEF Visit
    <3> QED BY <3>1, <3>2, <3>3
  <2>11. /\ Root(c) \in Reachable(c) /\ Root(c).at = <<>> /\ Root(c).key = FALSE
         /\ Lifted(v, step, Root(c)).at = <<step>>
         /\ \A m \in Reachable(c) : m.at = <<>> => m = Root(c)
    <3>1. Root(c) \in Reachable(c) /\ Root(c).at = <<>> /\ Root(c).key = FALSE
      BY <1>1, Reaching, RootSpot
    <3>2. Lifted(v, step, Root(c)).at = <<step>> \o <<>>
      BY <2>8, <3>1
    <3>3. <<step>> \o <<>> = <<step>>
      OBVIOUS
    <3> QED BY <1>1, <3>1, <3>2, <3>3, OneNodePerPath
  <2>12. \A x : x \in ToSet(ks) <=>
           v.t = "map" /\ x = AtKey(Lifted(v, step, Root(c)))
    BY <2>10, <2>11 DEF AtKey
  <2>13. ToSet(ks) \cap ToSet(us) = {}
    <3> SUFFICES ASSUME NEW x \in ToSet(ks), x \in ToSet(us) PROVE FALSE
      OBVIOUS
    <3>1. x.what = "key" /\ x.at = <<step>>
      BY <2>10
    <3>2. PICK m \in Reachable(c) :
            LET n == Lifted(v, step, m) IN x = AtNode(n) \/ (m.key /\ x = AtKey(n))
      BY <2>9
    <3>3. m.key /\ x.at = <<step>> \o m.at
      <4>1. Lifted(v, step, m).at = <<step>> \o m.at
        BY <2>8
      <4> QED BY <3>1, <3>2, <4>1 DEF AtNode, AtKey
    <3>4. m.at \in Seq(Key) /\ m.at # <<>>
      BY <2>8, <3>3
    <3>5. <<step>> \o m.at = <<step>> \o <<>>
      <4>1. \A a : <<a>> \o <<>> = <<a>>
        OBVIOUS
      <4>2. <<step>> \o m.at = <<step>>
        BY <3>1, <3>3
      <4> HIDE DEF step
      <4> QED BY <4>1, <4>2, Zenon
    <3>6. <<>> \in Seq(Key)
      OBVIOUS
    <3> QED BY <1>1, <3>4, <3>5, <3>6, OneFirstKey
  <2>14. vs \in Seq(Visit) /\ IsInjective(vs) /\ ToSet(vs) = ToSet(ks) \cup ToSet(us)
    <3> HIDE DEF ks
    <3>1. IsInjective(ks \o us)
      BY <2>2, <2>5, <2>10, <2>13, ConcatInjective
    <3>2. ks \o us \in Seq(Visit) /\ ToSet(ks \o us) = ToSet(ks) \cup ToSet(us)
      BY <2>2, <2>10, ConcatMembers, ConcatProperties
    <3> QED BY <2>1, <3>1, <3>2
  <2>15. \A m \in Reachable(c) :
           Lifted(v, step, m).key <=> (m = Root(c) /\ v.t = "map") \/ m.key
    BY <2>8, <2>11
  <2> QED BY <1>3, <2>9, <2>11, <2>12, <2>14, <2>15
<1> QED BY <1>2, <1>3

\* So it is at every value.
LEMMA EachIsVisited == \A v \in Value : VisitsAll(v)
<1> DEFINE P == {v \in Value : VisitsAll(v)}
<1>1. ASSUME NEW v \in Value, \A i \in 1..Arity(v) : Child(v, i) \in P
      PROVE  v \in P
  <2> DEFINE root == <<[what |-> "node", at |-> <<>>]>>
             ss   == [i \in 1..Arity(v) |-> VisitsBelow(v, i, Visits)]
             all  == FlattenSeq(ss)
  <2>1. Visits[v] = root \o all
    BY Visiting DEF VisitsOf
  <2>2. Arity(v) \in Nat
    BY KidsAreBelow
  <2>3. /\ root \in Seq(Visit) /\ IsInjective(root)
        /\ \A x : x \in ToSet(root) <=> x = AtNode(Root(v))
    <3>1. \A a : IsInjective(<<a>>) /\ \A x : x \in ToSet(<<a>>) <=> x = a
      BY DEF IsInjective, ToSet
    <3>2. \A S : <<>> \in Seq(S) /\ \A x \in S : <<x>> \in Seq(S)
      OBVIOUS
    <3>3. [what |-> "node", at |-> <<>>] \in Visit
      BY <3>2 DEF Visit
    <3>4. [what |-> "node", at |-> <<>>] = AtNode(Root(v))
      BY RootSpot DEF AtNode
    <3> QED BY <3>1, <3>2, <3>3, <3>4
  <2>4. ASSUME NEW i \in 1..Arity(v)
        PROVE  /\ ss[i] \in Seq(Visit)
               /\ IsInjective(ss[i])
               /\ \A x : x \in ToSet(ss[i]) <=>
                    /\ StepTo(v, i) \notin PollutionKeys
                    /\ \E m \in Reachable(Child(v, i)) :
                         LET n == Lifted(v, StepTo(v, i), m) IN
                         x = AtNode(n) \/ (n.key /\ x = AtKey(n))
    <3>1. VisitsAll(Child(v, i))
      BY <1>1
    <3>2. ss[i] = VisitsBelow(v, i, Visits)
      OBVIOUS
    <3> HIDE DEF ss
    <3> QED BY <3>1, <3>2, VisitsOfKid
  <2>5. ASSUME NEW i \in 1..Arity(v), NEW x \in ToSet(ss[i])
        PROVE  x.at # <<>> /\ x.at[1] = StepTo(v, i)
    <3>1. PICK m \in Reachable(Child(v, i)) :
            LET n == Lifted(v, StepTo(v, i), m) IN
            x = AtNode(n) \/ (n.key /\ x = AtKey(n))
      BY <2>4
    <3>2. /\ Lifted(v, StepTo(v, i), m).at # <<>>
          /\ Lifted(v, StepTo(v, i), m).at[1] = StepTo(v, i)
      BY LiftedNode
    <3> QED BY <3>1, <3>2 DEF AtNode, AtKey
  <2> DEFINE Is(i) == /\ ss[i] \in Seq(Visit)
                      /\ IsInjective(ss[i])
  <2>6. ss \in [1..Arity(v) -> Seq(Visit)] /\ DOMAIN ss = 1..Arity(v)
    BY <2>4
  <2> HIDE DEF ss
  <2>7. /\ ss \in Seq(Seq(Visit)) /\ all \in Seq(Visit)
        /\ \A x : x \in ToSet(all) <=> \E i \in 1..Arity(v) : x \in ToSet(ss[i])
    BY <2>2, <2>6, FlattenedMap
  <2>8. IsInjective(all)
    <3>1. \A i, j \in DOMAIN ss : i # j => ToSet(ss[i]) \cap ToSet(ss[j]) = {}
      <4> SUFFICES ASSUME NEW i \in 1..Arity(v), NEW j \in 1..Arity(v), i # j,
                          NEW x \in ToSet(ss[i]), x \in ToSet(ss[j])
                   PROVE  FALSE
        BY <2>6
      <4>1. StepTo(v, i) = StepTo(v, j)
        BY <2>5
      <4> QED BY <4>1, KidsAreBelow
    <3>2. \A i \in DOMAIN ss : IsInjective(ss[i])
      BY <2>4, <2>6
    <3> QED BY <2>7, <3>1, <3>2, FlattenInjective
  <2>9. ToSet(root) \cap ToSet(all) = {}
    <3> SUFFICES ASSUME NEW x \in ToSet(root), x \in ToSet(all) PROVE FALSE
      OBVIOUS
    <3>1. x.at = <<>>
      <4>1. x = AtNode(Root(v))
        BY <2>3
      <4>2. AtNode(Root(v)).at = Root(v).at /\ Root(v).at = <<>>
        BY RootSpot DEF AtNode
      <4> HIDE DEF root, all
      <4> QED BY <4>1, <4>2, Zenon
    <3> QED BY <2>5, <2>7, <3>1
  <2> HIDE DEF root, all
  <2>10. IsInjective(Visits[v])
    BY <2>1, <2>3, <2>7, <2>8, <2>9, ConcatInjective
  <2>11. ToSet(Visits[v]) = ToSet(root) \cup ToSet(all)
    BY <2>1, <2>3, <2>7, ConcatMembers
  <2>12. ASSUME NEW x
         PROVE  x \in ToSet(Visits[v]) <=>
                  \E n \in Reachable(v) : x = AtNode(n) \/ (n.key /\ x = AtKey(n))
    <3>1. x \in ToSet(Visits[v]) <=>
            \/ x = AtNode(Root(v))
            \/ \E i \in 1..Arity(v) :
                 /\ StepTo(v, i) \notin PollutionKeys
                 /\ \E m \in Reachable(Child(v, i)) :
                      LET n == Lifted(v, StepTo(v, i), m) IN
                      x = AtNode(n) \/ (n.key /\ x = AtKey(n))
      <4>1. x \in ToSet(Visits[v]) <=> x \in ToSet(root) \/ x \in ToSet(all)
        BY <2>11
      <4>2. x \in ToSet(root) <=> x = AtNode(Root(v))
        BY <2>3
      <4>3. x \in ToSet(all) <=> \E i \in 1..Arity(v) : x \in ToSet(ss[i])
        BY <2>7
      <4>4. \A i \in 1..Arity(v) : x \in ToSet(ss[i]) <=>
              /\ StepTo(v, i) \notin PollutionKeys
              /\ \E m \in Reachable(Child(v, i)) :
                   LET n == Lifted(v, StepTo(v, i), m) IN
                   x = AtNode(n) \/ (n.key /\ x = AtKey(n))
        BY <2>4
      <4> QED BY <4>1, <4>2, <4>3, <4>4, Zenon
    <3>2. \A n : n \in Reachable(v) <=>
              \/ n = Root(v)
              \/ \E i \in 1..Arity(v) :
                   /\ StepTo(v, i) \notin PollutionKeys
                   /\ \E m \in Reachable(Child(v, i)) : n = Lifted(v, StepTo(v, i), m)
      BY Reaching
    <3>3. ~Root(v).key
      BY RootSpot
    <3> QED BY <3>1, <3>2, <3>3
  <2> QED BY <2>10, <2>12 DEF VisitsAll
<1> HIDE DEF P
<1>2. \A v \in Value : v \in P
  BY <1>1, ValueInduction
<1> QED BY <1>2 DEF P

\* Sets that match one to one are of one size.
LEMMA SameSize ==
  ASSUME NEW S, NEW T, NEW f \in [S -> T], IsFiniteSet(S),
         \A i, j \in S : f[i] = f[j] => i = j, \A x \in T : \E i \in S : f[i] = x
  PROVE  IsFiniteSet(T) /\ Cardinality(S) = Cardinality(T)
<1>1. f \in Bijection(S, T)
  BY DEF Bijection, Injection, Surjection, IsInjective
<1>2. ExistsBijection(S, T)
  BY <1>1 DEF ExistsBijection
<1> QED BY <1>2, FS_Bijection

\* sanitizeJsonValue visits each node that no dropped key leads to once, and each
\* key of a map that leads to one once, so that what it counts is their number.
THEOREM VisitsCounted ==
  ASSUME NEW v \in Value
  PROVE  LET vs == Visits[v]
             nodes == Reachable(v) IN
         /\ IsFiniteSet(nodes)
         /\ Cardinality({j \in DOMAIN vs : vs[j].what = "node"}) = Cardinality(nodes)
         /\ Cardinality({j \in DOMAIN vs : vs[j].what = "key"})
              = Cardinality({n \in nodes : n.key})
         /\ \A n \in nodes : \E j \in DOMAIN vs : vs[j] = AtNode(n)
         /\ \A j \in DOMAIN vs : vs[j].what = "node" => \E n \in nodes : vs[j] = AtNode(n)
<1> DEFINE vs    == Visits[v]
           nodes == Reachable(v)
           keys  == {n \in nodes : n.key}
           N     == {j \in DOMAIN vs : vs[j].what = "node"}
           K     == {j \in DOMAIN vs : vs[j].what = "key"}
           f     == [j \in N |-> CHOOSE n \in nodes : vs[j] = AtNode(n)]
           g     == [j \in K |-> CHOOSE n \in keys : vs[j] = AtKey(n)]
<1>1. vs \in Seq(Visit) /\ Len(vs) \in Nat /\ DOMAIN vs = 1..Len(vs)
  BY Visiting
<1>2. /\ \A j \in N : \E n \in nodes : vs[j] = AtNode(n)
      /\ \A j \in K : \E n \in keys : vs[j] = AtKey(n)
      /\ \A n \in nodes : \E j \in N : vs[j] = AtNode(n)
      /\ \A n \in keys : \E j \in K : vs[j] = AtKey(n)
  <2>1. \A n : AtNode(n).what = "node" /\ AtKey(n).what = "key"
    BY DEF AtNode, AtKey
  <2>2. \A x : (\E j \in DOMAIN vs : vs[j] = x) <=>
               \E n \in nodes : x = AtNode(n) \/ (n.key /\ x = AtKey(n))
    BY EachIsVisited DEF VisitsAll, ToSet
  <2> HIDE DEF vs, nodes
  <2>3. \A j \in DOMAIN vs :
          /\ vs[j].what = "node" => \E n \in nodes : vs[j] = AtNode(n)
          /\ vs[j].what = "key" => \E n \in nodes : n.key /\ vs[j] = AtKey(n)
    <3> SUFFICES ASSUME NEW j \in DOMAIN vs
                 PROVE  /\ vs[j].what = "node" => \E n \in nodes : vs[j] = AtNode(n)
                        /\ vs[j].what = "key" => \E n \in nodes : n.key /\ vs[j] = AtKey(n)
      OBVIOUS
    <3>1. PICK n \in nodes : vs[j] = AtNode(n) \/ (n.key /\ vs[j] = AtKey(n))
      BY <2>2
    <3> QED BY <2>1, <3>1
  <2>4. \A n \in nodes :
          /\ \E j \in DOMAIN vs : vs[j].what = "node" /\ vs[j] = AtNode(n)
          /\ n.key => \E j \in DOMAIN vs : vs[j].what = "key" /\ vs[j] = AtKey(n)
    BY <2>1, <2>2
  <2> QED BY <2>3, <2>4
<1>3. \A m, n \in nodes : AtNode(m) = AtNode(n) \/ AtKey(m) = AtKey(n) => m = n
  <2>1. \A m, n : AtNode(m) = AtNode(n) \/ AtKey(m) = AtKey(n) => m.at = n.at
    BY DEF AtNode, AtKey
  <2> QED BY <2>1, OneNodePerPath
<1>4. \A i, j \in DOMAIN vs : vs[i] = vs[j] => i = j
  BY EachIsVisited DEF VisitsAll, IsInjective
<1> HIDE DEF vs, nodes
<1>5. IsFiniteSet(N) /\ IsFiniteSet(K)
  <2>1. IsFiniteSet(1..Len(vs))
    BY <1>1, FS_Interval
  <2> QED BY <1>1, <2>1, FS_Subset
<1>6. /\ \A j \in N : f[j] \in nodes /\ vs[j] = AtNode(f[j])
      /\ \A j \in K : g[j] \in keys /\ vs[j] = AtKey(g[j])
  BY <1>2
<1>7. f \in [N -> nodes] /\ g \in [K -> keys]
  BY <1>6
<1> HIDE DEF f, g
<1>8. IsFiniteSet(nodes) /\ Cardinality(N) = Cardinality(nodes)
  <2>1. \A i, j \in N : f[i] = f[j] => i = j
    BY <1>4, <1>6
  <2>2. \A n \in nodes : \E i \in N : f[i] = n
    BY <1>2, <1>3, <1>6
  <2> HIDE DEF N
  <2> QED BY <1>5, <1>7, <2>1, <2>2, SameSize
<1>9. Cardinality(K) = Cardinality(keys)
  <2>1. \A i, j \in K : g[i] = g[j] => i = j
    BY <1>4, <1>6
  <2>2. \A n \in keys : \E i \in K : g[i] = n
    BY <1>2, <1>3, <1>6
  <2> HIDE DEF K, keys
  <2> QED BY <1>5, <1>7, <2>1, <2>2, SameSize
<1>10. \A n \in nodes : \E j \in DOMAIN vs : vs[j] = AtNode(n)
  BY <1>2
<1>11. \A j \in DOMAIN vs : vs[j].what = "node" => \E n \in nodes : vs[j] = AtNode(n)
  BY <1>2
<1> QED BY <1>8, <1>9, <1>10, <1>11 DEF vs, nodes

\* A bounded set of numbers that is not empty has a largest member.
LEMMA LastExists ==
  ASSUME NEW n \in Nat, NEW S \in SUBSET (1..n), S # {}
  PROVE  \E last \in S : \A j \in S : j =< last
<1> DEFINE T == {n - j : j \in S}
<1>1. T \subseteq Nat
  OBVIOUS
<1> PICK some \in S : TRUE
  OBVIOUS
<1>0. n - some \in T
  OBVIOUS
<1>2. PICK first \in T : \A t \in T : first =< t
  <2> HIDE DEF T
  <2> QED BY <1>0, <1>1, FirstExists
<1>3. PICK last \in S : first = n - last
  OBVIOUS
<1>4. \A j \in S : n - j \in T
  OBVIOUS
<1>5. \A j \in S : n - last =< n - j
  BY <1>2, <1>3, <1>4
<1> QED BY <1>5

-----------------------------------------------------------------------------
(* Objects.                                                                *)

\* The first occurrences of the members: each of them, once.
LEMMA DistinctMembers ==
  ASSUME NEW X, NEW s \in Seq(X)
  PROVE  /\ Distinct(s) \in Seq(X)
         /\ ToSet(Distinct(s)) = ToSet(s)
         /\ IsInjective(Distinct(s))
<1> DEFINE I == {i \in DOMAIN s : \A j \in 1..(i - 1) : s[j] # s[i]}
<1>1. Distinct(s) = Sift(s, I)
  BY DEF Distinct
<1>2. Len(s) \in Nat /\ DOMAIN s = 1..Len(s)
  OBVIOUS
<1>3. \A i, j \in DOMAIN s : i \in I /\ j \in I /\ s[i] = s[j] => i = j
  <2> SUFFICES ASSUME NEW i \in I, NEW j \in I, s[i] = s[j], i # j PROVE FALSE
    OBVIOUS
  <2>1. i \in 1..Len(s) /\ j \in 1..Len(s)
    BY <1>2
  <2>2. CASE i < j
    <3>1. i \in 1..(j - 1)
      BY <2>1, <2>2
    <3> QED BY <3>1
  <2>3. CASE j < i
    <3>1. j \in 1..(i - 1)
      BY <2>1, <2>3
    <3> QED BY <3>1
  <2> QED BY <2>1, <2>2, <2>3
<1>4. ASSUME NEW i \in DOMAIN s
      PROVE  \E k \in I : s[k] = s[i]
  <2> DEFINE S == {k \in DOMAIN s : s[k] = s[i]}
  <2>1. S \in SUBSET Nat /\ S # {}
    BY <1>2
  <2>2. PICK k \in S : \A j \in S : k =< j
    <3> HIDE DEF S
    <3> QED BY <2>1, FirstExists
  <2>3. k \in DOMAIN s /\ s[k] = s[i]
    OBVIOUS
  <2>4. \A j \in 1..(k - 1) : s[j] # s[k]
    <3> SUFFICES ASSUME NEW j \in 1..(k - 1), s[j] = s[k] PROVE FALSE
      OBVIOUS
    <3>1. j \in DOMAIN s /\ ~(k =< j)
      BY <1>2, <2>3
    <3> QED BY <2>2, <2>3, <3>1
  <2> QED BY <2>3, <2>4
<1> HIDE DEF I
<1>5. /\ Sift(s, I) \in Seq(X)
      /\ \A x : x \in ToSet(Sift(s, I)) <=> \E i \in DOMAIN s : i \in I /\ x = s[i]
      /\ IsInjective(Sift(s, I))
  BY <1>3, Sifted
<1>6. ToSet(Sift(s, I)) = ToSet(s)
  <2>1. I \subseteq DOMAIN s
    BY DEF I
  <2> QED BY <1>4, <1>5, <2>1 DEF ToSet
<1> QED BY <1>1, <1>5, <1>6

\* The order of the keys of an object is one of the same keys, once each.
LEMMA KeyOrderMembers ==
  ASSUME NEW keys \in Seq(Key), IsInjective(keys)
  PROVE  /\ KeyOrder(keys) \in Seq(Key)
         /\ ToSet(KeyOrder(keys)) = ToSet(keys)
         /\ IsInjective(KeyOrder(keys))
<1> DEFINE I == {i \in DOMAIN IndexKeys : IndexKeys[i] \in ToSet(keys)}
           J == {i \in DOMAIN keys : keys[i] \notin ToSet(IndexKeys)}
           a == Sift(IndexKeys, I)
           b == Sift(keys, J)
<1>1. KeyOrder(keys) = a \o b
  BY DEF KeyOrder
<1>2. /\ a \in Seq(Key) /\ IsInjective(a)
      /\ \A x : x \in ToSet(a) <=> \E i \in DOMAIN IndexKeys : i \in I /\ x = IndexKeys[i]
  <2>1. \A i, j \in DOMAIN IndexKeys :
          i \in I /\ j \in I /\ IndexKeys[i] = IndexKeys[j] => i = j
    BY IndexFacts DEF IsInjective
  <2>2. IndexKeys \in Seq(Key)
    BY IndexFacts
  <2> HIDE DEF I
  <2> QED BY <2>1, <2>2, Sifted
<1>3. /\ b \in Seq(Key) /\ IsInjective(b)
      /\ \A x : x \in ToSet(b) <=> \E i \in DOMAIN keys : i \in J /\ x = keys[i]
  <2>1. \A i, j \in DOMAIN keys : i \in J /\ j \in J /\ keys[i] = keys[j] => i = j
    BY DEF IsInjective
  <2> HIDE DEF J
  <2> QED BY <2>1, Sifted
<1> HIDE DEF a, b
<1>4. /\ \A x : x \in ToSet(a) <=> x \in ToSet(keys) /\ x \in ToSet(IndexKeys)
      /\ \A x : x \in ToSet(b) <=> x \in ToSet(keys) /\ x \notin ToSet(IndexKeys)
  <2>1. \A s, x : x \in ToSet(s) <=> \E i \in DOMAIN s : x = s[i]
    BY DEF ToSet
  <2>2. /\ \A i \in DOMAIN IndexKeys : i \in I <=> IndexKeys[i] \in ToSet(keys)
        /\ \A i \in DOMAIN keys : i \in J <=> keys[i] \notin ToSet(IndexKeys)
    OBVIOUS
  <2> HIDE DEF I, J
  <2>3. \A x : x \in ToSet(a) <=> x \in ToSet(keys) /\ x \in ToSet(IndexKeys)
    BY <1>2, <2>1, <2>2
  <2>4. \A x : x \in ToSet(b) <=> x \in ToSet(keys) /\ x \notin ToSet(IndexKeys)
    BY <1>3, <2>1, <2>2
  <2> QED BY <2>3, <2>4
<1>5. ToSet(a) \cap ToSet(b) = {}
  BY <1>4
<1>6. IsInjective(a \o b)
  BY <1>2, <1>3, <1>5, ConcatInjective
<1>7. a \o b \in Seq(Key) /\ ToSet(a \o b) = ToSet(a) \cup ToSet(b)
  BY <1>2, <1>3, ConcatMembers, ConcatProperties
<1>8. ToSet(a \o b) = ToSet(keys)
  BY <1>4, <1>7
<1> QED BY <1>1, <1>6, <1>7, <1>8

\* The keys of some assignments.
LEMMA KeysOf ==
  ASSUME NEW V, NEW assigned \in Seq([key : Key, val : V])
  PROVE  /\ Keys(assigned) \in Seq(Key) /\ DOMAIN Keys(assigned) = DOMAIN assigned
         /\ Len(assigned) \in Nat /\ DOMAIN assigned = 1..Len(assigned)
         /\ Len(Keys(assigned)) = Len(assigned)
         /\ \A i \in DOMAIN assigned : /\ Keys(assigned)[i] = assigned[i].key
                                       /\ assigned[i] \in [key : Key, val : V]
                                       /\ assigned[i].key \in Key /\ assigned[i].val \in V
<1>1. \A S : \A s \in Seq(S) :
        Len(s) \in Nat /\ DOMAIN s = 1..Len(s) /\ \A i \in DOMAIN s : s[i] \in S
  OBVIOUS
<1>2. /\ Len(assigned) \in Nat /\ DOMAIN assigned = 1..Len(assigned)
      /\ \A i \in DOMAIN assigned : assigned[i] \in [key : Key, val : V]
  BY <1>1
<1>3. \A i \in DOMAIN assigned : assigned[i].key \in Key /\ assigned[i].val \in V
  BY <1>2
<1>4. /\ DOMAIN Keys(assigned) = DOMAIN assigned
      /\ Keys(assigned) \in [1..Len(assigned) -> Key]
      /\ \A i \in DOMAIN assigned : Keys(assigned)[i] = assigned[i].key
  BY <1>2, <1>3 DEF Keys
<1>5. \A Z : \A n \in Nat : \A t \in [1..n -> Z] : t \in Seq(Z) /\ Len(t) = n
  OBVIOUS
<1>6. Keys(assigned) \in Seq(Key) /\ Len(Keys(assigned)) = Len(assigned)
  BY <1>2, <1>4, <1>5
<1> QED BY <1>2, <1>3, <1>4, <1>6

\* A key that is assigned to has its last value.
LEMMA LastIsAssigned ==
  ASSUME NEW V, NEW assigned \in Seq([key : Key, val : V]), NEW k \in ToSet(Keys(assigned))
  PROVE  \E i \in DOMAIN assigned : assigned[i].key = k /\ LastValue(assigned, k) = assigned[i].val
<1> DEFINE S == {i \in DOMAIN assigned : assigned[i].key = k}
<1>1. /\ Len(assigned) \in Nat /\ S \in SUBSET (1..Len(assigned))
  BY KeysOf
<1>2. S # {}
  <2>1. PICK i \in DOMAIN Keys(assigned) : k = Keys(assigned)[i]
    BY DEF ToSet
  <2>2. i \in DOMAIN assigned /\ assigned[i].key = k
    BY <2>1 DEF Keys
  <2> QED BY <2>2
<1>3. \E last \in S : \A j \in S : j =< last
  <2> HIDE DEF S
  <2> QED BY <1>1, <1>2, LastExists
<1>4. LastValue(assigned, k) = assigned[Max(S)].val
  BY DEF LastValue
<1>5. Max(S) \in S
  <2> HIDE DEF S
  <2>1. \E x \in S : \A y \in S : x >= y
    BY <1>1, <1>3
  <2> QED BY <2>1 DEF Max
<1> QED BY <1>4, <1>5

\* An object has the keys that were assigned to, once each, with values that were
\* assigned to them; when each was assigned to once it has what was assigned.
LEMMA ObjectMembers ==
  ASSUME NEW V, NEW assigned \in Seq([key : Key, val : V])
  PROVE  LET o == JsObject(assigned) IN
         /\ o \in Objects(V)
         /\ ToSet(Keys(o)) = ToSet(Keys(assigned))
         /\ ToSet(o) \subseteq ToSet(assigned)
         /\ IsInjective(Keys(assigned)) => ToSet(o) = ToSet(assigned)
<1> DEFINE ks   == Keys(assigned)
           keys == KeyOrder(Distinct(ks))
           o    == JsObject(assigned)
<1>1. ks \in Seq(Key)
  BY KeysOf
<1>2. keys \in Seq(Key) /\ ToSet(keys) = ToSet(ks) /\ IsInjective(keys)
  BY <1>1, DistinctMembers, KeyOrderMembers
<1>3. o = [i \in DOMAIN keys |-> [key |-> keys[i], val |-> LastValue(assigned, keys[i])]]
  BY DEF JsObject
<1> HIDE DEF keys, o
<1>4. Len(keys) \in Nat /\ DOMAIN keys = 1..Len(keys)
      /\ \A i \in DOMAIN keys : keys[i] \in Key /\ keys[i] \in ToSet(ks)
  <2>1. \A s : \A i \in DOMAIN s : s[i] \in ToSet(s)
    BY DEF ToSet
  <2>2. \A S : \A s \in Seq(S) :
          Len(s) \in Nat /\ DOMAIN s = 1..Len(s) /\ \A i \in DOMAIN s : s[i] \in S
    OBVIOUS
  <2>3. Len(keys) \in Nat /\ DOMAIN keys = 1..Len(keys) /\ \A i \in DOMAIN keys : keys[i] \in Key
    BY <1>2, <2>2
  <2>4. \A i \in DOMAIN keys : keys[i] \in ToSet(ks)
    BY <1>2, <2>1
  <2> QED BY <2>3, <2>4
<1>5. ASSUME NEW i \in DOMAIN keys
      PROVE  /\ o[i] \in ToSet(assigned) /\ o[i].key = keys[i]
             /\ o[i] \in [key : Key, val : V]
  <2>1. PICK j \in DOMAIN assigned :
          assigned[j].key = keys[i] /\ LastValue(assigned, keys[i]) = assigned[j].val
    BY <1>4, LastIsAssigned
  <2>2. assigned[j] \in [key : Key, val : V]
    BY KeysOf
  <2>3. o[i] = [key |-> keys[i], val |-> LastValue(assigned, keys[i])]
    BY <1>3
  <2>4. o[i] = assigned[j]
    BY <2>1, <2>2, <2>3
  <2> QED BY <2>1, <2>2, <2>4 DEF ToSet
<1>6. /\ o \in Seq([key : Key, val : V]) /\ DOMAIN o = DOMAIN keys
  <2>1. \A Z : \A n \in Nat : \A t \in [1..n -> Z] : t \in Seq(Z)
    OBVIOUS
  <2>2. o \in [1..Len(keys) -> [key : Key, val : V]]
    BY <1>3, <1>4, <1>5
  <2> QED BY <1>3, <1>4, <2>1, <2>2
<1>7. Keys(o) = keys
  <2>1. Keys(o) = [i \in DOMAIN o |-> o[i].key]
    BY DEF Keys
  <2>2. keys = [i \in DOMAIN keys |-> keys[i]]
    BY <1>2
  <2> QED BY <1>5, <1>6, <2>1, <2>2
<1>8. ToSet(o) \subseteq ToSet(assigned)
  BY <1>5, <1>6 DEF ToSet
<1>9. ASSUME IsInjective(ks)
      PROVE  ToSet(assigned) \subseteq ToSet(o)
  <2> SUFFICES ASSUME NEW i \in DOMAIN assigned PROVE assigned[i] \in ToSet(o)
    BY DEF ToSet
  <2>1. assigned[i].key \in ToSet(ks)
    BY KeysOf DEF ToSet
  <2>2. PICK j \in DOMAIN keys : keys[j] = assigned[i].key
    BY <1>2, <2>1 DEF ToSet
  <2>3. o[j] \in ToSet(assigned) /\ o[j].key = assigned[i].key
    BY <1>5, <2>2
  <2>4. PICK k \in DOMAIN assigned : o[j] = assigned[k]
    BY <2>3 DEF ToSet
  <2>5. ks[k] = ks[i] /\ k \in DOMAIN ks /\ i \in DOMAIN ks
    BY <2>3, <2>4, KeysOf
  <2>6. k = i
    BY <1>9, <2>5 DEF IsInjective
  <2> QED BY <1>6, <2>2, <2>4, <2>6 DEF ToSet
<1>10. o \in Objects(V)
  BY <1>2, <1>6, <1>7 DEF Objects
<1> QED BY <1>2, <1>7, <1>8, <1>9, <1>10 DEF o

\* Some of the entries of an object are an object.
LEMMA SiftedEntries ==
  ASSUME NEW V, NEW s \in Seq([key : Key, val : V]), NEW I,
         \A i, j \in DOMAIN s : s[i].key = s[j].key => i = j
  PROVE  /\ Sift(s, I) \in Objects(V)
         /\ \A x : x \in ToSet(Sift(s, I)) <=> \E i \in DOMAIN s : i \in I /\ x = s[i]
<1> DEFINE o == Sift(s, I)
<1>1. /\ o \in Seq([key : Key, val : V])
      /\ \A x : x \in ToSet(o) <=> \E i \in DOMAIN s : i \in I /\ x = s[i]
      /\ (\A i, j \in DOMAIN s : i \in I /\ j \in I /\ s[i] = s[j] => i = j) => IsInjective(o)
  BY Sifted
<1> HIDE DEF o
<1>2. IsInjective(o)
  BY <1>1
<1>3. /\ DOMAIN Keys(o) = DOMAIN o
      /\ \A i \in DOMAIN o : Keys(o)[i] = o[i].key /\ o[i] \in ToSet(o)
  BY DEF Keys, ToSet
<1>4. ASSUME NEW a \in DOMAIN o, NEW b \in DOMAIN o, Keys(o)[a] = Keys(o)[b]
      PROVE  a = b
  <2>1. PICK i \in DOMAIN s : o[a] = s[i]
    BY <1>1, <1>3
  <2>2. PICK j \in DOMAIN s : o[b] = s[j]
    BY <1>1, <1>3
  <2>3. s[i].key = s[j].key
    BY <1>3, <1>4, <2>1, <2>2
  <2>4. o[a] = o[b]
    BY <2>1, <2>2, <2>3
  <2> QED BY <1>2, <2>4 DEF IsInjective
<1>5. o \in Objects(V)
  BY <1>1, <1>3, <1>4 DEF Objects, IsInjective
<1> QED BY <1>1, <1>5 DEF o

-----------------------------------------------------------------------------
(* What sanitizeJsonValue builds.                                          *)

PrunedEntries(v, pruned) ==
  [i \in 1..Arity(v) |-> [key |-> StepTo(v, i), val |-> pruned[Child(v, i)]]]

KeptKids(v) == {i \in 1..Arity(v) : StepTo(v, i) \notin PollutionKeys}

PrunedOf(v, pruned) ==
  IF v.t = "list" THEN List([i \in 1..Arity(v) |-> pruned[Child(v, i)]])
  ELSE IF v.t = "map"
  THEN EntriesOf(FlattenSeq([i \in 1..Arity(v) |->
         IF StepTo(v, i) \in PollutionKeys THEN <<>>
         ELSE <<[key |-> StepTo(v, i), val |-> pruned[Child(v, i)]]>>]))
  ELSE v

\* The entries are those that are kept.
LEMMA PrunedMap ==
  ASSUME NEW v \in Value, NEW pruned
  PROVE  FlattenSeq([i \in 1..Arity(v) |->
           IF StepTo(v, i) \in PollutionKeys THEN <<>>
           ELSE <<[key |-> StepTo(v, i), val |-> pruned[Child(v, i)]]>>])
         = Sift(PrunedEntries(v, pruned), KeptKids(v))
<1> DEFINE es == PrunedEntries(v, pruned)
           a  == [i \in 1..Arity(v) |->
                    IF StepTo(v, i) \in PollutionKeys THEN <<>>
                    ELSE <<[key |-> StepTo(v, i), val |-> pruned[Child(v, i)]]>>]
           b  == [i \in DOMAIN es |-> IF i \in KeptKids(v) THEN <<es[i]>> ELSE <<>>]
<1>1. a = b
  <2>1. DOMAIN es = 1..Arity(v)
    BY DEF PrunedEntries
  <2>2. \A i \in 1..Arity(v) :
          /\ es[i] = [key |-> StepTo(v, i), val |-> pruned[Child(v, i)]]
          /\ i \in KeptKids(v) <=> StepTo(v, i) \notin PollutionKeys
    BY DEF PrunedEntries, KeptKids
  <2> HIDE DEF es
  <2> QED BY <2>1, <2>2
<1>2. FlattenSeq(a) = FlattenSeq(b)
  BY <1>1
<1> QED BY <1>2 DEF Sift

\* They are entries when what is built of the kids is a value.
LEMMA PrunedEntriesFit ==
  ASSUME NEW v \in Value, NEW V, NEW pruned, \A i \in 1..Arity(v) : pruned[Child(v, i)] \in V
  PROVE  LET es == PrunedEntries(v, pruned) IN
         /\ es \in Seq([key : Key, val : V])
         /\ DOMAIN es = 1..Arity(v)
         /\ \A i \in 1..Arity(v) : es[i].key = StepTo(v, i) /\ es[i].val = pruned[Child(v, i)]
         /\ \A i, j \in DOMAIN es : es[i].key = es[j].key => i = j
<1> DEFINE es == PrunedEntries(v, pruned)
<1>1. /\ Arity(v) \in Nat
      /\ \A i \in 1..Arity(v) : StepTo(v, i) \in Key
      /\ \A i, j \in 1..Arity(v) : StepTo(v, i) = StepTo(v, j) => i = j
  BY KidsAreBelow
<1>2. /\ DOMAIN es = 1..Arity(v)
      /\ \A i \in 1..Arity(v) :
           /\ es[i] = [key |-> StepTo(v, i), val |-> pruned[Child(v, i)]]
           /\ es[i].key = StepTo(v, i) /\ es[i].val = pruned[Child(v, i)]
  BY DEF PrunedEntries
<1>3. es = [i \in 1..Arity(v) |-> es[i]]
  BY DEF PrunedEntries
<1> HIDE DEF es
<1>4. es \in [1..Arity(v) -> [key : Key, val : V]]
  BY <1>1, <1>2, <1>3
<1>5. \A Z : \A n \in Nat : \A t \in [1..n -> Z] : t \in Seq(Z)
  OBVIOUS
<1>6. es \in Seq([key : Key, val : V])
  BY <1>1, <1>4, <1>5
<1> QED BY <1>1, <1>2, <1>6 DEF es

\* What is built of a value is no deeper, and depends on what is built of its kids.
LEMMA PrunedFits ==
  ASSUME NEW v \in Value, NEW pruned,
         \A i \in 1..Arity(v) : pruned[Child(v, i)] \in ValuesUpTo[ValueDepth[Child(v, i)]]
  PROVE  PrunedOf(v, pruned) \in ValuesUpTo[ValueDepth[v]]
<1> DEFINE n == ValueDepth[v]
<1>1. n \in Nat /\ v \in ValuesUpTo[n]
  BY ValueDepths DEF IsValueDepth
<1>2. ASSUME NEW i \in 1..Arity(v)
      PROVE  n # 0 /\ pruned[Child(v, i)] \in ValuesUpTo[n - 1]
  <2>1. ValueDepth[Child(v, i)] \in Nat /\ ValueDepth[Child(v, i)] < n
    BY KidsAreBelow
  <2>2. n # 0 /\ n - 1 \in Nat /\ ValueDepth[Child(v, i)] =< n - 1
    BY <1>1, <2>1
  <2>3. ValuesUpTo[ValueDepth[Child(v, i)]] \subseteq ValuesUpTo[n - 1]
    BY <2>1, <2>2, ValueLevelsGrow
  <2> QED BY <2>2, <2>3
<1>3. Arity(v) \in Nat /\ v.t \in {"scalar", "list", "map"}
  BY KidsAreBelow
<1> HIDE DEF n
<1>4. CASE v.t = "list"
  <2>1. n # 0 /\ v.items \in Lists(ValuesUpTo[n - 1]) /\ Arity(v) = Len(v.items)
    BY <1>1, <1>4, ValueShape DEF Arity
  <2> DEFINE xs == [i \in 1..Arity(v) |-> pruned[Child(v, i)]]
  <2>2. xs \in [1..Arity(v) -> ValuesUpTo[n - 1]]
    BY <1>2
  <2>3. \A Z : \A k \in Nat : \A t \in [1..k -> Z] : t \in Seq(Z) /\ Len(t) = k
    OBVIOUS
  <2> HIDE DEF xs
  <2>4. xs \in Lists(ValuesUpTo[n - 1])
    BY <1>3, <2>1, <2>2, <2>3 DEF Lists
  <2>5. List(xs) \in ValuesUpTo[n]
    BY <1>1, <2>1, <2>4, ValueForms
  <2> QED BY <1>4, <2>5 DEF PrunedOf, xs, n
<1>5. CASE v.t = "map"
  <2>1. n # 0
    BY <1>1, <1>5, ValueShape
  <2>2. Sift(PrunedEntries(v, pruned), KeptKids(v)) \in Objects(ValuesUpTo[n - 1])
    BY <1>2, PrunedEntriesFit, SiftedEntries
  <2>3. EntriesOf(Sift(PrunedEntries(v, pruned), KeptKids(v))) \in ValuesUpTo[n]
    BY <1>1, <2>1, <2>2, ValueForms
  <2> QED BY <1>5, <2>3, PrunedMap DEF PrunedOf, n
<1>6. CASE v.t = "scalar"
  BY <1>1, <1>6 DEF PrunedOf, n
<1> QED BY <1>3, <1>4, <1>5, <1>6

\* What is built of a value depends on what is built of its kids alone.
LEMMA PrunedLooksDown ==
  ASSUME NEW v, NEW f, NEW g, \A i \in 1..Arity(v) : f[Child(v, i)] = g[Child(v, i)]
  PROVE  PrunedOf(v, f) = PrunedOf(v, g)
<1>1. [i \in 1..Arity(v) |-> f[Child(v, i)]] = [i \in 1..Arity(v) |-> g[Child(v, i)]]
  OBVIOUS
<1>2. [i \in 1..Arity(v) |->
         IF StepTo(v, i) \in PollutionKeys THEN <<>>
         ELSE <<[key |-> StepTo(v, i), val |-> f[Child(v, i)]]>>]
      = [i \in 1..Arity(v) |->
           IF StepTo(v, i) \in PollutionKeys THEN <<>>
           ELSE <<[key |-> StepTo(v, i), val |-> g[Child(v, i)]]>>]
  OBVIOUS
<1> QED BY <1>1, <1>2 DEF PrunedOf

\* So the definition of Pruned defines a function.
LEMMA Pruning ==
  \A v \in Value :
    Pruned[v] \in ValuesUpTo[ValueDepth[v]] /\ Pruned[v] \in Value
      /\ Pruned[v] = PrunedOf(v, Pruned)
<1> DEFINE V == Value
           T == [v \in Value |-> ValuesUpTo[ValueDepth[v]]]
           F == {g \in [Value -> V] : \A v \in Value : g[v] \in T[v]}
           D == [v \in Value |-> [g \in F |-> PrunedOf(v, g)]]
           Solves(f) == f = [v \in Value |-> PrunedOf(v, f)]
<1>1. \A v \in Value : \A g \in F : D[v][g] = PrunedOf(v, g)
  OBVIOUS
<1>2. \A v \in Value : T[v] = ValuesUpTo[ValueDepth[v]]
  OBVIOUS
<1>3. ASSUME NEW v \in Value
      PROVE  v \in T[v] /\ T[v] \subseteq V
  <2>1. /\ ValueDepth[v] \in Nat /\ v \in ValuesUpTo[ValueDepth[v]]
        /\ ValueDepth[v] =< MaxNesting /\ MaxNesting \in Nat
    BY ValueDepths, FormAssumption DEF IsValueDepth
  <2>2. ValuesUpTo[ValueDepth[v]] \subseteq Value
    BY <2>1, ValueLevelsGrow DEF Value
  <2> QED BY <1>2, <2>1, <2>2
<1>4. T \in [Value -> SUBSET V]
  BY <1>3
<1>5. \A g \in F : g = [v \in Value |-> g[v]]
  OBVIOUS
<1>6. F = {g \in [Value -> V] : \A v \in Value : g[v] \in T[v]}
  OBVIOUS
<1>7. \A g \in F : \A v \in Value : g[v] \in T[v]
  OBVIOUS
<1> HIDE DEF T, F
<1>8. ASSUME NEW v \in Value, NEW g \in F
      PROVE  PrunedOf(v, g) \in T[v]
  <2>1. \A i \in 1..Arity(v) : g[Child(v, i)] \in ValuesUpTo[ValueDepth[Child(v, i)]]
    BY <1>2, <1>7, KidsAreBelow
  <2> QED BY <1>2, <2>1, PrunedFits
<1>9. D \in [Value -> [F -> V]]
  BY <1>3, <1>8
<1> HIDE DEF D
<1>10. \A v \in Value : \A g, h \in F :
        (\A i \in 1..Arity(v) : g[Child(v, i)] = h[Child(v, i)]) => D[v][g] = D[v][h]
  BY <1>1, PrunedLooksDown
<1>11. \E f \in F : \A v \in Value : f[v] = D[v][f]
  <2> HIDE DEF V
  <2>1. IsValueRecursive(V, T, F, D)
    <3>1. \A v \in Value : \A g \in F : D[v][g] \in T[v]
      BY <1>1, <1>8
    <3>2. \A v \in Value : T[v] # {}
      BY <1>3
    <3> QED BY <1>4, <1>6, <1>9, <1>10, <3>1, <3>2, Zenon DEF IsValueRecursive
  <2> QED BY <2>1, ValueRecursion
<1>12. PICK f \in F : \A v \in Value : f[v] = PrunedOf(v, f)
  BY <1>1, <1>11
<1>13. Solves(f)
  BY <1>5, <1>12
<1>14. Pruned = CHOOSE g : Solves(g)
  BY DEF Pruned, PrunedOf
<1>15. Solves(Pruned)
  <2> HIDE DEF Solves
  <2> QED BY <1>13, <1>14
<1>16. \A v \in Value : Pruned[v] = PrunedOf(v, Pruned)
  BY <1>15
<1> DEFINE P == {v \in Value : Pruned[v] = f[v]}
<1>17. \A v \in Value : (\A i \in 1..Arity(v) : Child(v, i) \in P) => v \in P
  BY <1>12, <1>16, PrunedLooksDown
<1> HIDE DEF P
<1>18. \A v \in Value : v \in P
  BY <1>17, ValueInduction
<1> QED BY <1>2, <1>3, <1>7, <1>16, <1>18 DEF P

-----------------------------------------------------------------------------
(* What flattenToRow assigns.                                              *)

Row == Seq([key : Key, val : STRING])

CellKey(prefix) == IF Falsy(prefix) THEN <<"value">> ELSE prefix

RowOf(v, rows) ==
  [prefix \in Seq(STRING) |->
     IF IsScalar(v)
     THEN <<[key |-> CellKey(prefix), val |-> ScalarToCell(v)]>>
     ELSE IF Arity(v) = 0 THEN EmptyCell(prefix)
     ELSE FlattenSeq([i \in 1..Arity(v) |-> rows[Child(v, i)][Join(prefix, StepTo(v, i))]])]

\* A key below a prefix, and what is no empty prefix, are keys.
LEMMA PrefixesAreKeys ==
  ASSUME NEW prefix \in Seq(STRING)
  PROVE  /\ ~Falsy(prefix) => prefix \in Key
         /\ CellKey(prefix) \in Key
         /\ \A key \in Key : Join(prefix, key) \in Key /\ Join(prefix, key) \in Seq(STRING)
<1>1. ~Falsy(prefix) => prefix \in Key
  BY DEF Falsy, Key
<1>2. <<"value">> \in Key
  <2>1. \A S : \A s \in S : <<s>> \in Seq(S) \ {<<>>}
    OBVIOUS
  <2>2. "value" \in STRING
    BY FormAssumption DEF KnownParts
  <2>3. \A s \in STRING : <<s>> \in Key
    BY <2>1, Zenon DEF Key
  <2> QED BY <2>2, <2>3
<1>3. ASSUME NEW key \in Key
      PROVE  Join(prefix, key) \in Key
  <2>1. key \in Seq(STRING) /\ key # <<>>
    BY DEF Key
  <2>2. \A S : \A a, b \in Seq(S) : b # <<>> => a \o b \in Seq(S) /\ a \o b # <<>>
    <3> SUFFICES ASSUME NEW S, NEW a \in Seq(S), NEW b \in Seq(S), b # <<>>
                 PROVE  a \o b \in Seq(S) /\ a \o b # <<>>
      OBVIOUS
    <3>1. Len(a) \in Nat /\ Len(b) \in Nat /\ Len(b) # 0
      BY EmptySeq
    <3>2. a \o b \in Seq(S) /\ Len(a \o b) = Len(a) + Len(b)
      BY ConcatProperties
    <3> HIDE DEF Key
    <3>3. Len(a \o b) # 0
      BY <3>1, <3>2
    <3> QED BY <3>2, <3>3
  <2> QED BY <2>1, <2>2 DEF Join, Key
<1>4. Key \subseteq Seq(STRING)
  BY DEF Key
<1> QED BY <1>1, <1>2, <1>3, <1>4 DEF CellKey

\* The cells of a value have keys when those of its kids do.
LEMMA RowFits ==
  ASSUME NEW v \in Value, NEW rows,
         \A i \in 1..Arity(v) : rows[Child(v, i)] \in [Seq(STRING) -> Row]
  PROVE  RowOf(v, rows) \in [Seq(STRING) -> Row]
<1> SUFFICES ASSUME NEW prefix \in Seq(STRING)
             PROVE  RowOf(v, rows)[prefix] \in Row
  BY DEF RowOf
<1>1. \A S : \A s \in S : <<s>> \in Seq(S)
  OBVIOUS
<1>2. \A S : <<>> \in Seq(S)
  OBVIOUS
<1>3. NoText \in STRING
  BY FormAssumption DEF KnownParts
<1>4. CASE IsScalar(v)
  <2>1. v.v \in STRING
    BY <1>4, FormAssumption, ValueShape DEF Value, IsScalar
  <2>2. ScalarToCell(v) \in STRING
    BY <1>3, <2>1 DEF ScalarToCell
  <2>3. CellKey(prefix) \in Key
    BY PrefixesAreKeys
  <2>4. RowOf(v, rows)[prefix] = <<[key |-> CellKey(prefix), val |-> ScalarToCell(v)]>>
    BY <1>4 DEF RowOf
  <2>5. [key |-> CellKey(prefix), val |-> ScalarToCell(v)] \in [key : Key, val : STRING]
    BY <2>2, <2>3
  <2> QED BY <1>1, <2>4, <2>5 DEF Row
<1>5. CASE ~IsScalar(v) /\ Arity(v) = 0
  <2>1. RowOf(v, rows)[prefix] = EmptyCell(prefix)
    BY <1>5 DEF RowOf
  <2>2. ~Falsy(prefix) => [key |-> prefix, val |-> NoText] \in [key : Key, val : STRING]
    BY <1>3, PrefixesAreKeys
  <2>3. EmptyCell(prefix) \in Row
    BY <1>1, <1>2, <2>2 DEF EmptyCell, Row
  <2> QED BY <2>1, <2>3
<1>6. CASE ~IsScalar(v) /\ Arity(v) # 0
  <2> DEFINE ss == [i \in 1..Arity(v) |-> rows[Child(v, i)][Join(prefix, StepTo(v, i))]]
  <2>1. RowOf(v, rows)[prefix] = FlattenSeq(ss)
    BY <1>6 DEF RowOf
  <2>2. ASSUME NEW i \in 1..Arity(v)
        PROVE  rows[Child(v, i)][Join(prefix, StepTo(v, i))] \in Row
    <3>1. StepTo(v, i) \in Key
      BY KidsAreBelow
    <3>2. Join(prefix, StepTo(v, i)) \in Seq(STRING)
      BY <3>1, PrefixesAreKeys
    <3> QED BY <3>2
  <2>3. ss \in [1..Arity(v) -> Row] /\ Arity(v) \in Nat
    BY <2>2, KidsAreBelow
  <2>4. FlattenSeq(ss) \in Row
    <3> HIDE DEF ss
    <3> QED BY <2>3, FlattenedMap DEF Row
  <2> QED BY <2>1, <2>4
<1> QED BY <1>4, <1>5, <1>6

\* The cells of a value depend on those of its kids alone.
LEMMA RowsLookDown ==
  ASSUME NEW v, NEW f, NEW g, \A i \in 1..Arity(v) : f[Child(v, i)] = g[Child(v, i)]
  PROVE  RowOf(v, f) = RowOf(v, g)
<1>1. \A prefix \in Seq(STRING) :
        [i \in 1..Arity(v) |-> f[Child(v, i)][Join(prefix, StepTo(v, i))]]
          = [i \in 1..Arity(v) |-> g[Child(v, i)][Join(prefix, StepTo(v, i))]]
  OBVIOUS
<1> QED BY <1>1 DEF RowOf

\* So the definition of FlattenToRow defines a function.
LEMMA Flattening ==
  \A v \in Value : FlattenToRow[v] \in [Seq(STRING) -> Row]
                   /\ FlattenToRow[v] = RowOf(v, FlattenToRow)
<1> DEFINE V == [Seq(STRING) -> Row]
           T == [v \in Value |-> V]
           F == {g \in [Value -> V] : \A v \in Value : g[v] \in T[v]}
           D == [v \in Value |-> [g \in F |-> RowOf(v, g)]]
           Solves(f) == f = [v \in Value |-> RowOf(v, f)]
<1>1. \A v \in Value : \A g \in F : D[v][g] = RowOf(v, g)
  OBVIOUS
<1>2. ASSUME NEW v \in Value, NEW g \in F
      PROVE  RowOf(v, g) \in V
  <2>1. \A i \in 1..Arity(v) : g[Child(v, i)] \in V
    BY KidsAreBelow
  <2> QED BY <2>1, RowFits
<1>3. D \in [Value -> [F -> V]] /\ T \in [Value -> SUBSET V] /\ \A v \in Value : T[v] = V
  BY <1>2
<1>4. V # {}
  <2>1. <<>> \in Row
    BY DEF Row
  <2>2. [prefix \in Seq(STRING) |-> <<>>] \in V
    BY <2>1
  <2> QED BY <2>2
<1>5. \A g \in F : g = [v \in Value |-> g[v]]
  OBVIOUS
<1>6. F = {g \in [Value -> V] : \A v \in Value : g[v] \in T[v]}
  OBVIOUS
<1> HIDE DEF T, F, D
<1>7. \A v \in Value : \A g, h \in F :
        (\A i \in 1..Arity(v) : g[Child(v, i)] = h[Child(v, i)]) => D[v][g] = D[v][h]
  BY <1>1, RowsLookDown
<1>8. \E f \in F : \A v \in Value : f[v] = D[v][f]
  <2> HIDE DEF V
  <2>1. IsValueRecursive(V, T, F, D)
    <3>1. \A v \in Value : \A g \in F : D[v][g] \in T[v]
      BY <1>1, <1>2, <1>3
    <3>2. \A v \in Value : T[v] # {}
      BY <1>3, <1>4
    <3> QED BY <1>3, <1>6, <1>7, <3>1, <3>2, Zenon DEF IsValueRecursive
  <2> QED BY <2>1, ValueRecursion
<1>9. PICK f \in F : \A v \in Value : f[v] = RowOf(v, f)
  BY <1>1, <1>8
<1>10. Solves(f)
  BY <1>5, <1>9
<1>11. FlattenToRow = CHOOSE g : Solves(g)
  BY DEF FlattenToRow, RowOf, CellKey
<1>12. Solves(FlattenToRow)
  <2> HIDE DEF Solves
  <2> QED BY <1>10, <1>11
<1>13. \A v \in Value : FlattenToRow[v] = RowOf(v, FlattenToRow)
  BY <1>12
<1> DEFINE P == {v \in Value : FlattenToRow[v] = f[v]}
<1>14. \A v \in Value : (\A i \in 1..Arity(v) : Child(v, i) \in P) => v \in P
  BY <1>9, <1>13, RowsLookDown
<1> HIDE DEF P
<1>15. \A v \in Value : v \in P
  BY <1>14, ValueInduction
<1> QED BY <1>9, <1>13, <1>15 DEF P, F

\* The cell of a scalar.
LEMMA ScalarRow ==
  ASSUME NEW v \in Value, IsScalar(v), NEW prefix \in Seq(STRING)
  PROVE  /\ FlattenToRow[v][prefix] = <<[key |-> CellKey(prefix), val |-> ScalarToCell(v)]>>
         /\ [key |-> CellKey(prefix), val |-> ScalarToCell(v)] \in [key : Key, val : STRING]
<1>1. FlattenToRow[v][prefix] = <<[key |-> CellKey(prefix), val |-> ScalarToCell(v)]>>
  <2>1. FlattenToRow[v] = RowOf(v, FlattenToRow)
    BY Flattening
  <2> QED BY <2>1 DEF RowOf
<1>2. v.v \in STRING
  BY FormAssumption, ValueShape DEF Value, IsScalar
<1>3. NoText \in STRING
  BY FormAssumption DEF KnownParts
<1>4. ScalarToCell(v) \in STRING
  BY <1>2, <1>3 DEF ScalarToCell
<1>5. CellKey(prefix) \in Key
  BY PrefixesAreKeys
<1> QED BY <1>1, <1>4, <1>5

\* The row of an object of scalars under plain names is these names and scalars.
LEMMA PlainRow ==
  ASSUME NEW o \in Objects(ValuesUpTo[0]),
         \A j \in DOMAIN o : o[j].key # <<NoText>> /\ o[j].val.v # "null"
  PROVE  LET row == [j \in DOMAIN o |-> [key |-> o[j].key, val |-> o[j].val.v]] IN
         /\ EntriesOf(o) \in Value
         /\ FlattenToRow[EntriesOf(o)][<<>>] = row
         /\ row \in Row /\ Keys(row) = Keys(o)
<1> DEFINE item == EntriesOf(o)
           row  == [j \in DOMAIN o |-> [key |-> o[j].key, val |-> o[j].val.v]]
<1>1. /\ o \in Seq([key : Key, val : ValuesUpTo[0]])
      /\ Len(o) \in Nat /\ DOMAIN o = 1..Len(o)
      /\ \A j \in DOMAIN o : o[j].key \in Key /\ o[j].val \in ValuesUpTo[0]
  <2>1. o \in Seq([key : Key, val : ValuesUpTo[0]])
    BY DEF Objects
  <2> QED BY <2>1, KeysOf
<1>2. item \in Value
  <2>1. 0 \in Nat /\ 1 \in Nat /\ 1 # 0 /\ 1 - 1 = 0 /\ MaxNesting \in Nat /\ 1 =< MaxNesting
    BY FormAssumption
  <2>2. o \in Objects(ValuesUpTo[1 - 1])
    BY <2>1
  <2>3. item \in ValuesUpTo[1]
    BY <2>1, <2>2, ValueForms
  <2>4. ValuesUpTo[1] \subseteq Value
    BY <2>1, ValueLevelsGrow DEF Value
  <2> QED BY <2>3, <2>4
<1>3. /\ item.t = "map" /\ item.ents = o /\ Arity(item) = Len(o)
      /\ \A j \in 1..Len(o) : StepTo(item, j) = o[j].key /\ Child(item, j) = o[j].val
  BY DEF EntriesOf, Arity, StepTo, Child
<1> HIDE DEF item
<1>4. ASSUME NEW j \in 1..Len(o)
      PROVE  /\ FlattenToRow[Child(item, j)][Join(<<>>, StepTo(item, j))]
                  = <<[key |-> o[j].key, val |-> o[j].val.v]>>
             /\ [key |-> o[j].key, val |-> o[j].val.v] \in [key : Key, val : STRING]
  <2>1. o[j].key \in Key /\ o[j].val \in ValuesUpTo[0]
        /\ o[j].key # <<NoText>> /\ o[j].val.v # "null"
    BY <1>1
  <2>2. Join(<<>>, StepTo(item, j)) = o[j].key
    BY <1>3 DEF Join, Falsy
  <2>3. /\ o[j].key \in Seq(STRING) /\ CellKey(o[j].key) = o[j].key
    BY <2>1 DEF Key, CellKey, Falsy
  <2>4. /\ Child(item, j) \in Value /\ Child(item, j) = o[j].val
    BY <1>2, <1>3, KidsAreBelow
  <2>5. IsScalar(o[j].val)
    <3>1. 0 \in Nat
      OBVIOUS
    <3> QED BY <2>1, <3>1, ValueShape DEF IsScalar
  <2>6. ScalarToCell(o[j].val) = o[j].val.v
    BY <2>1 DEF ScalarToCell
  <2> QED BY <2>2, <2>3, <2>4, <2>5, <2>6, ScalarRow
<1>5. row \in Row /\ DOMAIN row = DOMAIN o
      /\ \A j \in DOMAIN o : row[j] = [key |-> o[j].key, val |-> o[j].val.v]
  <2>1. row \in [1..Len(o) -> [key : Key, val : STRING]]
    BY <1>1, <1>4
  <2>2. \A Z : \A n \in Nat : \A t \in [1..n -> Z] : t \in Seq(Z)
    OBVIOUS
  <2> QED BY <1>1, <2>1, <2>2 DEF Row
<1>6. Keys(row) = Keys(o)
  BY <1>5 DEF Keys
<1> HIDE DEF row
<1>7. FlattenToRow[item][<<>>] = row
  <2>1. FlattenToRow[item] = RowOf(item, FlattenToRow) /\ <<>> \in Seq(STRING) /\ ~IsScalar(item)
    BY <1>2, <1>3, Flattening DEF IsScalar
  <2>2. CASE Len(o) = 0
    <3>1. FlattenToRow[item][<<>>] = <<>>
      BY <1>3, <2>1, <2>2 DEF RowOf, EmptyCell, Falsy
    <3>2. row = <<>>
      BY <1>1, <1>5, <2>2
    <3> QED BY <3>1, <3>2
  <2>3. CASE Len(o) # 0
    <3> DEFINE ss == [j \in 1..Len(o) |->
                        FlattenToRow[Child(item, j)][Join(<<>>, StepTo(item, j))]]
    <3>1. FlattenToRow[item][<<>>] = FlattenSeq(ss)
      BY <1>3, <2>1, <2>3 DEF RowOf
    <3>2. ss = [j \in DOMAIN row |-> <<row[j]>>]
      BY <1>1, <1>4, <1>5
    <3> HIDE DEF ss
    <3>3. FlattenSeq(ss) = row
      BY <1>5, <3>2, FlattenSingletons DEF Row
    <3> QED BY <3>1, <3>3
  <2> QED BY <1>1, <2>2, <2>3
<1> QED BY <1>2, <1>5, <1>6, <1>7 DEF item, row

-----------------------------------------------------------------------------
(* A table that goes through a value comes back.                           *)

\* The keys of an object are keys.
LEMMA ObjectKeys ==
  ASSUME NEW V
  PROVE  \A o \in Objects(V) : Keys(o) \in Seq(Key) /\ o \in Seq([key : Key, val : V])
<1>1. \A o \in Seq([key : Key, val : V]) : Keys(o) \in Seq(Key)
  BY KeysOf
<1> QED BY <1>1 DEF Objects

RowOfLine(header, line) ==
  [h \in ToSet(header) |-> line[CHOOSE c \in DOMAIN header : header[c] = h]]

ObjectOf(header, row) ==
  JsObject([c \in DOMAIN header |-> [key |-> header[c], val |-> Scalar(row[header[c]])]])

BackOf(o) == JsObject(FlattenToRow[EntriesOf(o)][<<>>])

\* Each line does.
LEMMA LineComesBack ==
  ASSUME NEW header \in Seq(Key), IsInjective(header), <<NoText>> \notin ToSet(header),
         NEW line \in Seq(STRING \ {"null"}), Len(line) = Len(header),
         NEW row, row = RowOfLine(header, line)
  PROVE  LET o    == ObjectOf(header, row)
             back == BackOf(o) IN
         /\ EntriesOf(o) \in Value /\ back \in Objects(STRING)
         /\ ToSet(Keys(back)) = ToSet(header)
         /\ \A headers : ToSet(headers) = ToSet(header) => CompleteRow(back, headers) = row
<1> DEFINE assigned == [c \in DOMAIN header |->
                          [key |-> header[c], val |-> Scalar(row[header[c]])]]
           o     == ObjectOf(header, row)
           cells == FlattenToRow[EntriesOf(o)][<<>>]
           back  == BackOf(o)
<1>1. /\ Len(header) \in Nat /\ DOMAIN header = 1..Len(header) /\ DOMAIN line = DOMAIN header
      /\ \A c \in DOMAIN header : /\ header[c] \in Key /\ header[c] \in ToSet(header)
                                  /\ line[c] \in STRING \ {"null"}
  <2>1. \A S : \A s \in Seq(S) :
          Len(s) \in Nat /\ DOMAIN s = 1..Len(s) /\ \A i \in DOMAIN s : s[i] \in S
    OBVIOUS
  <2> QED BY <2>1 DEF ToSet
<1>2. ASSUME NEW c \in DOMAIN header
      PROVE  row[header[c]] = line[c]
  <2>1. (CHOOSE d \in DOMAIN header : header[d] = header[c]) = c
    BY DEF IsInjective
  <2> QED BY <1>1, <2>1 DEF RowOfLine
<1>3. /\ DOMAIN assigned = DOMAIN header
      /\ \A c \in DOMAIN header : assigned[c] = [key |-> header[c], val |-> Scalar(line[c])]
  BY <1>2
<1> HIDE DEF assigned
<1>4. assigned \in Seq([key : Key, val : ValuesUpTo[0]])
  <2>1. 0 \in Nat
    OBVIOUS
  <2>2. \A c \in DOMAIN header : Scalar(line[c]) \in ValuesUpTo[0]
    BY <1>1, <2>1, ValueForms
  <2>3. \A c \in DOMAIN header : assigned[c] \in [key : Key, val : ValuesUpTo[0]]
    BY <1>1, <1>3, <2>2
  <2>4. assigned = [c \in DOMAIN header |-> assigned[c]]
    BY <1>3 DEF assigned
  <2>5. assigned \in [1..Len(header) -> [key : Key, val : ValuesUpTo[0]]]
    BY <1>1, <2>3, <2>4
  <2>6. \A Z : \A n \in Nat : \A t \in [1..n -> Z] : t \in Seq(Z)
    OBVIOUS
  <2> QED BY <1>1, <2>5, <2>6
<1>5. Keys(assigned) = header
  <2>1. \A c \in DOMAIN header : assigned[c].key = header[c]
    BY <1>3
  <2>2. Keys(assigned) = [c \in DOMAIN header |-> header[c]]
    BY <1>3, <2>1 DEF Keys
  <2> QED BY <2>2
<1>6. /\ o \in Objects(ValuesUpTo[0]) /\ ToSet(Keys(o)) = ToSet(header)
      /\ ToSet(o) = ToSet(assigned)
  <2>1. o = JsObject(assigned)
    BY DEF ObjectOf, assigned
  <2> HIDE DEF o
  <2> QED BY <1>4, <1>5, <2>1, ObjectMembers
<1> HIDE DEF o
<1>7. ASSUME NEW j \in DOMAIN o
      PROVE  \E c \in DOMAIN header : o[j].key = header[c] /\ o[j].val.v = line[c]
  <2>1. o[j] \in ToSet(assigned)
    BY <1>6 DEF ToSet
  <2>2. PICK c \in DOMAIN assigned : o[j] = assigned[c]
    BY <2>1 DEF ToSet
  <2> QED BY <1>3, <2>2 DEF Scalar
<1>8. \A j \in DOMAIN o : o[j].key # <<NoText>> /\ o[j].val.v # "null"
  BY <1>1, <1>7
<1>9. LET plain == [j \in DOMAIN o |-> [key |-> o[j].key, val |-> o[j].val.v]] IN
      EntriesOf(o) \in Value /\ cells = plain /\ plain \in Row /\ Keys(plain) = Keys(o)
  BY <1>6, <1>8, PlainRow
<1>10. /\ cells \in Seq([key : Key, val : STRING]) /\ Keys(cells) = Keys(o)
       /\ DOMAIN cells = DOMAIN o
       /\ \A j \in DOMAIN o : cells[j].key = o[j].key /\ cells[j].val = o[j].val.v
  BY <1>9 DEF Row
<1> HIDE DEF cells
<1>11. /\ back \in Objects(STRING) /\ ToSet(Keys(back)) = ToSet(header)
       /\ ToSet(back) \subseteq ToSet(cells)
  <2>1. cells \in Seq([key : Key, val : STRING])
    BY <1>10
  <2>2. /\ back \in Objects(STRING) /\ ToSet(Keys(back)) = ToSet(Keys(cells))
        /\ ToSet(back) \subseteq ToSet(cells)
    <3>1. back = JsObject(cells)
      BY DEF BackOf, cells
    <3> QED BY <2>1, <3>1, ObjectMembers
  <2> QED BY <1>6, <1>10, <2>2
<1> HIDE DEF back
<1>12. back \in Seq([key : Key, val : STRING])
  BY <1>11 DEF Objects
<1>13. ASSUME NEW h \in ToSet(header)
       PROVE  LastValue(back, h) = row[h]
  <2>1. PICK i \in DOMAIN back : back[i].key = h /\ LastValue(back, h) = back[i].val
    BY <1>11, <1>12, LastIsAssigned
  <2>2. back[i] \in ToSet(cells)
    BY <1>11 DEF ToSet
  <2>3. PICK j \in DOMAIN cells : back[i] = cells[j]
    BY <2>2 DEF ToSet
  <2>4. PICK c \in DOMAIN header : o[j].key = header[c] /\ o[j].val.v = line[c]
    BY <1>7, <1>10, <2>3
  <2>5. back[i].key = o[j].key /\ back[i].val = o[j].val.v
    BY <1>10, <2>3
  <2>6. h = header[c] /\ LastValue(back, h) = line[c]
    BY <2>1, <2>4, <2>5
  <2>7. row[header[c]] = line[c]
    BY <1>2
  <2> QED BY <2>6, <2>7, Zenon
<1>14. ASSUME NEW headers, ToSet(headers) = ToSet(header)
       PROVE  CompleteRow(back, headers) = row
  <2>1. CompleteRow(back, headers) = [h \in ToSet(header) |-> LastValue(back, h)]
    BY <1>11, <1>14 DEF CompleteRow
  <2>2. row = [h \in ToSet(header) |-> row[h]]
    BY DEF RowOfLine
  <2> QED BY <1>13, <2>1, <2>2
<1>15. EntriesOf(o) \in Value
  BY <1>9
<1> QED BY <1>11, <1>14, <1>15 DEF back, o

\* So do all of them, under the same headers.
LEMMA TableComesBack ==
  ASSUME NEW header \in Seq(Key), NEW lines \in Seq(Seq(STRING \ {"null"})), NEW limits,
         NEW table, table.header = header, table.lines = lines,
         CsvError(table, limits) = "OK", lines # <<>>, <<"__proto__">> \notin ToSet(header)
  PROVE  LET back == ValueToRecords(RecordsToValue(CsvRecords(table))) IN
         ToSet(back.headers) = ToSet(header) /\ back.rows = CsvRecords(table).rows
<1> DEFINE rows == CsvRecords(table).rows
           items == [i \in DOMAIN lines |-> EntriesOf(ObjectOf(header, rows[i]))]
           value == List(items)
           Back(i) == JsObject(FlattenToRow[items[i]][<<>>])
           backs == [i \in DOMAIN lines |-> Back(i)]
           headers == UnionHeaders(backs)
<1>1. /\ \A i \in DOMAIN lines : Len(lines[i]) = Len(header)
      /\ \A c \in DOMAIN header : ~Blank(header[c])
      /\ IsInjective(header)
  BY DEF CsvError
<1>2. <<NoText>> \notin ToSet(header)
  BY <1>1 DEF Blank, ToSet
<1>3. /\ Len(lines) \in Nat /\ DOMAIN lines = 1..Len(lines) /\ 1 \in DOMAIN lines
      /\ \A i \in DOMAIN lines : lines[i] \in Seq(STRING \ {"null"})
  <2>1. Len(lines) \in Nat /\ DOMAIN lines = 1..Len(lines) /\ Len(lines) # 0
    BY EmptySeq
  <2> QED BY <2>1
<1>4. /\ DOMAIN rows = DOMAIN lines
      /\ rows = [i \in DOMAIN lines |-> rows[i]]
      /\ \A i \in DOMAIN lines :
           rows[i] = RowOfLine(header, lines[i])
  BY DEF CsvRecords, RowOfLine
<1>5. RecordsToValue(CsvRecords(table)) = value
  <2>1. CsvRecords(table).headers = header
    BY DEF CsvRecords
  <2> DEFINE I == {c \in DOMAIN header : header[c] # <<"__proto__">>}
  <2>2. \A c \in DOMAIN header : c \in I
    BY DEF ToSet
  <2> HIDE DEF I
  <2>3. Sift(header, I) = header
    BY <2>2, Sifted
  <2> HIDE DEF rows
  <2>4. RecordsToValue(CsvRecords(table))
          = List([i \in DOMAIN rows |-> EntriesOf(ObjectOf(header, rows[i]))])
    BY <2>1, <2>3 DEF RecordsToValue, ObjectOf, I, rows
  <2> QED BY <1>4, <2>4
<1> HIDE DEF rows
<1>6. ASSUME NEW i \in DOMAIN lines
      PROVE  /\ Back(i) \in Objects(STRING) /\ ToSet(Keys(Back(i))) = ToSet(header)
             /\ \A hs : ToSet(hs) = ToSet(header) => CompleteRow(Back(i), hs) = rows[i]
  <2>1. Back(i) = BackOf(ObjectOf(header, rows[i]))
    BY DEF BackOf
  <2>2. /\ lines[i] \in Seq(STRING \ {"null"}) /\ Len(lines[i]) = Len(header)
        /\ rows[i] = RowOfLine(header, lines[i])
    BY <1>1, <1>3, <1>4
  <2> DEFINE back == BackOf(ObjectOf(header, rows[i]))
  <2>3. /\ back \in Objects(STRING) /\ ToSet(Keys(back)) = ToSet(header)
        /\ \A hs : ToSet(hs) = ToSet(header) => CompleteRow(back, hs) = rows[i]
    BY <1>1, <1>2, <2>2, LineComesBack
  <2> QED BY <2>1, <2>3
<1>7. ValueToRecords(value)
        = [headers |-> headers, rows |-> [i \in DOMAIN backs |-> CompleteRow(backs[i], headers)]]
  <2>1. Items(value) = items /\ ~IsScalar(value)
    BY DEF Items, List, IsScalar
  <2>2. items # <<>>
    <3>1. 1 \in DOMAIN items
      BY <1>3
    <3> HIDE DEF items
    <3> QED BY <3>1
  <2> QED BY <2>1, <2>2 DEF ValueToRecords
<1>8. DOMAIN backs = DOMAIN lines /\ \A i \in DOMAIN lines : backs[i] = Back(i)
  OBVIOUS
<1> HIDE DEF Back, items, value, backs
<1>9. ToSet(headers) = ToSet(header)
  <2> DEFINE ks == [i \in DOMAIN backs |-> Keys(backs[i])]
  <2>1. \A i \in DOMAIN lines : Keys(backs[i]) \in Seq(Key) /\ ToSet(Keys(backs[i])) = ToSet(header)
    BY <1>6, <1>8, ObjectKeys
  <2>2. ks \in [1..Len(lines) -> Seq(Key)] /\ \A i \in 1..Len(lines) : ks[i] = Keys(backs[i])
    BY <1>3, <1>8, <2>1
  <2>3. headers = Distinct(FlattenSeq(ks))
    BY DEF UnionHeaders
  <2> HIDE DEF ks
  <2>4. /\ FlattenSeq(ks) \in Seq(Key)
        /\ \A x : x \in ToSet(FlattenSeq(ks)) <=> \E i \in 1..Len(lines) : x \in ToSet(ks[i])
    BY <1>3, <2>2, FlattenedMap
  <2>5. \A x : x \in ToSet(FlattenSeq(ks)) <=> x \in ToSet(header)
    BY <1>3, <2>1, <2>2, <2>4
  <2>6. ToSet(FlattenSeq(ks)) = ToSet(header)
    BY <2>5
  <2> QED BY <2>3, <2>4, <2>6, DistinctMembers
<1>10. [i \in DOMAIN backs |-> CompleteRow(backs[i], headers)] = rows
  BY <1>4, <1>6, <1>8, <1>9
<1> QED BY <1>5, <1>7, <1>9, <1>10 DEF rows

\* What becomes of a value as records: headers without repetitions, and rows.
LEMMA RecordsFit ==
  ASSUME NEW v \in Value
  PROVE  LET records == ValueToRecords(v) IN
         /\ records.headers \in Seq(Key) /\ IsInjective(records.headers)
         /\ \E n \in Nat : DOMAIN records.rows = 1..n
<1>1. CASE IsScalar(v) \/ Items(v) = <<>>
  <2>1. ValueToRecords(v) = [headers |-> <<>>, rows |-> <<>>]
    BY <1>1 DEF ValueToRecords
  <2>2. <<>> \in Seq(Key) /\ IsInjective(<<>>) /\ DOMAIN <<>> = 1..0
    BY DEF IsInjective
  <2> QED BY <2>1, <2>2
<1>2. CASE ~(IsScalar(v) \/ Items(v) = <<>>)
  <2> DEFINE items == Items(v)
             rows  == [i \in DOMAIN items |-> JsObject(FlattenToRow[items[i]][<<>>])]
             ks    == [i \in DOMAIN rows |-> Keys(rows[i])]
             headers == UnionHeaders(rows)
  <2>1. items \in Seq(Value)
    <3>1. CASE v.t = "list"
      <4>1. PICK n \in Nat : n = MaxNesting /\ n # 0 /\ n - 1 \in Nat /\ n - 1 =< n
                             /\ v.items \in Lists(ValuesUpTo[n - 1])
        BY <3>1, FormAssumption, ValueShape DEF Value
      <4>2. v.items \in Seq(ValuesUpTo[n - 1]) /\ ValuesUpTo[n - 1] \subseteq Value
        BY <4>1, ValueLevelsGrow DEF Lists, Value
      <4> QED BY <3>1, <4>2, SeqsGrow DEF Items
    <3>2. CASE v.t # "list"
      BY <3>2 DEF Items
    <3> QED BY <3>1, <3>2
  <2>2. /\ Len(items) \in Nat /\ DOMAIN items = 1..Len(items)
        /\ \A i \in DOMAIN items : items[i] \in Value
    BY <2>1
  <2> HIDE DEF items
  <2>3. ASSUME NEW i \in DOMAIN items
        PROVE  Keys(rows[i]) \in Seq(Key)
    <3>1. <<>> \in Seq(STRING)
      OBVIOUS
    <3>2. FlattenToRow[items[i]][<<>>] \in Seq([key : Key, val : STRING])
      BY <2>2, <3>1, Flattening DEF Row
    <3>3. rows[i] \in Objects(STRING)
      BY <3>2, ObjectMembers
    <3> HIDE DEF rows
    <3> QED BY <3>3, ObjectKeys
  <2>4. ks \in [1..Len(items) -> Seq(Key)] /\ DOMAIN rows = DOMAIN items
    BY <2>2, <2>3
  <2>5. headers = Distinct(FlattenSeq(ks))
    BY DEF UnionHeaders
  <2>6. ValueToRecords(v)
          = [headers |-> headers, rows |-> [i \in DOMAIN rows |-> CompleteRow(rows[i], headers)]]
    BY <1>2 DEF ValueToRecords, items
  <2> HIDE DEF ks, rows, headers
  <2>7. FlattenSeq(ks) \in Seq(Key)
    BY <2>2, <2>4, FlattenedMap
  <2>8. headers \in Seq(Key) /\ IsInjective(headers)
    BY <2>5, <2>7, DistinctMembers
  <2> DEFINE records == ValueToRecords(v)
  <2>9. records.headers = headers /\ DOMAIN records.rows = DOMAIN rows
    <3>1. \A hs, rs : [headers |-> hs, rows |-> rs].headers = hs
                      /\ [headers |-> hs, rows |-> rs].rows = rs
      OBVIOUS
    <3> QED BY <2>6, <3>1
  <2> HIDE DEF records
  <2>10. /\ records.headers \in Seq(Key) /\ IsInjective(records.headers)
         /\ \E n \in Nat : DOMAIN records.rows = 1..n
    BY <2>2, <2>4, <2>8, <2>9
  <2> QED BY <2>10 DEF records
<1> QED BY <1>1, <1>2

\* As a table they can be read again, when no header is blank and no limit refuses them.
LEMMA RecordsAreRead ==
  ASSUME NEW records, NEW limits, NEW n \in Nat,
         records.headers \in Seq(Key), IsInjective(records.headers), DOMAIN records.rows = 1..n,
         ~(Len(records.rows) > limits.rows),
         \A c \in DOMAIN records.headers : ~Blank(records.headers[c])
  PROVE  CsvError(CsvTable(records), limits) = "OK"
<1> DEFINE table == CsvTable(records)
           k     == Len(records.headers)
<1>1. k \in Nat /\ DOMAIN records.headers = 1..k
  OBVIOUS
<1>2. \A m \in Nat : \A f : DOMAIN f = 1..m => Len(f) = m
  OBVIOUS
<1>3. /\ table.header = records.headers /\ DOMAIN table.lines = 1..n
      /\ \A i \in 1..n : DOMAIN table.lines[i] = 1..k
  BY <1>1 DEF CsvTable
<1> HIDE DEF table
<1>4. \A i \in DOMAIN table.lines : Len(table.lines[i]) = Len(table.header)
  BY <1>1, <1>2, <1>3
<1>5. Len(table.lines) = Len(records.rows)
  BY <1>2, <1>3
<1>6. CsvError(table, limits) = "OK"
  BY <1>3, <1>4, <1>5 DEF CsvError
<1> QED BY <1>6 DEF table

-----------------------------------------------------------------------------
(* What is right below a value, by the steps to it.                        *)

HasKid(v, s, c) == \E i \in 1..Arity(v) : s = StepTo(v, i) /\ c = Child(v, i)

KeptKid(v, s, c) == HasKid(v, s, c) /\ s \notin PollutionKeys

\* Kids are values, each under its own key.
LEMMA KidsAreKids ==
  ASSUME NEW v \in Value
  PROVE  /\ \A s, c : HasKid(v, s, c) => s \in Key /\ c \in Value /\ v.t \in {"list", "map"}
         /\ \A s, c, d : HasKid(v, s, c) /\ HasKid(v, s, d) => c = d
BY KidsAreBelow DEF HasKid

\* A set that has each value whose kids it has has them all.
LEMMA KidInduction ==
  ASSUME NEW P, \A v \in Value : (\A s, c : HasKid(v, s, c) => c \in P) => v \in P
  PROVE  \A v \in Value : v \in P
<1>1. ASSUME NEW v \in Value, \A i \in 1..Arity(v) : Child(v, i) \in P
      PROVE  v \in P
  <2>1. \A s, c : HasKid(v, s, c) => c \in P
    BY <1>1 DEF HasKid
  <2> QED BY <2>1
<1> QED BY <1>1, ValueInduction

\* The nodes by the steps to them.
LEMMA NodesBelow ==
  ASSUME NEW v \in Value
  PROVE  \A n : n \in Nodes[v] <=>
           \/ n = Root(v)
           \/ \E s, c : HasKid(v, s, c) /\ \E m \in Nodes[c] : n = Lifted(v, s, m)
<1>1. \A i \in 1..Arity(v) : Nodes[Child(v, i)] \in SUBSET Spot
  BY KidsAreBelow, Noding
<1>2. \A n : n \in Nodes[v] <=>
        \/ n = Root(v)
        \/ \E i \in 1..Arity(v) : \E m \in Nodes[Child(v, i)] : n = Lifted(v, StepTo(v, i), m)
  BY <1>1, Noding, NodesAreSpots
<1> QED BY <1>2 DEF HasKid

\* The same for the nodes that no dropped key leads to.
LEMMA ReachableBelow ==
  ASSUME NEW v \in Value
  PROVE  \A n : n \in Reachable(v) <=>
           \/ n = Root(v)
           \/ \E s, c : KeptKid(v, s, c) /\ \E m \in Reachable(c) : n = Lifted(v, s, m)
<1>1. \A n : n \in Reachable(v) <=>
        \/ n = Root(v)
        \/ \E i \in 1..Arity(v) : StepTo(v, i) \notin PollutionKeys
             /\ \E m \in Reachable(Child(v, i)) : n = Lifted(v, StepTo(v, i), m)
  BY Reaching
<1> QED BY <1>1 DEF HasKid, KeptKid

\* A node of a kid, as a node of the value.
LEMMA LiftedBelow ==
  ASSUME NEW v \in Value, NEW s, NEW c, HasKid(v, s, c), NEW m \in Reachable(c)
  PROVE  LET n == Lifted(v, s, m) IN
         /\ s \in Key /\ c \in Value /\ m \in Spot /\ n \in Spot
         /\ n.at = <<s>> \o m.at /\ n.at # <<>>
         /\ n.t = m.t /\ n.v = m.v
<1>1. s \in Key /\ c \in Value
  BY KidsAreKids
<1>2. m \in Spot
  BY <1>1, Reaching
<1>3. Lifted(v, s, m) \in Spot
  BY <1>1, <1>2, LiftedSpot
<1>4. LET n == Lifted(v, s, m) IN
      /\ n.at = <<s>> \o m.at /\ n.at # <<>> /\ n.t = m.t /\ n.v = m.v
  BY LiftedNode DEF HasKid
<1> QED BY <1>1, <1>2, <1>3, <1>4

\* A path begins another one when their first keys are the same and its rest
\* begins that of the other one.
LEMMA PathsBegin ==
  ASSUME NEW a \in Key, NEW b \in Key, NEW s \in Seq(Key), NEW t \in Seq(Key)
  PROVE  /\ IsStrictPrefix(<<a>> \o s, <<b>> \o t) <=> a = b /\ IsStrictPrefix(s, t)
         /\ IsStrictPrefix(<<>>, <<b>> \o t)
         /\ ~IsStrictPrefix(s, <<>>)
<1>1. ASSUME NEW p \in Seq(Key), NEW q \in Seq(Key)
      PROVE  IsPrefix(p, q) <=> Len(p) =< Len(q) /\ \A i \in 1..Len(p) : p[i] = q[i]
  <2>1. Len(p) \in Nat /\ Len(q) \in Nat
    OBVIOUS
  <2>2. CASE Len(p) =< Len(q)
    <3>1. \A r \in Seq(Key) : Len(p) =< Len(r) =>
            /\ DOMAIN SubSeq(r, 1, Len(p)) = 1..Len(p)
            /\ SubSeq(r, 1, Len(p)) \in [1..Len(p) -> Key]
            /\ \A i \in 1..Len(p) : SubSeq(r, 1, Len(p))[i] = r[i]
      <4> SUFFICES ASSUME NEW r \in Seq(Key), Len(p) =< Len(r)
                   PROVE  /\ DOMAIN SubSeq(r, 1, Len(p)) = 1..Len(p)
                          /\ SubSeq(r, 1, Len(p)) \in [1..Len(p) -> Key]
                          /\ \A i \in 1..Len(p) : SubSeq(r, 1, Len(p))[i] = r[i]
        OBVIOUS
      <4>1. \A i \in 1..Len(p) : r[i] \in Key
        BY <2>1
      <4> DEFINE head == SubSeq(r, 1, Len(p))
                 k    == Len(p)
      <4>2. /\ SubSeq(r, 1, k) \in Seq(Key)
            /\ Len(SubSeq(r, 1, k)) = (IF 1 =< k THEN k - 1 + 1 ELSE 0)
            /\ \A i \in 1..(k - 1 + 1) : SubSeq(r, 1, k)[i] = r[1 + i - 1]
        <5>1. 1 \in Int /\ k \in Int /\ \A i \in 1..k : r[i] \in Key
          BY <2>1, <4>1
        <5> HIDE DEF k
        <5> QED BY <5>1, SubSeqProperties
      <4>3. /\ head \in Seq(Key) /\ Len(head) = k /\ \A i \in 1..k : head[i] = r[i]
        BY <2>1, <4>2
      <4> HIDE DEF head
      <4>4. DOMAIN head = 1..k /\ head \in [1..k -> Key]
        BY <4>3
      <4> QED BY <4>3, <4>4 DEF head
    <3>2. SubSeq(p, 1, Len(p)) = SubSeq(q, 1, Len(p)) <=> \A i \in 1..Len(p) : p[i] = q[i]
      <4>1. \A f, g \in [1..Len(p) -> Key] : f = g <=> \A i \in 1..Len(p) : f[i] = g[i]
        OBVIOUS
      <4> QED BY <2>1, <2>2, <3>1, <4>1
    <3> QED BY <2>2, <3>2 DEF IsPrefix
  <2>3. CASE ~(Len(p) =< Len(q))
    BY <2>3 DEF IsPrefix
  <2> QED BY <2>2, <2>3
<1> DEFINE p == <<a>> \o s
           q == <<b>> \o t
<1>2. /\ p \in Seq(Key) /\ p # <<>> /\ p[1] = a /\ Len(p) = Len(s) + 1
      /\ \A i \in 1..Len(s) : p[i + 1] = s[i]
      /\ q \in Seq(Key) /\ q # <<>> /\ q[1] = b /\ Len(q) = Len(t) + 1
      /\ \A i \in 1..Len(t) : q[i + 1] = t[i]
      /\ Len(s) \in Nat /\ Len(t) \in Nat
  BY LongerPath
<1>3. p = q <=> a = b /\ s = t
  BY OneFirstKey
<1> HIDE DEF p, q
<1>4. IsPrefix(p, q) <=> a = b /\ IsPrefix(s, t)
  <2>1. IsPrefix(p, q) <=> Len(p) =< Len(q) /\ \A i \in 1..Len(p) : p[i] = q[i]
    BY <1>1, <1>2
  <2>2. IsPrefix(s, t) <=> Len(s) =< Len(t) /\ \A i \in 1..Len(s) : s[i] = t[i]
    BY <1>1
  <2>3. CASE Len(s) =< Len(t)
    <3>1. (\A i \in 1..(Len(s) + 1) : p[i] = q[i]) <=> a = b /\ \A i \in 1..Len(s) : s[i] = t[i]
      <4>1. /\ 1 \in 1..(Len(s) + 1)
            /\ \A i \in 1..Len(s) : i + 1 \in 1..(Len(s) + 1) /\ i \in 1..Len(t)
        BY <1>2, <2>3
      <4>2. \A i \in 1..(Len(s) + 1) : i = 1 \/ (i - 1 \in 1..Len(s) /\ (i - 1) + 1 = i)
        BY <1>2
      <4>3. ASSUME \A i \in 1..(Len(s) + 1) : p[i] = q[i], NEW i \in 1..Len(s)
            PROVE  a = b /\ s[i] = t[i]
        <5>1. p[1] = q[1] /\ p[i + 1] = q[i + 1]
          BY <4>1, <4>3
        <5> QED BY <1>2, <4>1, <5>1
      <4>4. ASSUME \A i \in 1..(Len(s) + 1) : p[i] = q[i] PROVE a = b
        BY <1>2, <4>1, <4>4
      <4>5. ASSUME a = b, \A i \in 1..Len(s) : s[i] = t[i], NEW i \in 1..(Len(s) + 1)
            PROVE  p[i] = q[i]
        <5>1. CASE i = 1
          BY <1>2, <4>5, <5>1
        <5>2. CASE i - 1 \in 1..Len(s) /\ (i - 1) + 1 = i
          <6>1. p[(i - 1) + 1] = s[i - 1] /\ q[(i - 1) + 1] = t[i - 1]
            BY <1>2, <4>1, <5>2
          <6> QED BY <4>5, <5>2, <6>1
        <5> QED BY <4>2, <5>1, <5>2
      <4> QED BY <4>3, <4>4, <4>5
    <3>2. Len(p) =< Len(q) /\ 1..Len(p) = 1..(Len(s) + 1)
      BY <1>2, <2>3
    <3>3. IsPrefix(p, q) <=> \A i \in 1..(Len(s) + 1) : p[i] = q[i]
      BY <2>1, <3>2
    <3>4. IsPrefix(s, t) <=> \A i \in 1..Len(s) : s[i] = t[i]
      BY <2>2, <2>3
    <3> QED BY <3>1, <3>3, <3>4
  <2>4. CASE ~(Len(s) =< Len(t))
    BY <1>2, <2>1, <2>2, <2>4
  <2> QED BY <2>3, <2>4
<1>5. IsStrictPrefix(p, q) <=> a = b /\ IsStrictPrefix(s, t)
  BY <1>3, <1>4 DEF IsStrictPrefix
<1>6. <<>> \in Seq(Key) /\ Len(<<>>) = 0
  OBVIOUS
<1>7. IsStrictPrefix(<<>>, q)
  <2> DEFINE e == <<>>
  <2>1. e \in Seq(Key) /\ Len(e) = 0
    BY <1>6
  <2> HIDE DEF e
  <2>2. IsPrefix(e, q) <=> Len(e) =< Len(q) /\ \A i \in 1..Len(e) : e[i] = q[i]
    BY <1>1, <1>2, <2>1
  <2>3. IsPrefix(e, q)
    BY <1>2, <2>1, <2>2
  <2> QED BY <1>2, <2>3 DEF IsStrictPrefix, e
<1>8. ~IsStrictPrefix(s, <<>>)
  <2> SUFFICES ASSUME IsPrefix(s, <<>>) PROVE s = <<>>
    BY DEF IsStrictPrefix
  <2>1. Len(s) =< 0
    BY <1>1, <1>6
  <2> QED BY <1>2, <2>1, EmptySeq
<1> QED BY <1>5, <1>7, <1>8 DEF p, q

\* The leaves: those of the kids that are kept, or the root when there are none.
LEMMA LeavesBelow ==
  ASSUME NEW v \in Value
  PROVE  /\ Leaves(v) \subseteq Reachable(v)
         /\ \A n : n \in Leaves(v) <=>
              \/ n = Root(v) /\ \A s, c : ~KeptKid(v, s, c)
              \/ \E s, c : KeptKid(v, s, c) /\ \E m \in Leaves(c) : n = Lifted(v, s, m)
<1>1. \A n : n \in Leaves(v) <=>
        n \in Reachable(v) /\ \A x \in Reachable(v) : ~IsStrictPrefix(n.at, x.at)
  BY DEF Leaves
<1>2. \A c, m : m \in Leaves(c) <=>
        m \in Reachable(c) /\ \A x \in Reachable(c) : ~IsStrictPrefix(m.at, x.at)
  BY DEF Leaves
<1>3. /\ Root(v) \in Reachable(v) /\ Root(v).at = <<>>
      /\ \A n : n \in Reachable(v) <=>
           \/ n = Root(v)
           \/ \E s, c : KeptKid(v, s, c) /\ \E m \in Reachable(c) : n = Lifted(v, s, m)
  BY ReachableBelow, RootSpot
<1>4. ASSUME NEW s, NEW c, KeptKid(v, s, c), NEW m \in Reachable(c)
      PROVE  /\ s \in Key /\ c \in Value /\ m.at \in Seq(Key)
             /\ Lifted(v, s, m).at = <<s>> \o m.at
             /\ Lifted(v, s, m) \in Reachable(v)
             /\ IsStrictPrefix(<<>>, Lifted(v, s, m).at)
             /\ ~IsStrictPrefix(Lifted(v, s, m).at, <<>>)
  <2>1. HasKid(v, s, c)
    BY <1>4 DEF KeptKid
  <2>2. /\ s \in Key /\ c \in Value /\ m \in Spot /\ Lifted(v, s, m) \in Spot
        /\ Lifted(v, s, m).at = <<s>> \o m.at
    BY <2>1, LiftedBelow
  <2>3. m.at \in Seq(Key) /\ Lifted(v, s, m).at \in Seq(Key)
    BY <2>2 DEF Spot
  <2>4. Lifted(v, s, m) \in Reachable(v)
    BY <1>3, <1>4
  <2>5. IsStrictPrefix(<<>>, <<s>> \o m.at)
    BY <2>2, <2>3, PathsBegin
  <2>6. ~IsStrictPrefix(Lifted(v, s, m).at, <<>>)
    BY <2>2, <2>3, PathsBegin
  <2> QED BY <2>2, <2>3, <2>4, <2>5, <2>6
<1>5. Root(v) \in Leaves(v) <=> \A s, c : ~KeptKid(v, s, c)
  <2>1. ASSUME NEW s, NEW c, KeptKid(v, s, c)
        PROVE  Root(v) \notin Leaves(v)
    <3>1. c \in Value
      BY <2>1, KidsAreKids DEF KeptKid
    <3>2. Root(c) \in Reachable(c)
      BY <3>1, Reaching
    <3>3. Lifted(v, s, Root(c)) \in Reachable(v) /\ IsStrictPrefix(<<>>, Lifted(v, s, Root(c)).at)
      BY <1>4, <2>1, <3>2
    <3> QED BY <1>1, <1>3, <3>3
  <2>2. ASSUME \A s, c : ~KeptKid(v, s, c)
        PROVE  Root(v) \in Leaves(v)
    <3>1. \A n \in Reachable(v) : n.at = <<>>
      BY <1>3, <2>2
    <3>2. ~IsStrictPrefix(<<>>, <<>>)
      BY DEF IsStrictPrefix
    <3> QED BY <1>1, <1>3, <3>1, <3>2
  <2> QED BY <2>1, <2>2
<1>6. ASSUME NEW s, NEW c, KeptKid(v, s, c), NEW m \in Reachable(c)
      PROVE  Lifted(v, s, m) \in Leaves(v) <=> m \in Leaves(c)
  <2> DEFINE n == Lifted(v, s, m)
  <2>1. /\ n.at = <<s>> \o m.at /\ n \in Reachable(v) /\ s \in Key /\ m.at \in Seq(Key)
        /\ ~IsStrictPrefix(n.at, <<>>)
    BY <1>4, <1>6
  <2>2. ASSUME NEW d, NEW t, KeptKid(v, t, d), NEW x \in Reachable(d)
        PROVE  IsStrictPrefix(n.at, Lifted(v, t, x).at) <=> s = t /\ IsStrictPrefix(m.at, x.at)
    <3>1. Lifted(v, t, x).at = <<t>> \o x.at /\ t \in Key /\ x.at \in Seq(Key)
      BY <1>4, <2>2
    <3>2. IsStrictPrefix(<<s>> \o m.at, <<t>> \o x.at) <=> s = t /\ IsStrictPrefix(m.at, x.at)
      BY <2>1, <3>1, PathsBegin
    <3> QED BY <2>1, <3>1, <3>2
  <2>3. \A d : KeptKid(v, s, d) => d = c
    BY <1>6, KidsAreKids DEF KeptKid
  <2> HIDE DEF n
  <2>4. ASSUME m \in Leaves(c), NEW x \in Reachable(v) PROVE ~IsStrictPrefix(n.at, x.at)
    <3>1. CASE x = Root(v)
      BY <1>3, <2>1, <3>1
    <3>2. ASSUME NEW t, NEW d, KeptKid(v, t, d), NEW y \in Reachable(d), x = Lifted(v, t, y)
          PROVE  ~IsStrictPrefix(n.at, x.at)
      <4>1. IsStrictPrefix(n.at, x.at) <=> s = t /\ IsStrictPrefix(m.at, y.at)
        BY <2>2, <3>2
      <4>2. s = t => d = c
        BY <2>3, <3>2
      <4> QED BY <1>2, <2>4, <3>2, <4>1, <4>2
    <3> QED BY <1>3, <3>1, <3>2
  <2>5. ASSUME n \in Leaves(v), NEW y \in Reachable(c) PROVE ~IsStrictPrefix(m.at, y.at)
    <3>1. Lifted(v, s, y) \in Reachable(v)
      BY <1>4, <1>6
    <3>2. IsStrictPrefix(n.at, Lifted(v, s, y).at) <=> IsStrictPrefix(m.at, y.at)
      BY <1>6, <2>2
    <3> QED BY <1>1, <2>5, <3>1, <3>2
  <2>6. n \in Leaves(v) <=> m \in Leaves(c)
    BY <1>1, <1>2, <1>6, <2>1, <2>4, <2>5
  <2> QED BY <2>6 DEF n
<1>7. ASSUME NEW n
      PROVE  n \in Leaves(v) <=>
              \/ n = Root(v) /\ \A s, c : ~KeptKid(v, s, c)
              \/ \E s, c : KeptKid(v, s, c) /\ \E m \in Leaves(c) : n = Lifted(v, s, m)
  <2>1. ASSUME n \in Leaves(v)
        PROVE  \/ n = Root(v) /\ \A s, c : ~KeptKid(v, s, c)
               \/ \E s, c : KeptKid(v, s, c) /\ \E m \in Leaves(c) : n = Lifted(v, s, m)
    <3>1. CASE n = Root(v)
      BY <1>5, <2>1, <3>1
    <3>2. ASSUME NEW s, NEW c, KeptKid(v, s, c), NEW m \in Reachable(c), n = Lifted(v, s, m)
          PROVE  \E ss, cc : KeptKid(v, ss, cc) /\ \E mm \in Leaves(cc) : n = Lifted(v, ss, mm)
      <4>1. m \in Leaves(c)
        BY <1>6, <2>1, <3>2
      <4> QED BY <3>2, <4>1
    <3>3. n \in Reachable(v)
      BY <1>1, <2>1
    <3> QED BY <1>3, <3>1, <3>2, <3>3
  <2>2. ASSUME NEW s, NEW c, KeptKid(v, s, c), NEW m \in Leaves(c), n = Lifted(v, s, m)
        PROVE  n \in Leaves(v)
    <3>1. m \in Reachable(c)
      BY <1>2, <2>2
    <3> QED BY <1>6, <2>2, <3>1
  <2> QED BY <1>5, <2>1, <2>2
<1> QED BY <1>1, <1>7

-----------------------------------------------------------------------------
(* What is kept by sanitizeJsonValue.                                      *)

\* The kids of a list and of an object.
LEMMA KidsOfList ==
  ASSUME NEW xs
  PROVE  \A s, c : HasKid(List(xs), s, c) <=> \E i \in 1..Len(xs) : s = IndexKey(i) /\ c = xs[i]
BY DEF HasKid, List, Arity, StepTo, Child

\* Those of an object are its entries.
LEMMA KidsOfMap ==
  ASSUME NEW V, NEW o \in Seq([key : Key, val : V])
  PROVE  \A s, c : HasKid(EntriesOf(o), s, c) <=> \E e \in ToSet(o) : s = e.key /\ c = e.val
<1>1. DOMAIN o = 1..Len(o)
  OBVIOUS
<1>2. \A s, c : HasKid(EntriesOf(o), s, c) <=>
        \E i \in 1..Len(o) : s = o[i].key /\ c = o[i].val
  BY DEF HasKid, EntriesOf, Arity, StepTo, Child
<1>3. \A e : e \in ToSet(o) <=> \E i \in DOMAIN o : e = o[i]
  BY DEF ToSet
<1> QED BY <1>1, <1>2, <1>3

\* What is built of a value has what is built of the kids that are kept.
LEMMA PrunedKids ==
  ASSUME NEW v \in Value
  PROVE  /\ Pruned[v] \in Value /\ Pruned[v].t = v.t /\ Root(Pruned[v]) = Root(v)
         /\ v.t = "scalar" => Pruned[v] = v
         /\ \A s, d : HasKid(Pruned[v], s, d) <=> \E c : KeptKid(v, s, c) /\ d = Pruned[c]
<1>1. Pruned[v] \in Value /\ Pruned[v] = PrunedOf(v, Pruned)
  BY Pruning
<1>2. /\ v.t \in {"scalar", "list", "map"} /\ Arity(v) \in Nat
      /\ \A i \in 1..Arity(v) : v.t = "list" =>
           StepTo(v, i) = IndexKey(i) /\ StepTo(v, i) \notin PollutionKeys
      /\ \A i \in 1..Arity(v) : v.t \in {"list", "map"}
  BY KidsAreBelow
<1>3. CASE v.t = "scalar"
  <2>1. Pruned[v] = v
    BY <1>1, <1>3 DEF PrunedOf
  <2>2. \A s, d : ~HasKid(v, s, d)
    BY <1>2, <1>3 DEF HasKid
  <2> QED BY <1>1, <1>3, <2>1, <2>2 DEF KeptKid
<1>4. CASE v.t = "list"
  <2> DEFINE xs == [i \in 1..Arity(v) |-> Pruned[Child(v, i)]]
  <2>1. Pruned[v] = List(xs)
    BY <1>1, <1>4 DEF PrunedOf
  <2>2. Len(xs) = Arity(v) /\ \A i \in 1..Arity(v) : xs[i] = Pruned[Child(v, i)]
    BY <1>2
  <2> HIDE DEF xs
  <2>3. \A s, d : HasKid(Pruned[v], s, d) <=>
          \E i \in 1..Arity(v) : s = IndexKey(i) /\ d = Pruned[Child(v, i)]
    BY <2>1, <2>2, KidsOfList
  <2>4. \A s, d : HasKid(Pruned[v], s, d) <=> \E c : KeptKid(v, s, c) /\ d = Pruned[c]
    BY <1>2, <1>4, <2>3 DEF KeptKid, HasKid
  <2>5. Pruned[v].t = "list" /\ Root(Pruned[v]) = Root(v)
    BY <1>4, <2>1 DEF List, Root, IsScalar
  <2> QED BY <1>1, <1>4, <2>4, <2>5
<1>5. CASE v.t = "map"
  <2> DEFINE es == PrunedEntries(v, Pruned)
             I  == KeptKids(v)
             o  == Sift(es, I)
             V  == Value
  <2>1. Pruned[v] = EntriesOf(o)
    BY <1>1, <1>5, PrunedMap DEF PrunedOf
  <2>2. \A i \in 1..Arity(v) : Pruned[Child(v, i)] \in V
    BY KidsAreBelow, Pruning
  <2> HIDE DEF V
  <2>3. /\ es \in Seq([key : Key, val : V]) /\ DOMAIN es = 1..Arity(v)
        /\ \A i \in 1..Arity(v) : es[i].key = StepTo(v, i) /\ es[i].val = Pruned[Child(v, i)]
        /\ \A i, j \in DOMAIN es : es[i].key = es[j].key => i = j
    <3> HIDE DEF es
    <3>1. LET xs == PrunedEntries(v, Pruned) IN
          /\ xs \in Seq([key : Key, val : V])
          /\ DOMAIN xs = 1..Arity(v)
          /\ \A i \in 1..Arity(v) : xs[i].key = StepTo(v, i) /\ xs[i].val = Pruned[Child(v, i)]
          /\ \A i, j \in DOMAIN xs : xs[i].key = xs[j].key => i = j
      BY <2>2, PrunedEntriesFit
    <3> QED BY <3>1 DEF es
  <2> HIDE DEF es, I
  <2>4. /\ o \in Objects(V)
        /\ \A x : x \in ToSet(o) <=> \E i \in DOMAIN es : i \in I /\ x = es[i]
    <3>1. es \in Seq([key : Key, val : V]) /\ \A i, j \in DOMAIN es : es[i].key = es[j].key => i = j
      BY <2>3
    <3> QED BY <3>1, SiftedEntries
  <2> HIDE DEF o
  <2>5. o \in Seq([key : Key, val : V])
    BY <2>4 DEF Objects
  <2>6. \A s, d : HasKid(Pruned[v], s, d) <=> \E e \in ToSet(o) : s = e.key /\ d = e.val
    <3>1. \A s, d : HasKid(EntriesOf(o), s, d) <=> \E e \in ToSet(o) : s = e.key /\ d = e.val
      BY <2>5, KidsOfMap
    <3> QED BY <2>1, <3>1
  <2>7. \A s, d : HasKid(Pruned[v], s, d) <=>
          \E i \in 1..Arity(v) : i \in KeptKids(v) /\ s = StepTo(v, i) /\ d = Pruned[Child(v, i)]
    <3>1. \A e : e \in ToSet(o) <=> \E i \in 1..Arity(v) : i \in I /\ e = es[i]
      BY <2>3, <2>4
    <3> QED BY <2>3, <2>6, <3>1 DEF I
  <2>8. \A s, d : HasKid(Pruned[v], s, d) <=> \E c : KeptKid(v, s, c) /\ d = Pruned[c]
    BY <2>7 DEF KeptKid, HasKid, KeptKids
  <2>9. Pruned[v].t = "map" /\ Root(Pruned[v]) = Root(v)
    BY <1>5, <2>1 DEF EntriesOf, Root, IsScalar
  <2> QED BY <1>1, <1>5, <2>8, <2>9
<1> QED BY <1>2, <1>3, <1>4, <1>5

\* The value that sanitizeJsonValue builds has the nodes that no dropped key leads
\* to, as they are, and no others.
THEOREM PrunedKeepsNodes ==
  \A v \in Value : Nodes[Pruned[v]] = Reachable(v)
<1> DEFINE P == {v \in Value : Nodes[Pruned[v]] = Reachable(v)}
<1>1. ASSUME NEW v \in Value, \A s, c : HasKid(v, s, c) => c \in P
      PROVE  v \in P
  <2>1. /\ Pruned[v] \in Value /\ Pruned[v].t = v.t /\ Root(Pruned[v]) = Root(v)
        /\ \A s, d : HasKid(Pruned[v], s, d) <=> \E c : KeptKid(v, s, c) /\ d = Pruned[c]
    BY PrunedKids
  <2>2. \A s, n : Lifted(Pruned[v], s, n) = Lifted(v, s, n)
    BY <2>1 DEF Lifted
  <2>3. \A n : n \in Nodes[Pruned[v]] <=>
          \/ n = Root(v)
          \/ \E s, d : HasKid(Pruned[v], s, d) /\ \E m \in Nodes[d] : n = Lifted(v, s, m)
    BY <2>1, <2>2, NodesBelow
  <2>4. \A s, c : KeptKid(v, s, c) => Nodes[Pruned[c]] = Reachable(c)
    BY <1>1 DEF KeptKid
  <2>5. \A n : n \in Nodes[Pruned[v]] <=>
          \/ n = Root(v)
          \/ \E s, c : KeptKid(v, s, c) /\ \E m \in Reachable(c) : n = Lifted(v, s, m)
    <3> SUFFICES ASSUME NEW n
                 PROVE  (\E s, d : HasKid(Pruned[v], s, d)
                                     /\ \E m \in Nodes[d] : n = Lifted(v, s, m))
                        <=> \E s, c : KeptKid(v, s, c)
                                         /\ \E m \in Reachable(c) : n = Lifted(v, s, m)
      BY <2>3, Zenon
    <3>1. ASSUME NEW s, NEW d, HasKid(Pruned[v], s, d), NEW m \in Nodes[d],
                 n = Lifted(v, s, m)
          PROVE  \E t, c : KeptKid(v, t, c) /\ \E x \in Reachable(c) : n = Lifted(v, t, x)
      BY <2>1, <2>4, <3>1
    <3>2. ASSUME NEW s, NEW c, KeptKid(v, s, c), NEW m \in Reachable(c),
                 n = Lifted(v, s, m)
          PROVE  \E t, d : HasKid(Pruned[v], t, d) /\ \E x \in Nodes[d] : n = Lifted(v, t, x)
      <4>1. HasKid(Pruned[v], s, Pruned[c]) /\ m \in Nodes[Pruned[c]]
        BY <2>1, <2>4, <3>2
      <4> QED BY <3>2, <4>1
    <3> QED BY <3>1, <3>2
  <2>6. \A n : n \in Nodes[Pruned[v]] <=> n \in Reachable(v)
    BY <2>5, ReachableBelow
  <2> QED BY <2>6
<1> HIDE DEF P
<1>2. \A v \in Value : v \in P
  BY <1>1, KidInduction
<1> QED BY <1>2 DEF P

-----------------------------------------------------------------------------
(* The cells that flattenToRow writes are the leaves.                      *)

Plain(v) == \A n \in Leaves(v) : <<NoText>> \notin ToSet(n.at)

CellAt(prefix, n)  == [key |-> CellKey(prefix \o FlattenSeq(n.at)), val |-> Cell(n)]
HasCell(prefix, n) == prefix # <<>> \/ n.at # <<>> \/ n.t = "scalar"

IsPrefixOfKeys(prefix) == prefix = <<>> \/ ~Falsy(prefix)

WritesLeaves(v) ==
  \A prefix \in Seq(STRING) : IsPrefixOfKeys(prefix) /\ Plain(v) =>
    \A x : x \in ToSet(FlattenToRow[Pruned[v]][prefix]) <=>
             \E n \in Leaves(v) : HasCell(prefix, n) /\ x = CellAt(prefix, n)

\* A value has no kids when its arity is zero.
LEMMA NoKids ==
  ASSUME NEW v \in Value
  PROVE  Arity(v) = 0 <=> \A s, c : ~HasKid(v, s, c)
<1>1. Arity(v) \in Nat
  BY KidsAreBelow
<1>2. ASSUME Arity(v) # 0 PROVE \E s, c : HasKid(v, s, c)
  <2>1. 1 \in 1..Arity(v)
    BY <1>1, <1>2
  <2> QED BY <2>1 DEF HasKid
<1>3. ASSUME Arity(v) = 0, NEW s, NEW c, HasKid(v, s, c) PROVE FALSE
  <2>1. PICK i \in 1..Arity(v) : TRUE
    BY <1>3 DEF HasKid
  <2> QED BY <1>3, <2>1
<1> QED BY <1>2, <1>3

\* The cells of a container are those of its kids, under longer prefixes.
LEMMA FlattenBelow ==
  ASSUME NEW v \in Value, ~IsScalar(v), Arity(v) # 0, NEW prefix \in Seq(STRING)
  PROVE  \A x : x \in ToSet(FlattenToRow[v][prefix]) <=>
           \E s, c : HasKid(v, s, c) /\ x \in ToSet(FlattenToRow[c][Join(prefix, s)])
<1> DEFINE ss == [i \in 1..Arity(v) |-> FlattenToRow[Child(v, i)][Join(prefix, StepTo(v, i))]]
<1>1. FlattenToRow[v][prefix] = FlattenSeq(ss)
  <2>1. FlattenToRow[v] = RowOf(v, FlattenToRow)
    BY Flattening
  <2> QED BY <2>1 DEF RowOf
<1>2. ASSUME NEW i \in 1..Arity(v)
      PROVE  FlattenToRow[Child(v, i)][Join(prefix, StepTo(v, i))] \in Row
  <2>1. Join(prefix, StepTo(v, i)) \in Seq(STRING)
    BY KidsAreBelow, PrefixesAreKeys
  <2> QED BY <2>1, KidsAreBelow, Flattening
<1>3. /\ ss \in [1..Arity(v) -> Row] /\ Arity(v) \in Nat
      /\ \A i \in 1..Arity(v) : ss[i] = FlattenToRow[Child(v, i)][Join(prefix, StepTo(v, i))]
  BY <1>2, KidsAreBelow
<1> HIDE DEF ss
<1>4. \A x : x \in ToSet(FlattenSeq(ss)) <=> \E i \in 1..Arity(v) : x \in ToSet(ss[i])
  BY <1>3, FlattenedMap DEF Row
<1>5. ASSUME NEW x
      PROVE  (\E i \in 1..Arity(v) : x \in ToSet(ss[i])) <=>
             \E s, c : HasKid(v, s, c) /\ x \in ToSet(FlattenToRow[c][Join(prefix, s)])
  BY <1>3 DEF HasKid
<1> QED BY <1>1, <1>4, <1>5

\* The key of a cell is the prefix and what follows on the way to the leaf.
LEMMA LeafPath ==
  ASSUME NEW prefix \in Seq(STRING), IsPrefixOfKeys(prefix), NEW key \in Key, key # <<NoText>>,
         NEW at \in Seq(Key)
  PROVE  /\ Join(prefix, key) \in Seq(STRING) /\ ~Falsy(Join(prefix, key))
         /\ Join(prefix, key) # <<>>
         /\ Join(prefix, key) \o FlattenSeq(at) = prefix \o FlattenSeq(<<key>> \o at)
<1>1. key \in Seq(STRING) /\ key # <<>> /\ Len(key) \in Nat /\ Len(prefix) \in Nat /\ Len(key) # 0
  BY EmptySeq DEF Key
<1>2. Join(prefix, key) = prefix \o key
  <2>1. CASE prefix = <<>>
    <3>1. prefix \o key = key
      BY <1>1, <2>1, ConcatEmptySeq
    <3> QED BY <2>1, <3>1 DEF Join, Falsy
  <2>2. CASE ~Falsy(prefix)
    BY <2>2 DEF Join
  <2> QED BY <2>1, <2>2 DEF IsPrefixOfKeys
<1>3. Join(prefix, key) \in Seq(STRING) /\ Join(prefix, key) # <<>>
  BY PrefixesAreKeys DEF Key
<1>4. ~Falsy(Join(prefix, key))
  <2>1. CASE prefix = <<>>
    BY <1>1, <2>1 DEF Join, Falsy
  <2>2. CASE prefix # <<>>
    <3>1. Len(prefix) # 0
      BY <2>2, EmptySeq
    <3>2. Len(prefix \o key) = Len(prefix) + Len(key)
      BY <1>1, ConcatProperties
    <3>3. Len(<<NoText>>) = 1
      OBVIOUS
    <3>4. Len(prefix \o key) # Len(<<NoText>>)
      BY <1>1, <3>1, <3>2, <3>3
    <3> QED BY <1>2, <1>3, <3>4 DEF Falsy
  <2> QED BY <2>1, <2>2
<1>5. /\ FlattenSeq(<<key>> \o at) = key \o FlattenSeq(at)
      /\ FlattenSeq(at) \in Seq(STRING)
  <2>1. at \in Seq(Seq(STRING))
    <3>1. Key \subseteq Seq(STRING)
      BY DEF Key
    <3> QED BY <3>1, SeqsGrow
  <2> QED BY <1>1, <2>1, FlattenFirst, FlattenMembers
<1>6. (prefix \o key) \o FlattenSeq(at) = prefix \o (key \o FlattenSeq(at))
  BY <1>1, <1>5, ConcatAssociative
<1> QED BY <1>2, <1>3, <1>4, <1>5, <1>6

\* The leaves of a kid have what follows on their way.
LEMMA LeafCells ==
  ASSUME NEW v \in Value, NEW s, NEW c, KeptKid(v, s, c), NEW m \in Leaves(c),
         s # <<NoText>>, NEW prefix \in Seq(STRING), IsPrefixOfKeys(prefix)
  PROVE  LET n == Lifted(v, s, m) IN
         /\ CellAt(prefix, n) = CellAt(Join(prefix, s), m)
         /\ HasCell(prefix, n) /\ HasCell(Join(prefix, s), m)
<1>1. HasKid(v, s, c) /\ s \in Key /\ c \in Value
  BY KidsAreKids DEF KeptKid
<1>2. m \in Reachable(c)
  BY <1>1, LeavesBelow
<1> DEFINE n == Lifted(v, s, m)
<1>3. m \in Spot /\ n.at = <<s>> \o m.at /\ n.at # <<>> /\ n.t = m.t /\ n.v = m.v
  BY <1>1, <1>2, LiftedBelow
<1> HIDE DEF n
<1>4. m.at \in Seq(Key)
  BY <1>3 DEF Spot
<1>5. /\ Join(prefix, s) # <<>>
      /\ Join(prefix, s) \o FlattenSeq(m.at) = prefix \o FlattenSeq(<<s>> \o m.at)
  BY <1>1, <1>4, LeafPath
<1>6. Cell(n) = Cell(m)
  BY <1>3 DEF Cell, ScalarToCell
<1>7. CellAt(prefix, n) = CellAt(Join(prefix, s), m)
  BY <1>3, <1>5, <1>6 DEF CellAt
<1>8. HasCell(prefix, n) /\ HasCell(Join(prefix, s), m)
  BY <1>3, <1>5 DEF HasCell
<1> QED BY <1>7, <1>8 DEF n

\* A value without the empty key has kids without it, and under other keys.
LEMMA PlainKids ==
  ASSUME NEW v \in Value, Plain(v), NEW s, NEW c, KeptKid(v, s, c)
  PROVE  Plain(c) /\ (Leaves(c) # {} => s # <<NoText>>)
<1>1. ASSUME NEW m \in Leaves(c)
      PROVE  <<NoText>> \notin ToSet(m.at) /\ s # <<NoText>>
  <2>1. HasKid(v, s, c) /\ s \in Key /\ c \in Value
    BY KidsAreKids DEF KeptKid
  <2>2. m \in Reachable(c) /\ Lifted(v, s, m) \in Leaves(v)
    BY <2>1, LeavesBelow
  <2>3. m \in Spot /\ Lifted(v, s, m).at = <<s>> \o m.at
    BY <2>1, <2>2, LiftedBelow
  <2>4. m.at \in Seq(Key) /\ <<s>> \in Seq(Key)
    BY <2>1, <2>3 DEF Spot
  <2>5. ToSet(<<s>> \o m.at) = ToSet(<<s>>) \cup ToSet(m.at)
    BY <2>4, ConcatMembers
  <2>6. <<NoText>> \notin ToSet(<<s>> \o m.at)
    BY <2>2, <2>3 DEF Plain
  <2>7. s \in ToSet(<<s>>)
    BY DEF ToSet
  <2> QED BY <2>5, <2>6, <2>7
<1> QED BY <1>1 DEF Plain

\* Every value has a leaf.
LEMMA LeavesExist ==
  \A v \in Value : Leaves(v) # {}
<1> DEFINE P == {v \in Value : Leaves(v) # {}}
<1>1. ASSUME NEW v \in Value, \A s, c : HasKid(v, s, c) => c \in P
      PROVE  v \in P
  <2>1. CASE \A s, c : ~KeptKid(v, s, c)
    <3>1. Root(v) \in Leaves(v)
      BY <2>1, LeavesBelow
    <3> QED BY <3>1
  <2>2. ASSUME NEW s, NEW c, KeptKid(v, s, c) PROVE v \in P
    <3>1. PICK m : m \in Leaves(c)
      BY <1>1, <2>2 DEF KeptKid
    <3>2. Lifted(v, s, m) \in Leaves(v)
      BY <2>2, <3>1, LeavesBelow
    <3> QED BY <3>2
  <2> QED BY <2>1, <2>2
<1> HIDE DEF P
<1>2. \A v \in Value : v \in P
  BY <1>1, KidInduction
<1> QED BY <1>2 DEF P

\* The cells of a value with kept kids are those of these.
LEMMA KidsWriteLeaves ==
  ASSUME NEW v \in Value, \A s, c : KeptKid(v, s, c) => WritesLeaves(c),
         \E s, c : KeptKid(v, s, c)
  PROVE  WritesLeaves(v)
<1> SUFFICES ASSUME NEW prefix \in Seq(STRING), IsPrefixOfKeys(prefix), Plain(v), NEW x
             PROVE  x \in ToSet(FlattenToRow[Pruned[v]][prefix]) <=>
                      \E n \in Leaves(v) : HasCell(prefix, n) /\ x = CellAt(prefix, n)
  BY DEF WritesLeaves
<1> DEFINE w == Pruned[v]
<1>1. /\ w \in Value /\ w.t = v.t
      /\ \A s, d : HasKid(w, s, d) <=> \E c : KeptKid(v, s, c) /\ d = Pruned[c]
  BY PrunedKids
<1> HIDE DEF w
<1>2. ~IsScalar(w) /\ Arity(w) # 0
  <2>1. \E s, d : HasKid(w, s, d)
    BY <1>1
  <2> QED BY <1>1, <2>1, NoKids, KidsAreKids DEF IsScalar
<1>3. x \in ToSet(FlattenToRow[w][prefix]) <=>
        \E s, d : HasKid(w, s, d) /\ x \in ToSet(FlattenToRow[d][Join(prefix, s)])
  BY <1>1, <1>2, FlattenBelow
<1>4. ASSUME NEW s, NEW c, KeptKid(v, s, c)
      PROVE  x \in ToSet(FlattenToRow[Pruned[c]][Join(prefix, s)]) <=>
               \E m \in Leaves(c) : x = CellAt(prefix, Lifted(v, s, m))
  <2>1. HasKid(v, s, c) /\ s \in Key /\ c \in Value
    BY <1>4, KidsAreKids DEF KeptKid
  <2>2. Plain(c) /\ s # <<NoText>>
    BY <1>4, <2>1, PlainKids, LeavesExist
  <2>3. Join(prefix, s) \in Seq(STRING) /\ IsPrefixOfKeys(Join(prefix, s))
    <3>1. <<>> \in Seq(Key)
      OBVIOUS
    <3> QED BY <2>1, <2>2, <3>1, LeafPath DEF IsPrefixOfKeys
  <2>4. x \in ToSet(FlattenToRow[Pruned[c]][Join(prefix, s)]) <=>
          \E m \in Leaves(c) : HasCell(Join(prefix, s), m) /\ x = CellAt(Join(prefix, s), m)
    BY <1>4, <2>2, <2>3 DEF WritesLeaves
  <2>5. \A m \in Leaves(c) : /\ CellAt(prefix, Lifted(v, s, m)) = CellAt(Join(prefix, s), m)
                             /\ HasCell(Join(prefix, s), m)
    BY <1>4, <2>2, LeafCells
  <2> QED BY <2>4, <2>5
<1>5. ASSUME NEW s, NEW c, KeptKid(v, s, c), NEW m \in Leaves(c)
      PROVE  HasCell(prefix, Lifted(v, s, m)) /\ Lifted(v, s, m) \in Leaves(v)
  <2>1. c \in Value
    BY <1>5, KidsAreKids DEF KeptKid
  <2>2. s # <<NoText>>
    BY <1>5, <2>1, PlainKids, LeavesExist
  <2>3. Lifted(v, s, m) \in Leaves(v)
    BY <1>5, LeavesBelow
  <2> QED BY <1>5, <2>2, <2>3, LeafCells
<1>6. ASSUME x \in ToSet(FlattenToRow[w][prefix])
      PROVE  \E n \in Leaves(v) : HasCell(prefix, n) /\ x = CellAt(prefix, n)
  <2>1. PICK s, d : HasKid(w, s, d) /\ x \in ToSet(FlattenToRow[d][Join(prefix, s)])
    BY <1>3, <1>6
  <2>2. PICK c : KeptKid(v, s, c) /\ d = Pruned[c]
    BY <1>1, <2>1
  <2>3. PICK m \in Leaves(c) : x = CellAt(prefix, Lifted(v, s, m))
    BY <1>4, <2>1, <2>2
  <2> QED BY <1>5, <2>2, <2>3
<1>7. ASSUME NEW n \in Leaves(v), HasCell(prefix, n), x = CellAt(prefix, n)
      PROVE  x \in ToSet(FlattenToRow[w][prefix])
  <2>1. PICK s, c : KeptKid(v, s, c) /\ \E m \in Leaves(c) : n = Lifted(v, s, m)
    BY LeavesBelow
  <2>2. x \in ToSet(FlattenToRow[Pruned[c]][Join(prefix, s)])
    BY <1>4, <1>7, <2>1
  <2>3. HasKid(w, s, Pruned[c])
    BY <1>1, <2>1
  <2> QED BY <1>3, <2>2, <2>3
<1> QED BY <1>6, <1>7 DEF w

\* So the row of a value is its leaves.
LEMMA RowsAreLeaves ==
  \A v \in Value : WritesLeaves(v)
<1> DEFINE P == {v \in Value : WritesLeaves(v)}
<1>1. ASSUME NEW v \in Value, \A s, c : HasKid(v, s, c) => c \in P
      PROVE  v \in P
  <2>1. /\ Pruned[v] \in Value /\ Pruned[v].t = v.t
        /\ v.t = "scalar" => Pruned[v] = v
        /\ \A s, d : HasKid(Pruned[v], s, d) <=> \E c : KeptKid(v, s, c) /\ d = Pruned[c]
    BY PrunedKids
  <2>2. /\ Root(v).at = <<>> /\ Root(v).t = v.t
        /\ Root(v).v = IF v.t = "scalar" THEN v.v ELSE NoText
    BY RootSpot
  <2> SUFFICES ASSUME NEW prefix \in Seq(STRING), IsPrefixOfKeys(prefix), Plain(v), NEW x
               PROVE  x \in ToSet(FlattenToRow[Pruned[v]][prefix]) <=>
                        \E n \in Leaves(v) : HasCell(prefix, n) /\ x = CellAt(prefix, n)
    BY DEF WritesLeaves
  <2>3. prefix \o FlattenSeq(<<>>) = prefix
    <3>1. FlattenSeq(<<>>) = <<>>
      BY DEF FlattenSeq
    <3> QED BY <3>1, ConcatEmptySeq
  <2>4. \A a, b : b \in ToSet(<<a>>) <=> b = a
    BY DEF ToSet
  <2>5. \A b : b \notin ToSet(<<>>)
    BY DEF ToSet
  <2>6. CASE \E s, c : KeptKid(v, s, c)
    <3>1. \A s, c : KeptKid(v, s, c) => WritesLeaves(c)
      BY <1>1 DEF KeptKid
    <3>2. WritesLeaves(v)
      BY <2>6, <3>1, KidsWriteLeaves
    <3> QED BY <3>2 DEF WritesLeaves
  <2>7. CASE \A s, c : ~KeptKid(v, s, c)
    <3>1. \A n : n \in Leaves(v) <=> n = Root(v)
      BY <2>7, LeavesBelow
    <3>2. CASE v.t = "scalar"
      <4>1. Pruned[v] = v /\ IsScalar(v)
        BY <2>1, <3>2 DEF IsScalar
      <4>2. FlattenToRow[v][prefix] = <<[key |-> CellKey(prefix), val |-> ScalarToCell(v)]>>
        BY <4>1, ScalarRow
      <4>3. Cell(Root(v)) = ScalarToCell(v)
        BY <2>2, <3>2 DEF Cell, ScalarToCell
      <4>4. /\ CellAt(prefix, Root(v)) = [key |-> CellKey(prefix), val |-> ScalarToCell(v)]
            /\ HasCell(prefix, Root(v))
        BY <2>2, <2>3, <3>2, <4>3 DEF CellAt, HasCell
      <4> QED BY <2>4, <3>1, <4>1, <4>2, <4>4
    <3>3. CASE v.t # "scalar"
      <4>1. Arity(Pruned[v]) = 0
        BY <2>1, <2>7, NoKids
      <4>2. FlattenToRow[Pruned[v]][prefix] = EmptyCell(prefix)
        <5>1. FlattenToRow[Pruned[v]] = RowOf(Pruned[v], FlattenToRow)
          BY <2>1, Flattening
        <5> QED BY <2>1, <3>3, <4>1, <5>1 DEF RowOf, IsScalar
      <4>3. Cell(Root(v)) = NoText
        BY <2>2, <3>3 DEF Cell
      <4>4. CASE prefix = <<>>
        <5>1. ~HasCell(prefix, Root(v)) /\ EmptyCell(prefix) = <<>>
          BY <2>2, <3>3, <4>4 DEF HasCell, EmptyCell, Falsy
        <5> QED BY <2>5, <3>1, <4>2, <5>1
      <4>5. CASE prefix # <<>> /\ ~Falsy(prefix)
        <5>1. CellKey(prefix) = prefix /\ HasCell(prefix, Root(v))
          BY <4>5 DEF CellKey, HasCell
        <5>2. EmptyCell(prefix) = <<[key |-> prefix, val |-> NoText]>>
          BY <4>5 DEF EmptyCell
        <5>3. CellAt(prefix, Root(v)) = [key |-> prefix, val |-> NoText]
          BY <2>2, <2>3, <4>3, <5>1 DEF CellAt
        <5> QED BY <2>4, <3>1, <4>2, <5>1, <5>2, <5>3
      <4> QED BY <4>4, <4>5 DEF IsPrefixOfKeys, Falsy
    <3> QED BY <3>2, <3>3
  <2> QED BY <2>6, <2>7
<1> HIDE DEF P
<1>2. \A v \in Value : v \in P
  BY <1>1, KidInduction
<1> QED BY <1>2 DEF P

-----------------------------------------------------------------------------
(* The lines of a table.                                                   *)

\* The items of what is kept are what is kept of the items.
LEMMA PrunedItems ==
  ASSUME NEW v \in Value
  PROVE  /\ Items(v) \in Seq(Value) /\ DOMAIN Items(Pruned[v]) = DOMAIN Items(v)
         /\ \A i \in DOMAIN Items(v) : Items(Pruned[v])[i] = Pruned[Items(v)[i]]
<1>1. Pruned[v] = PrunedOf(v, Pruned) /\ Pruned[v].t = v.t
  BY Pruning, PrunedKids
<1>2. CASE v.t = "list"
  <2>1. PICK n \in Nat : n = MaxNesting /\ n # 0 /\ n - 1 \in Nat /\ n - 1 =< n
                         /\ v.items \in Lists(ValuesUpTo[n - 1])
    BY <1>2, FormAssumption, ValueShape DEF Value
  <2>2. v.items \in Seq(ValuesUpTo[n - 1]) /\ ValuesUpTo[n - 1] \subseteq Value
    BY <2>1, ValueLevelsGrow DEF Lists, Value
  <2>3. v.items \in Seq(Value)
    BY <2>2, SeqsGrow
  <2>4. DOMAIN v.items = 1..Len(v.items) /\ Arity(v) = Len(v.items)
        /\ \A i \in 1..Arity(v) : Child(v, i) = v.items[i]
    BY <1>2, <2>3 DEF Arity, Child
  <2>5. Pruned[v] = List([i \in 1..Arity(v) |-> Pruned[Child(v, i)]])
    BY <1>1, <1>2 DEF PrunedOf
  <2>6. Items(Pruned[v]) = [i \in 1..Arity(v) |-> Pruned[Child(v, i)]]
    BY <2>5 DEF Items, List
  <2>7. Items(v) = v.items
    BY <1>2 DEF Items
  <2> QED BY <2>3, <2>4, <2>6, <2>7
<1>3. CASE v.t # "list"
  <2>1. Items(v) = <<v>> /\ Items(Pruned[v]) = <<Pruned[v]>>
    BY <1>1, <1>3 DEF Items
  <2>2. <<v>> \in Seq(Value)
    OBVIOUS
  <2> QED BY <2>1, <2>2
<1> QED BY <1>2, <1>3

\* Each line has the cells of its item under the headers of all.
LEMMA LinesOfItems ==
  ASSUME NEW v \in Value, ValueToRecords(Pruned[v]).headers # <<>>, NEW i \in DOMAIN Items(v)
  PROVE  LET records == ValueToRecords(Pruned[v])
             table   == CsvTable(records)
             row     == JsObject(FlattenToRow[Pruned[Items(v)[i]]][<<>>]) IN
         /\ Items(v)[i] \in Value
         /\ i \in DOMAIN records.rows /\ records.rows[i] = CompleteRow(row, table.header)
         /\ table.header \in Seq(Key) /\ ToSet(Keys(row)) \subseteq ToSet(table.header)
         /\ table.lines[i] = [c \in DOMAIN table.header |->
                                CompleteRow(row, table.header)[table.header[c]]]
<1> DEFINE w     == Pruned[v]
           items == Items(w)
           rows  == [j \in DOMAIN items |-> JsObject(FlattenToRow[items[j]][<<>>])]
           ks    == [j \in DOMAIN rows |-> Keys(rows[j])]
           headers == UnionHeaders(rows)
           complete == [j \in DOMAIN rows |-> CompleteRow(rows[j], headers)]
           table == CsvTable(ValueToRecords(w))
<1>1. /\ Items(v) \in Seq(Value) /\ DOMAIN items = DOMAIN Items(v)
      /\ \A j \in DOMAIN Items(v) : items[j] = Pruned[Items(v)[j]]
  BY PrunedItems
<1>2. /\ Len(Items(v)) \in Nat /\ DOMAIN Items(v) = 1..Len(Items(v))
      /\ \A j \in DOMAIN Items(v) : Items(v)[j] \in Value
  BY <1>1
<1>3. ValueToRecords(w) = [headers |-> headers, rows |-> complete]
  BY DEF ValueToRecords
<1>4. rows[i] = JsObject(FlattenToRow[Pruned[Items(v)[i]]][<<>>])
      /\ DOMAIN rows = 1..Len(Items(v))
  BY <1>1, <1>2
<1>5. ASSUME NEW j \in 1..Len(Items(v))
      PROVE  Keys(rows[j]) \in Seq(Key)
  <2>1. <<>> \in Seq(STRING)
    OBVIOUS
  <2>2. Pruned[Items(v)[j]] \in Value
    BY <1>2, Pruning
  <2>3. FlattenToRow[Pruned[Items(v)[j]]][<<>>] \in Seq([key : Key, val : STRING])
    BY <2>1, <2>2, Flattening DEF Row
  <2>4. rows[j] = JsObject(FlattenToRow[Pruned[Items(v)[j]]][<<>>])
    BY <1>1, <1>2
  <2> HIDE DEF rows
  <2>5. rows[j] \in Objects(STRING)
    BY <2>3, <2>4, ObjectMembers
  <2> QED BY <2>5, ObjectKeys
<1> HIDE DEF rows, items, w
<1>6. /\ ks \in [1..Len(Items(v)) -> Seq(Key)]
      /\ \A j \in 1..Len(Items(v)) : ks[j] = Keys(rows[j])
      /\ headers = Distinct(FlattenSeq(ks))
  BY <1>4, <1>5 DEF UnionHeaders
<1> HIDE DEF ks
<1>7. FlattenSeq(ks) \in Seq(Key)
      /\ \A x : x \in ToSet(FlattenSeq(ks)) <=> \E j \in 1..Len(Items(v)) : x \in ToSet(ks[j])
  BY <1>2, <1>6, FlattenedMap
<1>8. headers \in Seq(Key) /\ ToSet(headers) = ToSet(FlattenSeq(ks))
  BY <1>6, <1>7, DistinctMembers
<1>9. ToSet(Keys(rows[i])) \subseteq ToSet(headers)
  BY <1>2, <1>6, <1>7, <1>8
<1> HIDE DEF headers
<1>10. /\ table.header = headers
       /\ table.lines[i] = [c \in DOMAIN headers |-> CompleteRow(rows[i], headers)[headers[c]]]
       /\ i \in DOMAIN ValueToRecords(w).rows
       /\ ValueToRecords(w).rows[i] = CompleteRow(rows[i], headers)
  <2>1. \A hs, rs : [headers |-> hs, rows |-> rs].headers = hs
                    /\ [headers |-> hs, rows |-> rs].rows = rs
    OBVIOUS
  <2>2. ValueToRecords(w).headers = headers /\ ValueToRecords(w).rows = complete
    BY <1>3, <2>1
  <2>3. i \in DOMAIN complete /\ complete[i] = CompleteRow(rows[i], headers)
    BY <1>2, <1>4
  <2> HIDE DEF complete
  <2>4. table.lines[i] = [c \in DOMAIN headers |-> complete[i][headers[c]]]
    BY <2>2, <2>3 DEF CsvTable
  <2>5. table.header = headers
    BY <2>2 DEF CsvTable
  <2> QED BY <2>2, <2>3, <2>4, <2>5
<1> HIDE DEF table
<1>11. /\ Items(v)[i] \in Value
       /\ i \in DOMAIN ValueToRecords(w).rows
       /\ ValueToRecords(w).rows[i] = CompleteRow(rows[i], table.header)
       /\ table.header \in Seq(Key) /\ ToSet(Keys(rows[i])) \subseteq ToSet(table.header)
       /\ table.lines[i] = [c \in DOMAIN table.header |->
                              CompleteRow(rows[i], table.header)[table.header[c]]]
  BY <1>2, <1>8, <1>9, <1>10
<1> QED BY <1>4, <1>11 DEF table, w

\* A prefix that is not empty stays so.
LEMMA LongerPrefix ==
  ASSUME NEW a \in Seq(STRING), NEW b \in Seq(STRING), ~Falsy(a), a # <<>>
  PROVE  ~Falsy(a \o b) /\ a \o b \in Seq(STRING)
<1>1. a \o b \in Seq(STRING) /\ Len(a \o b) = Len(a) + Len(b)
      /\ Len(a) \in Nat /\ Len(b) \in Nat /\ Len(a) # 0
  BY ConcatProperties, EmptySeq
<1>2. CASE b = <<>>
  BY <1>1, <1>2, ConcatEmptySeq
<1>3. CASE b # <<>>
  <2>1. Len(b) # 0
    BY <1>3, EmptySeq
  <2>2. Len(<<NoText>>) = 1 /\ Len(<<>>) = 0
    OBVIOUS
  <2>3. Len(a \o b) # Len(<<NoText>>) /\ Len(a \o b) # Len(<<>>)
    BY <1>1, <2>1, <2>2
  <2> QED BY <1>1, <2>3 DEF Falsy
<1> QED BY <1>1, <1>2, <1>3

\* The name of a leaf is the key of its cell.
LEMMA LeafName ==
  ASSUME NEW v \in Value, Plain(v), NEW n \in Leaves(v)
  PROVE  CellAt(<<>>, n).key = (IF n.at = <<>> THEN <<"value">> ELSE FlattenSeq(n.at))
         /\ CellAt(<<>>, n).val = Cell(n)
<1>0. CellAt(<<>>, n).key = CellKey(<<>> \o FlattenSeq(n.at)) /\ CellAt(<<>>, n).val = Cell(n)
  BY DEF CellAt
<1>1. CASE n = Root(v)
  <2>1. n.at = <<>>
    BY <1>1, RootSpot
  <2>2. FlattenSeq(<<>>) = <<>> /\ <<>> \o <<>> = <<>>
    BY ConcatEmptySeq DEF FlattenSeq
  <2> QED BY <1>0, <2>1, <2>2 DEF CellKey, Falsy
<1>2. ASSUME NEW s, NEW c, KeptKid(v, s, c), NEW m \in Leaves(c), n = Lifted(v, s, m)
      PROVE  CellAt(<<>>, n).key = (IF n.at = <<>> THEN <<"value">> ELSE FlattenSeq(n.at))
  <2>1. HasKid(v, s, c) /\ s \in Key /\ c \in Value
    BY <1>2, KidsAreKids DEF KeptKid
  <2>2. m \in Reachable(c)
    BY <2>1, LeavesBelow
  <2>3. m \in Spot /\ n.at = <<s>> \o m.at /\ n.at # <<>>
    BY <1>2, <2>1, <2>2, LiftedBelow
  <2>4. m.at \in Seq(Key) /\ <<>> \in Seq(STRING) /\ IsPrefixOfKeys(<<>>)
    BY <2>3 DEF Spot, IsPrefixOfKeys
  <2>5. s # <<NoText>>
    BY <1>2, <2>1, PlainKids, LeavesExist
  <2> DEFINE a == Join(<<>>, s)
             b == FlattenSeq(m.at)
  <2>6. /\ a \in Seq(STRING) /\ ~Falsy(a) /\ a # <<>>
        /\ a \o b = <<>> \o FlattenSeq(<<s>> \o m.at)
    BY <2>1, <2>4, <2>5, LeafPath
  <2>7. /\ b \in Seq(STRING)
        /\ FlattenSeq(n.at) \in Seq(STRING)
    <3>1. Key \subseteq Seq(STRING)
      BY DEF Key
    <3>2. \A s2 \in Seq(Key) : s2 \in Seq(Seq(STRING))
      BY <3>1, SeqsGrow
    <3>3. n.at \in Seq(Key)
      BY <2>1, <2>3, <2>4, LongerPath
    <3> QED BY <2>4, <3>2, <3>3, FlattenMembers
  <2> HIDE DEF a, b
  <2>8. ~Falsy(a \o b)
    BY <2>6, <2>7, LongerPrefix
  <2>9. <<>> \o FlattenSeq(n.at) = FlattenSeq(n.at)
    BY <2>7, ConcatEmptySeq
  <2> QED BY <1>0, <2>3, <2>6, <2>8, <2>9 DEF CellKey
<1>3. n = Root(v) \/ \E s, c : KeptKid(v, s, c) /\ \E m \in Leaves(c) : n = Lifted(v, s, m)
  BY LeavesBelow
<1> QED BY <1>0, <1>1, <1>2, <1>3

-----------------------------------------------------------------------------
(* The names of XML output.                                                *)

\* What is known of the strings that names are made of.
LEMMA PartFacts ==
  /\ NoText \in STRING /\ Underscore \in STRING /\ "#text" \in STRING
  /\ "root" \in STRING /\ "item" \in STRING
  /\ \A x \in KnownParts : x \in STRING /\ x \notin ToSet(IndexParts) /\ x \notin AttributeParts
  /\ \A x \in Pollution : x \in KnownParts
  /\ NoText \in KnownParts /\ Underscore \in KnownParts /\ "#text" \in KnownParts
  /\ "root" \in KnownParts /\ "item" \in KnownParts
  /\ \A part \in ToSet(IndexParts) : part \in STRING
<1>1. /\ KnownParts \subseteq STRING /\ ToSet(IndexParts) \cap KnownParts = {}
      /\ AttributeParts \cap (KnownParts \cup ToSet(IndexParts)) = {}
      /\ IndexParts \in Seq(STRING)
  BY FormAssumption
<1>2. /\ NoText \in KnownParts /\ Underscore \in KnownParts /\ "#text" \in KnownParts
      /\ "root" \in KnownParts /\ "item" \in KnownParts
      /\ \A x \in Pollution : x \in KnownParts
  BY DEF KnownParts
<1>3. \A part \in ToSet(IndexParts) : part \in STRING
  BY <1>1 DEF ToSet
<1> QED BY <1>1, <1>2, <1>3

\* A part, once it is safe and begins like a name.
LEMMA SafeParts ==
  ASSUME NEW part \in STRING
  PROVE  /\ SafePart(part) \in STRING /\ Begun(part) \in STRING
         /\ SafePart(part) # "#text"
         /\ Begun(part) = "#text" => part = "#text"
         /\ part \in {"root", "item"} => SafePart(part) = part /\ Begun(part) = part
<1>1. /\ Replaced \in [DOMAIN Replaced -> STRING] /\ Prefixed \in [DOMAIN Prefixed -> STRING]
      /\ "#text" \in DOMAIN Replaced
      /\ "#text" \notin Range(Replaced) /\ "#text" \notin Range(Prefixed)
      /\ {"root", "item"} \cap (DOMAIN Replaced \cup DOMAIN Prefixed) = {}
  BY FormAssumption
<1>2. \A x \in DOMAIN Replaced : Replaced[x] \in Range(Replaced) /\ Replaced[x] \in STRING
  BY <1>1 DEF Range
<1>3. \A x \in DOMAIN Prefixed : Prefixed[x] \in Range(Prefixed) /\ Prefixed[x] \in STRING
  BY <1>1 DEF Range
<1>4. SafePart(part) \in STRING /\ SafePart(part) # "#text"
  BY <1>1, <1>2 DEF SafePart
<1>5. Begun(part) \in STRING /\ (Begun(part) = "#text" => part = "#text")
  <2>1. Underscore # "#text"
    BY DEF Underscore
  <2> QED BY <1>1, <1>3, <2>1, PartFacts DEF Begun
<1>6. ASSUME part \in {"root", "item"} PROVE SafePart(part) = part /\ Begun(part) = part
  <2>1. part # NoText
    BY <1>6 DEF NoText
  <2> QED BY <1>1, <1>6, <2>1 DEF SafePart, Begun
<1> QED BY <1>4, <1>5, <1>6

\* A key of one part.
LEMMA OnePart ==
  \A s \in STRING : <<s>> \in Key /\ (<<s>>)[1] = s /\ DOMAIN <<s>> = {1}
<1>1. \A X : \A s \in X : <<s>> \in Seq(X) /\ <<s>> # <<>> /\ (<<s>>)[1] = s /\ DOMAIN <<s>> = {1}
  OBVIOUS
<1>2. \A s \in STRING :
        <<s>> \in Seq(STRING) /\ <<s>> # <<>> /\ (<<s>>)[1] = s /\ DOMAIN <<s>> = {1}
  BY <1>1, Zenon
<1> QED BY <1>2, Zenon DEF Key

\* The name of a key is a key, and that of the text no other key's.
LEMMA NamesAreKeys ==
  ASSUME NEW key \in Key
  PROVE  /\ ToXmlName(key) \in Key
         /\ ToXmlName(key) = TextKey <=> key = TextKey
<1> DEFINE name == [i \in DOMAIN key |-> IF i = 1 THEN Begun(SafePart(key[1])) ELSE SafePart(key[i])]
<1>1. key \in Seq(STRING) /\ key # <<>> /\ Len(key) \in Nat \ {0} /\ DOMAIN key = 1..Len(key)
      /\ \A i \in 1..Len(key) : key[i] \in STRING
  <2>1. key \in Seq(STRING) /\ key # <<>>
    BY DEF Key
  <2>2. \A X : \A s \in Seq(X) : s # <<>> =>
          Len(s) \in Nat \ {0} /\ DOMAIN s = 1..Len(s) /\ \A i \in 1..Len(s) : s[i] \in X
    BY EmptySeq
  <2> QED BY <2>1, <2>2, Zenon
<1>2. CASE IsInline(key)
  BY <1>2 DEF ToXmlName
<1>3. CASE ~IsInline(key)
  <2>1. ToXmlName(key) = name
    BY <1>3 DEF ToXmlName
  <2>2. \A i \in 1..Len(key) : name[i] \in STRING
    <3> SUFFICES ASSUME NEW i \in 1..Len(key) PROVE name[i] \in STRING
      OBVIOUS
    <3>1. key[1] \in STRING /\ key[i] \in STRING
      BY <1>1
    <3>2. SafePart(key[1]) \in STRING /\ SafePart(key[i]) \in STRING
      BY <3>1, SafeParts
    <3>3. Begun(SafePart(key[1])) \in STRING
      BY <3>2, SafeParts
    <3> QED BY <1>1, <3>2, <3>3
  <2>3. name \in [1..Len(key) -> STRING] /\ name[1] = Begun(SafePart(key[1]))
    BY <1>1, <2>2
  <2> HIDE DEF name
  <2>4. name \in Seq(STRING) /\ name # <<>>
    <3>1. \A Z : \A n \in Nat : \A t \in [1..n -> Z] : t \in Seq(Z) /\ Len(t) = n
      OBVIOUS
    <3>2. name \in Seq(STRING) /\ Len(name) = Len(key)
      BY <1>1, <2>3, <3>1
    <3> QED BY <1>1, <3>2, EmptySeq
  <2>5. name \in Key
    BY <2>4 DEF Key
  <2>6. key # TextKey
    BY <1>3 DEF IsInline
  <2>7. name # TextKey
    <3>1. key[1] \in STRING
      BY <1>1
    <3>2. SafePart(key[1]) \in STRING /\ SafePart(key[1]) # "#text"
      BY <3>1, SafeParts
    <3>3. name[1] # "#text"
      BY <2>3, <3>2, SafeParts
    <3>4. TextKey[1] = "#text"
      BY DEF TextKey
    <3> QED BY <3>3, <3>4
  <2> QED BY <2>1, <2>5, <2>6, <2>7
<1> QED BY <1>2, <1>3

\* The names of the elements around a document stay as they are.
LEMMA FixedNames ==
  ASSUME NEW s \in {"root", "item"}
  PROVE  /\ <<s>> \in Key /\ ToXmlName(<<s>>) = <<s>>
         /\ <<s>> \notin PollutionKeys /\ <<s>> # TextKey
<1> DEFINE k == <<s>>
<1>1. s \in STRING /\ s \in KnownParts
  BY PartFacts
<1>2. k \in Key /\ k[1] = s /\ DOMAIN k = {1}
  BY <1>1, OnePart
<1>3. k \notin PollutionKeys
  <2>1. \A x \in PollutionKeys : x[1] \in Pollution
    BY DEF PollutionKeys
  <2>2. s \notin Pollution
    BY DEF Pollution
  <2> QED BY <1>2, <2>1, <2>2
<1>4. k # TextKey
  <2>1. TextKey[1] = "#text"
    BY DEF TextKey
  <2> QED BY <1>2, <2>1
<1> HIDE DEF k
<1>5. ~IsInline(k)
  BY <1>1, <1>2, <1>4, PartFacts DEF IsInline
<1>6. ToXmlName(k) = k
  <2>1. SafePart(s) = s /\ Begun(SafePart(s)) = s
    BY <1>1, SafeParts
  <2>2. ToXmlName(k) = [i \in DOMAIN k |-> IF i = 1 THEN Begun(SafePart(k[1])) ELSE SafePart(k[i])]
    BY <1>5 DEF ToXmlName
  <2>3. ToXmlName(k) = [i \in {1} |-> s]
    BY <1>2, <2>1, <2>2
  <2>4. k = [i \in {1} |-> s]
    BY DEF k
  <2> QED BY <2>3, <2>4
<1> QED BY <1>2, <1>3, <1>4, <1>6 DEF k

-----------------------------------------------------------------------------
(* What XML output is made of.                                             *)

PreparedEntries(v, prepared) ==
  [i \in 1..Arity(v) |-> [key |-> ToXmlName(StepTo(v, i)), val |-> prepared[Child(v, i)]]]

PreparedOf(v, prepared) ==
  IF v.t = "list" THEN List([i \in 1..Arity(v) |-> prepared[Child(v, i)]])
  ELSE IF v.t = "map" THEN EntriesOf(JsObject(PreparedEntries(v, prepared)))
  ELSE Scalar(ScalarToCell(v))

\* The entries of a map, each under the name of its key.
LEMMA PreparedEntriesFit ==
  ASSUME NEW v \in Value, NEW V, NEW prepared, \A i \in 1..Arity(v) : prepared[Child(v, i)] \in V
  PROVE  LET es == PreparedEntries(v, prepared) IN
         /\ es \in Seq([key : Key, val : V])
         /\ DOMAIN es = 1..Arity(v)
         /\ \A i \in 1..Arity(v) : /\ es[i].key = ToXmlName(StepTo(v, i))
                                   /\ es[i].val = prepared[Child(v, i)]
<1> DEFINE es == PreparedEntries(v, prepared)
<1>1. /\ Arity(v) \in Nat
      /\ \A i \in 1..Arity(v) : ToXmlName(StepTo(v, i)) \in Key
  BY KidsAreBelow, NamesAreKeys
<1>2. /\ DOMAIN es = 1..Arity(v)
      /\ \A i \in 1..Arity(v) :
           /\ es[i] = [key |-> ToXmlName(StepTo(v, i)), val |-> prepared[Child(v, i)]]
           /\ es[i].key = ToXmlName(StepTo(v, i)) /\ es[i].val = prepared[Child(v, i)]
  BY DEF PreparedEntries
<1>3. es = [i \in 1..Arity(v) |-> es[i]]
  BY DEF PreparedEntries
<1> HIDE DEF es
<1>4. es \in [1..Arity(v) -> [key : Key, val : V]]
  BY <1>1, <1>2, <1>3
<1>5. \A Z : \A n \in Nat : \A t \in [1..n -> Z] : t \in Seq(Z)
  OBVIOUS
<1>6. es \in Seq([key : Key, val : V])
  BY <1>1, <1>4, <1>5
<1> QED BY <1>2, <1>6 DEF es

\* The cell of a scalar is a text, and its own cell.
LEMMA CellsAreTexts ==
  \A v : v.v \in STRING => ScalarToCell(v) \in STRING
<1>1. NoText \in STRING
  BY PartFacts
<1> QED BY <1>1 DEF ScalarToCell

\* What is built of a value is no deeper.
LEMMA PreparedFits ==
  ASSUME NEW v \in Value, NEW prepared,
         \A i \in 1..Arity(v) : prepared[Child(v, i)] \in ValuesUpTo[ValueDepth[Child(v, i)]]
  PROVE  PreparedOf(v, prepared) \in ValuesUpTo[ValueDepth[v]]
<1> DEFINE n == ValueDepth[v]
<1>1. n \in Nat /\ v \in ValuesUpTo[n]
  BY ValueDepths DEF IsValueDepth
<1>2. ASSUME NEW i \in 1..Arity(v)
      PROVE  n # 0 /\ prepared[Child(v, i)] \in ValuesUpTo[n - 1]
  <2>1. ValueDepth[Child(v, i)] \in Nat /\ ValueDepth[Child(v, i)] < n
    BY KidsAreBelow
  <2>2. n # 0 /\ n - 1 \in Nat /\ ValueDepth[Child(v, i)] =< n - 1
    BY <1>1, <2>1
  <2>3. ValuesUpTo[ValueDepth[Child(v, i)]] \subseteq ValuesUpTo[n - 1]
    BY <2>1, <2>2, ValueLevelsGrow
  <2> QED BY <2>2, <2>3
<1>3. Arity(v) \in Nat /\ v.t \in {"scalar", "list", "map"}
  BY KidsAreBelow
<1> HIDE DEF n
<1>4. CASE v.t = "list"
  <2>1. n # 0 /\ v.items \in Lists(ValuesUpTo[n - 1]) /\ Arity(v) = Len(v.items)
    BY <1>1, <1>4, ValueShape DEF Arity
  <2> DEFINE xs == [i \in 1..Arity(v) |-> prepared[Child(v, i)]]
  <2>2. xs \in [1..Arity(v) -> ValuesUpTo[n - 1]]
    BY <1>2
  <2>3. \A Z : \A k \in Nat : \A t \in [1..k -> Z] : t \in Seq(Z) /\ Len(t) = k
    OBVIOUS
  <2> HIDE DEF xs
  <2>4. xs \in Lists(ValuesUpTo[n - 1])
    BY <1>3, <2>1, <2>2, <2>3 DEF Lists
  <2>5. List(xs) \in ValuesUpTo[n]
    BY <1>1, <2>1, <2>4, ValueForms
  <2> QED BY <1>4, <2>5 DEF PreparedOf, xs, n
<1>5. CASE v.t = "map"
  <2> DEFINE V == ValuesUpTo[n - 1]
             es == PreparedEntries(v, prepared)
  <2>1. n # 0
    BY <1>1, <1>5, ValueShape
  <2>2. \A i \in 1..Arity(v) : prepared[Child(v, i)] \in V
    BY <1>2
  <2> HIDE DEF V
  <2>3. es \in Seq([key : Key, val : V])
    BY <2>2, PreparedEntriesFit
  <2> HIDE DEF es
  <2>4. JsObject(es) \in Objects(V)
    BY <2>3, ObjectMembers
  <2>5. EntriesOf(JsObject(es)) \in ValuesUpTo[n]
    BY <1>1, <2>1, <2>4, ValueForms DEF V
  <2> QED BY <1>5, <2>5 DEF PreparedOf, n, es
<1>6. CASE v.t = "scalar"
  <2>1. ScalarToCell(v) \in STRING
    BY <1>1, <1>6, ValueShape, CellsAreTexts
  <2>2. Scalar(ScalarToCell(v)) \in ValuesUpTo[n]
    BY <1>1, <2>1, ValueForms
  <2> QED BY <1>6, <2>2 DEF PreparedOf, n
<1> QED BY <1>3, <1>4, <1>5, <1>6

\* What is built of a value depends on what is built of its kids.
LEMMA PreparedLooksDown ==
  ASSUME NEW v, NEW f, NEW g, \A i \in 1..Arity(v) : f[Child(v, i)] = g[Child(v, i)]
  PROVE  PreparedOf(v, f) = PreparedOf(v, g)
<1>1. [i \in 1..Arity(v) |-> f[Child(v, i)]] = [i \in 1..Arity(v) |-> g[Child(v, i)]]
  OBVIOUS
<1>2. PreparedEntries(v, f) = PreparedEntries(v, g)
  BY DEF PreparedEntries
<1> QED BY <1>1, <1>2 DEF PreparedOf

\* So the definition of PrepareXmlNode defines a function.
LEMMA Preparing ==
  \A v \in Value :
    PrepareXmlNode[v] \in ValuesUpTo[ValueDepth[v]] /\ PrepareXmlNode[v] \in Value
      /\ PrepareXmlNode[v] = PreparedOf(v, PrepareXmlNode)
<1> DEFINE V == Value
           T == [v \in Value |-> ValuesUpTo[ValueDepth[v]]]
           F == {g \in [Value -> V] : \A v \in Value : g[v] \in T[v]}
           D == [v \in Value |-> [g \in F |-> PreparedOf(v, g)]]
           Solves(f) == f = [v \in Value |-> PreparedOf(v, f)]
<1>1. \A v \in Value : \A g \in F : D[v][g] = PreparedOf(v, g)
  OBVIOUS
<1>2. \A v \in Value : T[v] = ValuesUpTo[ValueDepth[v]]
  OBVIOUS
<1>3. ASSUME NEW v \in Value
      PROVE  v \in T[v] /\ T[v] \subseteq V
  <2>1. /\ ValueDepth[v] \in Nat /\ v \in ValuesUpTo[ValueDepth[v]]
        /\ ValueDepth[v] =< MaxNesting /\ MaxNesting \in Nat
    BY ValueDepths, FormAssumption DEF IsValueDepth
  <2>2. ValuesUpTo[ValueDepth[v]] \subseteq Value
    BY <2>1, ValueLevelsGrow DEF Value
  <2> QED BY <1>2, <2>1, <2>2
<1>4. T \in [Value -> SUBSET V]
  BY <1>3
<1>5. \A g \in F : g = [v \in Value |-> g[v]]
  OBVIOUS
<1>6. F = {g \in [Value -> V] : \A v \in Value : g[v] \in T[v]}
  OBVIOUS
<1>7. \A g \in F : \A v \in Value : g[v] \in T[v]
  OBVIOUS
<1> HIDE DEF T, F
<1>8. ASSUME NEW v \in Value, NEW g \in F
      PROVE  PreparedOf(v, g) \in T[v]
  <2>1. \A i \in 1..Arity(v) : g[Child(v, i)] \in ValuesUpTo[ValueDepth[Child(v, i)]]
    BY <1>2, <1>7, KidsAreBelow
  <2> QED BY <1>2, <2>1, PreparedFits
<1>9. D \in [Value -> [F -> V]]
  BY <1>3, <1>8
<1> HIDE DEF D
<1>10. \A v \in Value : \A g, h \in F :
        (\A i \in 1..Arity(v) : g[Child(v, i)] = h[Child(v, i)]) => D[v][g] = D[v][h]
  BY <1>1, PreparedLooksDown
<1>11. \E f \in F : \A v \in Value : f[v] = D[v][f]
  <2> HIDE DEF V
  <2>1. IsValueRecursive(V, T, F, D)
    <3>1. \A v \in Value : \A g \in F : D[v][g] \in T[v]
      BY <1>1, <1>8
    <3>2. \A v \in Value : T[v] # {}
      BY <1>3
    <3> QED BY <1>4, <1>6, <1>9, <1>10, <3>1, <3>2, Zenon DEF IsValueRecursive
  <2> QED BY <2>1, ValueRecursion
<1>12. PICK f \in F : \A v \in Value : f[v] = PreparedOf(v, f)
  BY <1>1, <1>11
<1>13. Solves(f)
  BY <1>5, <1>12
<1>14. PrepareXmlNode = CHOOSE g : Solves(g)
  BY DEF PrepareXmlNode, PreparedOf, PreparedEntries
<1>15. Solves(PrepareXmlNode)
  <2> HIDE DEF Solves
  <2> QED BY <1>13, <1>14
<1>16. \A v \in Value : PrepareXmlNode[v] = PreparedOf(v, PrepareXmlNode)
  BY <1>15
<1> DEFINE P == {v \in Value : PrepareXmlNode[v] = f[v]}
<1>17. \A v \in Value : (\A i \in 1..Arity(v) : Child(v, i) \in P) => v \in P
  BY <1>12, <1>16, PreparedLooksDown
<1> HIDE DEF P
<1>18. \A v \in Value : v \in P
  BY <1>17, ValueInduction
<1> QED BY <1>2, <1>3, <1>7, <1>16, <1>18 DEF P

-----------------------------------------------------------------------------
(* The elements of XML output, and what shows a value.                     *)

\* The step to what is written of a kid: a name for a key, an index for an index.
StepWritten(v, r) == IF v.t = "map" THEN ToXmlName(r) ELSE r

ElementStep == [tag : Key, nth : Nat]

\* The elements below a value, by what is right below it.
LEMMA TaggedBelow ==
  ASSUME NEW v
  PROVE  \A x : x \in Tagged(v) <=>
           \E s, c : HasKid(v, s, c) /\ s # TextKey /\ \E j \in DOMAIN Repeated(c) :
             x = [step |-> [tag |-> s, nth |-> j], val |-> Repeated(c)[j]]
<1>1. \A k : k \in Kids(v) <=> \E s, c : HasKid(v, s, c) /\ k = [step |-> s, val |-> c]
  BY DEF Kids, HasKid
<1>2. \A x : x \in Tagged(v) <=>
        \E k \in Kids(v) : k.step # TextKey /\ \E j \in DOMAIN Repeated(k.val) :
          x = [step |-> [tag |-> k.step, nth |-> j], val |-> Repeated(k.val)[j]]
  BY DEF Tagged
<1>3. \A s, c : [step |-> s, val |-> c].step = s /\ [step |-> s, val |-> c].val = c
  OBVIOUS
<1>4. ASSUME NEW x, x \in Tagged(v)
      PROVE  \E s, c : HasKid(v, s, c) /\ s # TextKey /\ \E j \in DOMAIN Repeated(c) :
               x = [step |-> [tag |-> s, nth |-> j], val |-> Repeated(c)[j]]
  <2>1. PICK k : k \in Kids(v) /\ k.step # TextKey /\ \E j \in DOMAIN Repeated(k.val) :
          x = [step |-> [tag |-> k.step, nth |-> j], val |-> Repeated(k.val)[j]]
    BY <1>2, <1>4
  <2>2. PICK s, c : HasKid(v, s, c) /\ k = [step |-> s, val |-> c]
    BY <1>1, <2>1
  <2>3. k.step = s /\ k.val = c
    BY <1>3, <2>2
  <2> QED BY <2>1, <2>2, <2>3
<1>5. ASSUME NEW s, NEW c, HasKid(v, s, c), s # TextKey, NEW j \in DOMAIN Repeated(c)
      PROVE  [step |-> [tag |-> s, nth |-> j], val |-> Repeated(c)[j]] \in Tagged(v)
  <2> DEFINE k == [step |-> s, val |-> c]
  <2>1. k \in Kids(v)
    BY <1>1, <1>5
  <2>2. k.step = s /\ k.val = c
    BY <1>3
  <2> HIDE DEF k
  <2> QED BY <1>2, <1>5, <2>1, <2>2
<1> QED BY <1>4, <1>5

LEMMA ShownIsBelow ==
  ASSUME NEW v
  PROVE  \A x : x \in ShownBelow(v) <=>
           \E s, c : KeptKid(v, s, c) /\ s # TextKey /\ \E j \in DOMAIN Repeated(c) :
             x = [step |-> [tag |-> StepWritten(v, s), nth |-> j], val |-> Repeated(c)[j]]
<1>1. \A k : k \in ShownKids(v) <=> \E s, c : KeptKid(v, s, c) /\ k = [step |-> s, val |-> c]
  BY DEF ShownKids, Kids, KeptKid, HasKid
<1>2. \A x : x \in ShownBelow(v) <=>
        \E k \in ShownKids(v) : k.step # TextKey /\ \E j \in DOMAIN Repeated(k.val) :
          x = [step |-> [tag |-> StepWritten(v, k.step), nth |-> j], val |-> Repeated(k.val)[j]]
  BY DEF ShownBelow, Repeated, StepWritten
<1>3. \A s, c : [step |-> s, val |-> c].step = s /\ [step |-> s, val |-> c].val = c
  OBVIOUS
<1>4. ASSUME NEW x, x \in ShownBelow(v)
      PROVE  \E s, c : KeptKid(v, s, c) /\ s # TextKey /\ \E j \in DOMAIN Repeated(c) :
               x = [step |-> [tag |-> StepWritten(v, s), nth |-> j], val |-> Repeated(c)[j]]
  <2>1. PICK k : k \in ShownKids(v) /\ k.step # TextKey /\ \E j \in DOMAIN Repeated(k.val) :
          x = [step |-> [tag |-> StepWritten(v, k.step), nth |-> j], val |-> Repeated(k.val)[j]]
    BY <1>2, <1>4
  <2>2. PICK s, c : KeptKid(v, s, c) /\ k = [step |-> s, val |-> c]
    BY <1>1, <2>1
  <2>3. k.step = s /\ k.val = c
    BY <1>3, <2>2
  <2> QED BY <2>1, <2>2, <2>3
<1>5. ASSUME NEW s, NEW c, KeptKid(v, s, c), s # TextKey, NEW j \in DOMAIN Repeated(c)
      PROVE  [step |-> [tag |-> StepWritten(v, s), nth |-> j], val |-> Repeated(c)[j]] \in ShownBelow(v)
  <2> DEFINE k == [step |-> s, val |-> c]
  <2>1. k \in ShownKids(v)
    BY <1>1, <1>5
  <2>2. k.step = s /\ k.val = c
    BY <1>3
  <2> HIDE DEF k
  <2> QED BY <1>2, <1>5, <2>1, <2>2
<1> QED BY <1>4, <1>5

\* The items of a list.
LEMMA ItemsOfList ==
  ASSUME NEW c \in Value, c.t = "list"
  PROVE  /\ DOMAIN c.items = 1..Arity(c)
         /\ \A j \in 1..Arity(c) : c.items[j] = Child(c, j) /\ HasKid(c, IndexKey(j), c.items[j])
         /\ \A j \in 1..Arity(c) : j \in DOMAIN IndexParts
<1>1. MaxNesting \in Nat /\ c \in ValuesUpTo[MaxNesting]
  BY FormAssumption DEF Value
<1>2. c.items \in Lists(ValuesUpTo[MaxNesting - 1])
  BY <1>1, ValueShape
<1>3. DOMAIN c.items = 1..Len(c.items) /\ Len(c.items) \in Nat /\ Len(c.items) =< Len(IndexParts)
  BY <1>2 DEF Lists
<1>4. Arity(c) = Len(c.items)
  BY DEF Arity
<1>5. \A j \in 1..Arity(c) : j \in DOMAIN IndexParts
  BY <1>3, <1>4, IndexFacts
<1> QED BY <1>3, <1>5 DEF Arity, Child, HasKid, StepTo

\* What is repeated below a key is lower.
LEMMA RepeatedIsLower ==
  ASSUME NEW v \in Value, NEW s, NEW c, HasKid(v, s, c), NEW j \in DOMAIN Repeated(c)
  PROVE  /\ s \in Key /\ c \in Value /\ j \in Nat
         /\ Repeated(c)[j] \in Value
         /\ ValueDepth[Repeated(c)[j]] \in Nat /\ ValueDepth[Repeated(c)[j]] < ValueDepth[v]
<1>1. s \in Key /\ c \in Value /\ ValueDepth[c] \in Nat /\ ValueDepth[c] < ValueDepth[v]
  BY KidsAreBelow DEF HasKid
<1>2. ValueDepth[v] \in Nat
  BY ValueDepths DEF IsValueDepth
<1>3. CASE c.t = "list"
  <2>1. j \in 1..Arity(c) /\ Repeated(c)[j] = Child(c, j) /\ Arity(c) \in Nat
    BY <1>1, <1>3, ItemsOfList, KidsAreBelow DEF Repeated
  <2>2. Child(c, j) \in Value /\ ValueDepth[Child(c, j)] \in Nat
        /\ ValueDepth[Child(c, j)] < ValueDepth[c]
    BY <1>1, <2>1, KidsAreBelow
  <2> QED BY <1>1, <1>2, <2>1, <2>2
<1>4. CASE c.t # "list"
  <2>1. Repeated(c) = <<c>>
    BY <1>4 DEF Repeated
  <2>2. j = 1 /\ Repeated(c)[j] = c
    BY <2>1
  <2> QED BY <1>1, <2>2
<1> QED BY <1>3, <1>4

LEMMA TaggedIsLower ==
  ASSUME NEW v \in Value, NEW b \in Tagged(v)
  PROVE  /\ b.step \in ElementStep /\ b.val \in Value
         /\ ValueDepth[b.val] \in Nat /\ ValueDepth[b.val] < ValueDepth[v]
<1>1. PICK s, c : HasKid(v, s, c) /\ s # TextKey /\ \E j \in DOMAIN Repeated(c) :
        b = [step |-> [tag |-> s, nth |-> j], val |-> Repeated(c)[j]]
  BY TaggedBelow
<1>2. PICK j \in DOMAIN Repeated(c) : b = [step |-> [tag |-> s, nth |-> j], val |-> Repeated(c)[j]]
  BY <1>1
<1>3. /\ s \in Key /\ j \in Nat /\ Repeated(c)[j] \in Value
      /\ ValueDepth[Repeated(c)[j]] \in Nat /\ ValueDepth[Repeated(c)[j]] < ValueDepth[v]
  BY <1>1, RepeatedIsLower
<1>4. b.step = [tag |-> s, nth |-> j] /\ b.val = Repeated(c)[j]
  BY <1>2
<1> QED BY <1>3, <1>4 DEF ElementStep

LEMMA ShownIsLower ==
  ASSUME NEW v \in Value, NEW b \in ShownBelow(v)
  PROVE  /\ b.step \in ElementStep /\ b.val \in Value
         /\ ValueDepth[b.val] \in Nat /\ ValueDepth[b.val] < ValueDepth[v]
<1>1. PICK s, c : KeptKid(v, s, c) /\ s # TextKey /\ \E j \in DOMAIN Repeated(c) :
        b = [step |-> [tag |-> StepWritten(v, s), nth |-> j], val |-> Repeated(c)[j]]
  BY ShownIsBelow
<1>2. PICK j \in DOMAIN Repeated(c) :
        b = [step |-> [tag |-> StepWritten(v, s), nth |-> j], val |-> Repeated(c)[j]]
  BY <1>1
<1>3. /\ s \in Key /\ j \in Nat /\ Repeated(c)[j] \in Value
      /\ ValueDepth[Repeated(c)[j]] \in Nat /\ ValueDepth[Repeated(c)[j]] < ValueDepth[v]
  BY <1>1, RepeatedIsLower DEF KeptKid
<1>4. StepWritten(v, s) \in Key
  BY <1>3, NamesAreKeys DEF StepWritten
<1>5. b.step = [tag |-> StepWritten(v, s), nth |-> j] /\ b.val = Repeated(c)[j]
  BY <1>2
<1> QED BY <1>3, <1>4, <1>5 DEF ElementStep

ElementsOf(v, elements) ==
  {[at |-> <<>>, text |-> TextOf(v)]}
    \cup UNION {Behind(below.step, elements[below.val]) : below \in Tagged(v)}

\* The elements further down.
LEMMA BehindMembers ==
  ASSUME NEW step, NEW es, \A e \in es : e = [at |-> e.at, text |-> e.text]
  PROVE  \A x : x \in Behind(step, es) <=>
           \E e \in es : x = [at |-> <<step>> \o e.at, text |-> e.text]
<1>1. \A e \in es : [e EXCEPT !.at = <<step>> \o @] = [at |-> <<step>> \o e.at, text |-> e.text]
  <2> SUFFICES ASSUME NEW e \in es
               PROVE  [e EXCEPT !.at = <<step>> \o @] = [at |-> <<step>> \o e.at, text |-> e.text]
    OBVIOUS
  <2>1. \A y : [e EXCEPT !.at = y] = [at |-> y, text |-> e.text]
    OBVIOUS
  <2> QED BY <2>1, Zenon
<1> QED BY <1>1 DEF Behind

LEMMA BehindFits ==
  ASSUME NEW Text, NEW step \in ElementStep, NEW es \in SUBSET [at : Seq(ElementStep), text : Text]
  PROVE  Behind(step, es) \in SUBSET [at : Seq(ElementStep), text : Text]
<1>1. \A e \in es : e = [at |-> e.at, text |-> e.text]
  OBVIOUS
<1>2. \A x : x \in Behind(step, es) <=>
        \E e \in es : x = [at |-> <<step>> \o e.at, text |-> e.text]
  BY <1>1, BehindMembers
<1>3. \A e \in es : <<step>> \o e.at \in Seq(ElementStep) /\ e.text \in Text
  <2> SUFFICES ASSUME NEW e \in es
               PROVE  <<step>> \o e.at \in Seq(ElementStep) /\ e.text \in Text
    OBVIOUS
  <2>1. e.at \in Seq(ElementStep) /\ e.text \in Text
    OBVIOUS
  <2> QED BY <2>1, LongerPath
<1>4. \A x \in Behind(step, es) : x \in [at : Seq(ElementStep), text : Text]
  BY <1>2, <1>3
<1> QED BY <1>4

LEMMA ElementsFit ==
  ASSUME NEW Text, NEW v, TextOf(v) \in Text, NEW elements,
         \A b \in Tagged(v) : /\ b.step \in ElementStep
                              /\ elements[b.val] \in SUBSET [at : Seq(ElementStep), text : Text]
  PROVE  ElementsOf(v, elements) \in SUBSET [at : Seq(ElementStep), text : Text]
<1>1. <<>> \in Seq(ElementStep)
  OBVIOUS
<1>2. [at |-> <<>>, text |-> TextOf(v)] \in [at : Seq(ElementStep), text : Text]
  BY <1>1
<1>3. \A b \in Tagged(v) :
        Behind(b.step, elements[b.val]) \in SUBSET [at : Seq(ElementStep), text : Text]
  BY BehindFits
<1> QED BY <1>2, <1>3 DEF ElementsOf

\* The definition of XmlElements defines a function.
LEMMA Writing ==
  \A v \in Value : XmlElements[v] = ElementsOf(v, XmlElements)
<1> DEFINE Text == {TextOf(v) : v \in Value}
           V == SUBSET [at : Seq(ElementStep), text : Text]
           T == [v \in Value |-> V]
           F == {g \in [Value -> V] : \A v \in Value : g[v] \in T[v]}
           D == [v \in Value |-> [g \in F |-> ElementsOf(v, g)]]
           Solves(f) == f = [v \in Value |-> ElementsOf(v, f)]
<1>1. \A v \in Value : TextOf(v) \in Text
  OBVIOUS
<1> HIDE DEF Text
<1>2. \A v \in Value : \A g \in F : D[v][g] = ElementsOf(v, g)
  OBVIOUS
<1>3. ASSUME NEW v \in Value, NEW g \in F
      PROVE  ElementsOf(v, g) \in V
  <2>1. g \in [Value -> V]
    OBVIOUS
  <2>2. \A b \in Tagged(v) : b.step \in ElementStep /\ g[b.val] \in V
    BY <2>1, TaggedIsLower
  <2> QED BY <1>1, <2>2, ElementsFit
<1>4. D \in [Value -> [F -> V]] /\ T \in [Value -> SUBSET V] /\ \A v \in Value : T[v] = V
  BY <1>3
<1>5. V # {}
  OBVIOUS
<1>6. \A g \in F : g = [v \in Value |-> g[v]]
  OBVIOUS
<1>7. F = {g \in [Value -> V] : \A v \in Value : g[v] \in T[v]}
  OBVIOUS
<1> HIDE DEF T, F, D
<1>8. \A v \in Value : \A g, h \in F :
        (\A x \in Value : ValueDepth[x] < ValueDepth[v] => g[x] = h[x]) => D[v][g] = D[v][h]
  <2> SUFFICES ASSUME NEW v \in Value, NEW g \in F, NEW h \in F,
                      \A x \in Value : ValueDepth[x] < ValueDepth[v] => g[x] = h[x]
               PROVE  ElementsOf(v, g) = ElementsOf(v, h)
    BY <1>2
  <2>1. \A b \in Tagged(v) : g[b.val] = h[b.val]
    BY TaggedIsLower
  <2>2. {Behind(b.step, g[b.val]) : b \in Tagged(v)} = {Behind(b.step, h[b.val]) : b \in Tagged(v)}
    BY <2>1
  <2> QED BY <2>2 DEF ElementsOf
<1>9. \E f \in F : \A v \in Value : f[v] = D[v][f]
  <2> HIDE DEF V
  <2>1. IsRecursive(Value, V, ValueDepth, T, F, D)
    <3>1. \A v \in Value : \A g \in F : D[v][g] \in T[v]
      BY <1>2, <1>3, <1>4
    <3>2. \A v \in Value : T[v] # {}
      BY <1>4, <1>5
    <3>3. ValueDepth \in [Value -> Nat]
      BY ValueDepths DEF IsValueDepth
    <3> QED BY <1>4, <1>7, <1>8, <3>1, <3>2, <3>3, Zenon DEF IsRecursive
  <2> QED BY <2>1, Recursion
<1>10. PICK f \in F : \A v \in Value : f[v] = ElementsOf(v, f)
  BY <1>2, <1>9
<1>11. Solves(f)
  BY <1>6, <1>10
<1>12. XmlElements = CHOOSE g : Solves(g)
  BY DEF XmlElements, ElementsOf
<1>13. Solves(XmlElements)
  <2> HIDE DEF Solves
  <2> QED BY <1>11, <1>12
<1> QED BY <1>13

ShowsOf(v, shows) ==
  [elements \in SUBSET XmlElement |->
     /\ {e.text : e \in {e \in elements : e.at = <<>>}}
          = (IF ShownTexts(v) = {} THEN {NoText} ELSE {ScalarToCell(t) : t \in ShownTexts(v)})
     /\ \A below \in ShownBelow(v) : shows[below.val][InElement(elements, below.step)]
     /\ \A e \in elements : e.at # <<>> => \E below \in ShownBelow(v) : e.at[1] = below.step]

\* So does that of Shows.
LEMMA Showing ==
  \A v \in Value : Shows[v] = ShowsOf(v, Shows)
<1> DEFINE V == [SUBSET XmlElement -> BOOLEAN]
           T == [v \in Value |-> V]
           F == {g \in [Value -> V] : \A v \in Value : g[v] \in T[v]}
           D == [v \in Value |-> [g \in F |-> ShowsOf(v, g)]]
           Solves(f) == f = [v \in Value |-> ShowsOf(v, f)]
<1>2. \A v \in Value : \A g \in F : D[v][g] = ShowsOf(v, g)
  OBVIOUS
<1>3. ASSUME NEW v, NEW g
      PROVE  ShowsOf(v, g) \in V
  BY Zenon DEF ShowsOf
<1>4. D \in [Value -> [F -> V]] /\ T \in [Value -> SUBSET V] /\ \A v \in Value : T[v] = V
  BY <1>3
<1>5. V # {}
  <2>1. [es \in SUBSET XmlElement |-> TRUE] \in V
    OBVIOUS
  <2> QED BY <2>1, Zenon
<1>6. \A g \in F : g = [v \in Value |-> g[v]]
  OBVIOUS
<1>7. F = {g \in [Value -> V] : \A v \in Value : g[v] \in T[v]}
  OBVIOUS
<1> HIDE DEF T, F, D, V
<1>8. \A v \in Value : \A g, h \in F :
        (\A x \in Value : ValueDepth[x] < ValueDepth[v] => g[x] = h[x]) => D[v][g] = D[v][h]
  <2> SUFFICES ASSUME NEW v \in Value, NEW g \in F, NEW h \in F,
                      \A x \in Value : ValueDepth[x] < ValueDepth[v] => g[x] = h[x]
               PROVE  ShowsOf(v, g) = ShowsOf(v, h)
    BY <1>2
  <2>1. \A b \in ShownBelow(v) : g[b.val] = h[b.val]
    BY ShownIsLower
  <2>2. \A es : (\A b \in ShownBelow(v) : g[b.val][InElement(es, b.step)])
                  = (\A b \in ShownBelow(v) : h[b.val][InElement(es, b.step)])
    BY <2>1, Zenon
  <2> QED BY <2>2, Zenon DEF ShowsOf
<1>9. \E f \in F : \A v \in Value : f[v] = D[v][f]
  <2>1. IsRecursive(Value, V, ValueDepth, T, F, D)
    <3>1. \A v \in Value : \A g \in F : D[v][g] \in T[v]
      BY <1>2, <1>3, <1>4
    <3>2. \A v \in Value : T[v] # {}
      BY <1>4, <1>5
    <3>3. ValueDepth \in [Value -> Nat]
      BY ValueDepths DEF IsValueDepth
    <3> QED BY <1>4, <1>7, <1>8, <3>1, <3>2, <3>3, Zenon DEF IsRecursive
  <2> QED BY <2>1, Recursion
<1>10. PICK f \in F : \A v \in Value : f[v] = ShowsOf(v, f)
  BY <1>2, <1>9
<1>11. Solves(f)
  BY <1>6, <1>10
<1>12. Shows = CHOOSE g : Solves(g)
  BY DEF Shows, ShowsOf
<1>13. Solves(Shows)
  <2> HIDE DEF Solves
  <2> QED BY <1>11, <1>12
<1> QED BY <1>13

-----------------------------------------------------------------------------
(* Values that are not odd, and whose keys have distinct names.            *)

\* The last step of a longer path, and what is before it.
LEMMA LongerEnds ==
  ASSUME NEW X, NEW a \in X, NEW s \in Seq(X), s # <<>>
  PROVE  (<<a>> \o s)[Len(<<a>> \o s)] = s[Len(s)] /\ Front(<<a>> \o s) = <<a>> \o Front(s)
<1> DEFINE p == <<a>> \o s
<1>1. Len(s) \in Nat \ {0} /\ <<a>> \in Seq(X) /\ Len(<<a>>) = 1
  BY EmptySeq
<1>2. /\ p \in Seq(X) /\ p[1] = a /\ Len(p) = Len(s) + 1
      /\ \A i \in 1..Len(s) : p[i + 1] = s[i]
  BY LongerPath
<1>3. SubSeq(p, 2, Len(s)) = SubSeq(s, 1, Len(s) - 1)
  <2>1. CASE Len(s) = 1
    <3>1. SubSeq(p, 2, Len(s)) = <<>> /\ SubSeq(s, 1, Len(s) - 1) = <<>>
      BY <2>1, SubSeqEmpty
    <3> QED BY <3>1
  <2>2. CASE Len(s) # 1
    <3>1. /\ 2 \in Len(<<a>>) + 1 .. Len(<<a>>) + Len(s)
          /\ Len(s) \in Len(<<a>>) + 1 .. Len(<<a>>) + Len(s)
      <4>1. \A n \in Nat \ {0} : n # 1 => 2 \in 1 + 1 .. 1 + n /\ n \in 1 + 1 .. 1 + n
        OBVIOUS
      <4> QED BY <1>1, <2>2, <4>1
    <3>2. SubSeq(<<a>> \o s, 2, Len(s)) = SubSeq(s, 2 - Len(<<a>>), Len(s) - Len(<<a>>))
      BY <1>1, <3>1, SubSeqOfConcat2
    <3> QED BY <1>1, <3>2
  <2> QED BY <2>1, <2>2
<1> HIDE DEF p
<1>4. SubSeq(p, 1, Len(s)) = <<p[1]>> \o SubSeq(p, 1 + 1, Len(s))
  <2>1. 1 \in 1..Len(p) /\ Len(s) \in 1..Len(p)
    BY <1>1, <1>2
  <2> QED BY <1>2, <2>1, SubSeqRecursiveFirst
<1>5. Front(p) = <<a>> \o Front(s)
  BY <1>1, <1>2, <1>3, <1>4 DEF Front
<1>6. p[Len(p)] = s[Len(s)]
  BY <1>1, <1>2
<1> QED BY <1>5, <1>6 DEF p

\* The keyed nodes of a kid, as nodes of the value.
LEMMA KeyedBelow ==
  ASSUME NEW v \in Value, NEW s, NEW c, HasKid(v, s, c), NEW m \in Keyed(c),
         NEW n, n = Lifted(v, s, m)
  PROVE  /\ n \in Keyed(v) /\ LastKey(n) = LastKey(m) /\ n.t = m.t
         /\ n.at = <<s>> \o m.at /\ Front(n.at) = <<s>> \o Front(m.at)
         /\ s \in Key /\ m.at \in Seq(Key)
<1>1. s \in Key /\ c \in Value
  BY KidsAreKids
<1>2. m \in Nodes[c] /\ m.key
  BY DEF Keyed
<1>3. m \in Spot
  BY <1>1, <1>2, Noding
<1>4. m.at \in Seq(Key)
  BY <1>3 DEF Spot
<1>5. m.at # <<>>
  <2>1. m = Root(c) \/ \E r, d : HasKid(c, r, d) /\ \E k \in Nodes[d] : m = Lifted(c, r, k)
    BY <1>1, <1>2, NodesBelow
  <2>2. m # Root(c)
    BY <1>1, <1>2, RootSpot
  <2>3. PICK r, d : HasKid(c, r, d) /\ \E k \in Nodes[d] : m = Lifted(c, r, k)
    BY <2>1, <2>2
  <2>4. PICK k \in Nodes[d] : m = Lifted(c, r, k)
    BY <2>3
  <2>5. r \in Key /\ d \in Value
    BY <1>1, <2>3, KidsAreKids
  <2>6. k \in Spot
    BY <2>4, <2>5, Noding
  <2>7. m.at = <<r>> \o k.at /\ k.at \in Seq(Key)
    <3>1. Lifted(c, r, k).at = <<r>> \o k.at
      BY <1>1, <2>5, <2>6, LiftedSpot
    <3> QED BY <2>4, <2>6, <3>1 DEF Spot
  <2> QED BY <2>5, <2>7, LongerPath
<1>6. n.at = <<s>> \o m.at /\ n.key = m.key /\ n.t = m.t
  BY <1>1, <1>3, <1>5, LiftedSpot
<1>7. n \in Nodes[v]
  BY <1>2, NodesBelow
<1>8. n.at[Len(n.at)] = m.at[Len(m.at)] /\ Front(n.at) = <<s>> \o Front(m.at)
  BY <1>1, <1>4, <1>5, <1>6, LongerEnds
<1>9. n \in Keyed(v) /\ LastKey(n) = LastKey(m)
  BY <1>2, <1>6, <1>7, <1>8 DEF Keyed, LastKey
<1> QED BY <1>1, <1>4, <1>6, <1>8, <1>9

\* The value of a key is a keyed node itself.
LEMMA KeyIsKeyed ==
  ASSUME NEW v \in Value, v.t = "map", NEW s, NEW c, HasKid(v, s, c),
         NEW n, n = Lifted(v, s, Root(c))
  PROVE  n \in Keyed(v) /\ LastKey(n) = s /\ n.t = c.t /\ n.at = <<s>> /\ Front(n.at) = <<>>
<1>1. s \in Key /\ c \in Value
  BY KidsAreKids
<1>2. Root(c) \in Nodes[c] /\ Root(c) \in Spot /\ Root(c).at = <<>> /\ Root(c).t = c.t
  BY <1>1, NodesBelow, RootSpot
<1>3. n \in Nodes[v]
  BY <1>2, NodesBelow
<1>4. n.at = <<s>> \o <<>> /\ n.key = TRUE /\ n.t = c.t
  <2> DEFINE m == Root(c)
  <2>1. m \in Spot /\ m.at = <<>> /\ m.t = c.t
    BY <1>2
  <2> HIDE DEF m
  <2>2. LET x == Lifted(v, s, m) IN
        /\ x.at = <<s>> \o m.at /\ x.t = m.t
        /\ x.key = (IF m.at = <<>> THEN v.t = "map" ELSE m.key)
    BY <1>1, <2>1, LiftedSpot
  <2>3. n = Lifted(v, s, m)
    BY DEF m
  <2> QED BY <2>1, <2>2, <2>3
<1>5. n.at = <<s>>
  <2>1. <<>> \in Seq(Key)
    OBVIOUS
  <2>2. \A X : \A a \in X : \A x \in Seq(X) : x = <<>> => <<a>> \o x = <<a>>
    BY LongerPath
  <2>3. <<s>> \o <<>> = <<s>>
    BY <1>1, <2>1, <2>2
  <2> QED BY <1>4, <2>3
<1>6. Len(<<s>>) = 1 /\ <<s>>[1] = s /\ Front(<<s>>) = <<>>
  <2>1. Len(<<s>>) = 1 /\ <<s>>[1] = s
    OBVIOUS
  <2>2. SubSeq(<<s>>, 1, 1 - 1) = <<>>
    BY SubSeqEmpty
  <2> QED BY <2>1, <2>2 DEF Front
<1>7. n \in Keyed(v) /\ LastKey(n) = s
  BY <1>3, <1>4, <1>5, <1>6 DEF Keyed, LastKey
<1> QED BY <1>4, <1>5, <1>6, <1>7

\* Nothing below a value that can be shown is odd, nor are its own keys.
LEMMA OddBelow ==
  ASSUME NEW v \in Value, ~IsOdd(v), NEW s, NEW c, HasKid(v, s, c)
  PROVE  /\ ~IsOdd(c)
         /\ v.t = "map" /\ s = TextKey => c.t = "scalar"
<1>1. \A n \in Keyed(v) : /\ IsInline(LastKey(n)) => n.t = "scalar"
                          /\ ToXmlName(LastKey(n)) # <<"__proto__">>
  BY DEF IsOdd
<1>2. ~IsOdd(c)
  <2> SUFFICES ASSUME NEW m \in Keyed(c)
               PROVE  /\ IsInline(LastKey(m)) => m.t = "scalar"
                      /\ ToXmlName(LastKey(m)) # <<"__proto__">>
    BY DEF IsOdd
  <2> DEFINE i == Lifted(v, s, m)
  <2>1. i \in Keyed(v) /\ LastKey(i) = LastKey(m) /\ Front(i.at) = <<s>> \o Front(m.at) /\ i.t = m.t
    BY KeyedBelow
  <2> HIDE DEF i
  <2> QED BY <1>1, <2>1
<1>3. ASSUME v.t = "map", s = TextKey PROVE c.t = "scalar"
  <2> DEFINE n == Lifted(v, s, Root(c))
  <2>1. n \in Keyed(v) /\ LastKey(n) = s /\ n.t = c.t
    BY <1>3, KeyIsKeyed
  <2> HIDE DEF n
  <2>2. IsInline(s)
    BY <1>3 DEF IsInline
  <2> QED BY <1>1, <2>1, <2>2
<1> QED BY <1>2, <1>3

\* Names are distinct below it, too, and those of its own keys are.
LEMMA NamesBelow ==
  ASSUME NEW v \in Value, HasDistinctNames(v), NEW s, NEW c, HasKid(v, s, c)
  PROVE  /\ HasDistinctNames(c)
         /\ v.t = "map" => \A r, d : HasKid(v, r, d) /\ ToXmlName(r) = ToXmlName(s) => r = s
<1>1. \A m, n \in Keyed(v) :
        Front(m.at) = Front(n.at) /\ ToXmlName(LastKey(m)) = ToXmlName(LastKey(n)) => m.at = n.at
  BY DEF HasDistinctNames
<1>2. ASSUME NEW m \in Keyed(c), NEW n \in Keyed(c), Front(m.at) = Front(n.at),
             ToXmlName(LastKey(m)) = ToXmlName(LastKey(n))
      PROVE  m.at = n.at
  <2> DEFINE i == Lifted(v, s, m)
             j == Lifted(v, s, n)
  <2>1. /\ i \in Keyed(v) /\ LastKey(i) = LastKey(m) /\ Front(i.at) = <<s>> \o Front(m.at)
        /\ i.at = <<s>> \o m.at /\ m.at \in Seq(Key) /\ s \in Key
    BY KeyedBelow
  <2>3. /\ j \in Keyed(v) /\ LastKey(j) = LastKey(n) /\ Front(j.at) = <<s>> \o Front(n.at)
        /\ j.at = <<s>> \o n.at /\ n.at \in Seq(Key)
    BY KeyedBelow
  <2> HIDE DEF i, j
  <2>2. i.at = j.at
    BY <1>1, <1>2, <2>1, <2>3
  <2>4. <<s>> \o m.at = <<s>> \o n.at
    BY <2>1, <2>2, <2>3
  <2> QED BY <2>1, <2>3, <2>4, OneFirstKey
<1>3. HasDistinctNames(c)
  BY <1>2 DEF HasDistinctNames
<1>4. ASSUME v.t = "map", NEW r, NEW d, HasKid(v, r, d), ToXmlName(r) = ToXmlName(s)
      PROVE  r = s
  <2> DEFINE i == Lifted(v, s, Root(c))
             j == Lifted(v, r, Root(d))
  <2>1. i \in Keyed(v) /\ LastKey(i) = s /\ i.at = <<s>> /\ Front(i.at) = <<>>
    BY <1>4, KeyIsKeyed
  <2>2. j \in Keyed(v) /\ LastKey(j) = r /\ j.at = <<r>> /\ Front(j.at) = <<>>
    BY <1>4, KeyIsKeyed
  <2> HIDE DEF i, j
  <2>3. <<s>> = <<r>>
    BY <1>1, <1>4, <2>1, <2>2
  <2>4. \A a, b : <<a>> = <<b>> => a = b
    OBVIOUS
  <2> QED BY <2>3, <2>4
<1> QED BY <1>3, <1>4

\* What is written of a value has what is written of its kids, each under its name.
LEMMA PreparedKids ==
  ASSUME NEW v \in Value, HasDistinctNames(v)
  PROVE  /\ PrepareXmlNode[v] \in Value /\ PrepareXmlNode[v].t = v.t
         /\ v.t = "scalar" => PrepareXmlNode[v] = Scalar(ScalarToCell(v))
         /\ \A s, d : HasKid(PrepareXmlNode[v], s, d) <=>
              \E r, c : HasKid(v, r, c) /\ s = StepWritten(v, r) /\ d = PrepareXmlNode[c]
<1> DEFINE w == PrepareXmlNode[v]
<1>1. w \in Value /\ w = PreparedOf(v, PrepareXmlNode)
  BY Preparing
<1>2. /\ v.t \in {"scalar", "list", "map"} /\ Arity(v) \in Nat
      /\ \A i \in 1..Arity(v) : v.t = "list" => StepTo(v, i) = IndexKey(i)
      /\ \A i \in 1..Arity(v) : PrepareXmlNode[Child(v, i)] \in Value
  BY KidsAreBelow, Preparing
<1>4. ASSUME \A s, d : HasKid(w, s, d) <=>
               \E i \in 1..Arity(v) : /\ s = StepWritten(v, StepTo(v, i))
                                      /\ d = PrepareXmlNode[Child(v, i)]
      PROVE  \A s, d : HasKid(w, s, d) <=>
               \E r, c : HasKid(v, r, c) /\ s = StepWritten(v, r) /\ d = PrepareXmlNode[c]
  <2> HIDE DEF w
  <2> QED BY <1>4 DEF HasKid
<1> HIDE DEF w
<1>5. CASE v.t = "scalar"
  <2>1. w = Scalar(ScalarToCell(v))
    BY <1>1, <1>5 DEF PreparedOf
  <2>2. w.t = "scalar" /\ Arity(v) = 0 /\ Arity(w) = 0
    BY <1>5, <2>1 DEF Scalar, Arity
  <2>3. \A s, d : ~HasKid(w, s, d)
    BY <2>2 DEF HasKid
  <2>4. ~ \E i \in 1..Arity(v) : TRUE
    BY <2>2
  <2> QED BY <1>1, <1>4, <1>5, <2>1, <2>2, <2>3, <2>4 DEF w
<1>6. CASE v.t = "list"
  <2> DEFINE xs == [i \in 1..Arity(v) |-> PrepareXmlNode[Child(v, i)]]
  <2>1. w = List(xs)
    BY <1>1, <1>6 DEF PreparedOf
  <2>2. Len(xs) = Arity(v) /\ \A i \in 1..Arity(v) : xs[i] = PrepareXmlNode[Child(v, i)]
    BY <1>2
  <2> HIDE DEF xs
  <2>3. \A s, d : HasKid(w, s, d) <=>
          \E i \in 1..Arity(v) : s = IndexKey(i) /\ d = PrepareXmlNode[Child(v, i)]
    BY <2>1, <2>2, KidsOfList
  <2>4. \A r : StepWritten(v, r) = r
    BY <1>6 DEF StepWritten
  <2>5. \A s, d : HasKid(w, s, d) <=>
          \E i \in 1..Arity(v) : /\ s = StepWritten(v, StepTo(v, i))
                                 /\ d = PrepareXmlNode[Child(v, i)]
    BY <1>2, <1>6, <2>3, <2>4
  <2>6. w.t = "list"
    BY <2>1 DEF List
  <2> QED BY <1>1, <1>4, <1>6, <2>5, <2>6 DEF w
<1>7. CASE v.t = "map"
  <2> DEFINE es == PreparedEntries(v, PrepareXmlNode)
             o  == JsObject(es)
             V  == Value
  <2>1. w = EntriesOf(o)
    BY <1>1, <1>7 DEF PreparedOf
  <2>2. \A i \in 1..Arity(v) : PrepareXmlNode[Child(v, i)] \in V
    BY <1>2
  <2> HIDE DEF V
  <2>3. /\ es \in Seq([key : Key, val : V]) /\ DOMAIN es = 1..Arity(v)
        /\ \A i \in 1..Arity(v) : /\ es[i].key = ToXmlName(StepTo(v, i))
                                  /\ es[i].val = PrepareXmlNode[Child(v, i)]
    <3> HIDE DEF es
    <3>1. LET xs == PreparedEntries(v, PrepareXmlNode) IN
          /\ xs \in Seq([key : Key, val : V])
          /\ DOMAIN xs = 1..Arity(v)
          /\ \A i \in 1..Arity(v) : /\ xs[i].key = ToXmlName(StepTo(v, i))
                                    /\ xs[i].val = PrepareXmlNode[Child(v, i)]
      BY <2>2, PreparedEntriesFit
    <3> QED BY <3>1 DEF es
  <2> HIDE DEF es
  <2>4. IsInjective(Keys(es))
    <3>1. ASSUME NEW i \in 1..Arity(v), NEW j \in 1..Arity(v), es[i].key = es[j].key
          PROVE  i = j
      <4>1. ToXmlName(StepTo(v, i)) = ToXmlName(StepTo(v, j))
        BY <2>3, <3>1
      <4>2. HasKid(v, StepTo(v, i), Child(v, i)) /\ HasKid(v, StepTo(v, j), Child(v, j))
        BY DEF HasKid
      <4>3. StepTo(v, i) = StepTo(v, j)
        BY <1>7, <4>1, <4>2, NamesBelow
      <4> QED BY <4>3, KidsAreBelow
    <3>2. DOMAIN Keys(es) = 1..Arity(v) /\ \A i \in 1..Arity(v) : Keys(es)[i] = es[i].key
      BY <2>3 DEF Keys
    <3> QED BY <3>1, <3>2 DEF IsInjective
  <2>5. o \in Objects(V) /\ ToSet(o) = ToSet(es)
    BY <2>3, <2>4, ObjectMembers
  <2> HIDE DEF o
  <2>6. o \in Seq([key : Key, val : V])
    BY <2>5 DEF Objects
  <2>7. \A s, d : HasKid(w, s, d) <=> \E e \in ToSet(o) : s = e.key /\ d = e.val
    <3>1. \A s, d : HasKid(EntriesOf(o), s, d) <=> \E e \in ToSet(o) : s = e.key /\ d = e.val
      BY <2>6, KidsOfMap
    <3> QED BY <2>1, <3>1
  <2>8. \A e : e \in ToSet(o) <=> \E i \in 1..Arity(v) : e = es[i]
    BY <2>3, <2>5 DEF ToSet
  <2>9. \A s, d : HasKid(w, s, d) <=>
          \E i \in 1..Arity(v) : /\ s = ToXmlName(StepTo(v, i))
                                 /\ d = PrepareXmlNode[Child(v, i)]
    BY <2>3, <2>7, <2>8
  <2>10. \A r : StepWritten(v, r) = ToXmlName(r)
    BY <1>7 DEF StepWritten
  <2>11. \A s, d : HasKid(w, s, d) <=>
          \E i \in 1..Arity(v) : /\ s = StepWritten(v, StepTo(v, i))
                                 /\ d = PrepareXmlNode[Child(v, i)]
    BY <2>9, <2>10
  <2>12. w.t = "map"
    BY <2>1 DEF EntriesOf
  <2> QED BY <1>1, <1>4, <1>7, <2>11, <2>12 DEF w
<1> QED BY <1>2, <1>5, <1>6, <1>7

-----------------------------------------------------------------------------
(* XML output shows the value.                                             *)

\* What is behind the first step of a longer way.
LEMMA LongerTail ==
  \A X : \A a \in X : \A s \in Seq(X) : Tail(<<a>> \o s) = s
<1> SUFFICES ASSUME NEW X, NEW a \in X, NEW s \in Seq(X) PROVE Tail(<<a>> \o s) = s
  OBVIOUS
<1> DEFINE p == <<a>> \o s
<1>1. /\ p \in Seq(X) /\ p # <<>> /\ Len(p) = Len(s) + 1 /\ Len(s) \in Nat
      /\ \A i \in 1..Len(s) : p[i + 1] = s[i]
  BY LongerPath
<1> HIDE DEF p
<1>2. /\ Tail(p) \in Seq(X) /\ Len(Tail(p)) = Len(s)
      /\ \A i \in 1..Len(Tail(p)) : Tail(p)[i] = p[i + 1]
  BY <1>1, HeadTailProperties
<1>3. Tail(p) = s
  BY <1>1, <1>2
<1> QED BY <1>3 DEF p

\* An element without the first step to it.
LEMMA Shortened ==
  ASSUME NEW e \in [at : Seq(ElementStep), text : STRING]
  PROVE  [e EXCEPT !.at = Tail(@)] = [at |-> Tail(e.at), text |-> e.text]
<1>1. \A y : [e EXCEPT !.at = y] = [at |-> y, text |-> e.text]
  OBVIOUS
<1> QED BY <1>1, Zenon

\* When what is written below one value shows what is below another one, in
\* elements that can be told apart, and their texts are the same, the one is shown
\* by the other.
LEMMA ShownByParts ==
  ASSUME NEW u \in Value, NEW p \in Value, NEW q,
         TextOf(p) \in STRING,
         {TextOf(p)} = (IF ShownTexts(u) = {} THEN {NoText}
                        ELSE {ScalarToCell(t) : t \in ShownTexts(u)}),
         \A x : x \in Tagged(p) <=>
                  \E b \in ShownBelow(u) : x = [step |-> b.step, val |-> q[b.val]],
         \A a, b \in ShownBelow(u) : a.step = b.step => a = b,
         \A b \in ShownBelow(u) : /\ XmlElements[q[b.val]] \in SUBSET XmlElement
                                  /\ Shows[b.val][XmlElements[q[b.val]]]
  PROVE  XmlElements[p] \in SUBSET XmlElement /\ Shows[u][XmlElements[p]]
<1> DEFINE E == XmlElements[p]
           root == [at |-> <<>>, text |-> TextOf(p)]
           Below(b) == XmlElements[q[b.val]]
<1>1. XmlElement = [at : Seq(ElementStep), text : STRING]
  BY DEF XmlElement, ElementStep
<1>2. \A b \in ShownBelow(u) :
        b.step \in ElementStep /\ Below(b) \in SUBSET [at : Seq(ElementStep), text : STRING]
  BY <1>1, ShownIsLower
<1>3. E = ElementsOf(p, XmlElements)
  BY Writing
<1>4. \A b \in Tagged(p) : /\ b.step \in ElementStep
                           /\ XmlElements[b.val] \in SUBSET [at : Seq(ElementStep), text : STRING]
  <2> SUFFICES ASSUME NEW x \in Tagged(p)
               PROVE  /\ x.step \in ElementStep
                      /\ XmlElements[x.val] \in SUBSET [at : Seq(ElementStep), text : STRING]
    OBVIOUS
  <2>1. PICK b \in ShownBelow(u) : x = [step |-> b.step, val |-> q[b.val]]
    OBVIOUS
  <2>2. x.step = b.step /\ x.val = q[b.val]
    BY <2>1
  <2> QED BY <1>2, <2>2
<1>5. E \in SUBSET XmlElement
  <2>1. ElementsOf(p, XmlElements) \in SUBSET [at : Seq(ElementStep), text : STRING]
    BY <1>4, ElementsFit
  <2> HIDE DEF E
  <2> QED BY <1>1, <1>3, <2>1
<1>6. \A x : x \in E <=>
        x = root \/ \E b \in ShownBelow(u) : x \in Behind(b.step, Below(b))
  <2>1. \A x : x \in E <=> x = root \/ \E b \in Tagged(p) : x \in Behind(b.step, XmlElements[b.val])
    <3> HIDE DEF E
    <3> QED BY <1>3 DEF ElementsOf
  <2>2. ASSUME NEW x, NEW b \in Tagged(p), x \in Behind(b.step, XmlElements[b.val])
        PROVE  \E a \in ShownBelow(u) : x \in Behind(a.step, Below(a))
    <3>1. PICK a \in ShownBelow(u) : b = [step |-> a.step, val |-> q[a.val]]
      OBVIOUS
    <3>2. b.step = a.step /\ b.val = q[a.val]
      BY <3>1
    <3> QED BY <2>2, <3>2
  <2>3. ASSUME NEW x, NEW a \in ShownBelow(u), x \in Behind(a.step, Below(a))
        PROVE  \E b \in Tagged(p) : x \in Behind(b.step, XmlElements[b.val])
    <3> DEFINE b == [step |-> a.step, val |-> q[a.val]]
    <3>1. b \in Tagged(p)
      OBVIOUS
    <3>2. b.step = a.step /\ b.val = q[a.val]
      OBVIOUS
    <3> HIDE DEF b
    <3> QED BY <2>3, <3>1, <3>2
  <2> HIDE DEF E, Below
  <2> QED BY <2>1, <2>2, <2>3
<1>7. \A b \in ShownBelow(u) : \A x : x \in Behind(b.step, Below(b)) <=>
        \E e \in Below(b) : x = [at |-> <<b.step>> \o e.at, text |-> e.text]
  <2> SUFFICES ASSUME NEW b \in ShownBelow(u)
               PROVE  \A x : x \in Behind(b.step, Below(b)) <=>
                        \E e \in Below(b) : x = [at |-> <<b.step>> \o e.at, text |-> e.text]
    OBVIOUS
  <2>1. b.step \in ElementStep /\ Below(b) \in SUBSET [at : Seq(ElementStep), text : STRING]
    BY <1>2
  <2>2. PICK st, es : st = b.step /\ es = Below(b)
    OBVIOUS
  <2>3. \A e \in es : e = [at |-> e.at, text |-> e.text]
    BY <2>1, <2>2
  <2> HIDE DEF Below
  <2>4. \A x : x \in Behind(st, es) <=> \E e \in es : x = [at |-> <<st>> \o e.at, text |-> e.text]
    BY <2>3, BehindMembers
  <2> QED BY <2>2, <2>4
<1>8. \A b \in ShownBelow(u) : \A e \in Below(b) :
        /\ e.at \in Seq(ElementStep) /\ e.text \in STRING
        /\ e = [at |-> e.at, text |-> e.text]
        /\ <<b.step>> \o e.at # <<>> /\ (<<b.step>> \o e.at)[1] = b.step
        /\ Tail(<<b.step>> \o e.at) = e.at
  <2> SUFFICES ASSUME NEW b \in ShownBelow(u), NEW e \in Below(b)
               PROVE  /\ e.at \in Seq(ElementStep) /\ e.text \in STRING
                      /\ e = [at |-> e.at, text |-> e.text]
                      /\ <<b.step>> \o e.at # <<>> /\ (<<b.step>> \o e.at)[1] = b.step
                      /\ Tail(<<b.step>> \o e.at) = e.at
    OBVIOUS
  <2>1. b.step \in ElementStep /\ e \in [at : Seq(ElementStep), text : STRING]
    BY <1>2
  <2> HIDE DEF Below
  <2>2. e.at \in Seq(ElementStep) /\ e.text \in STRING /\ e = [at |-> e.at, text |-> e.text]
    BY <2>1
  <2>3. <<b.step>> \o e.at # <<>> /\ (<<b.step>> \o e.at)[1] = b.step
    BY <2>1, <2>2, LongerPath
  <2>4. Tail(<<b.step>> \o e.at) = e.at
    BY <2>1, <2>2, LongerTail
  <2> QED BY <2>2, <2>3, <2>4
<1> HIDE DEF E, Below
<1>9. {e.text : e \in {e \in E : e.at = <<>>}} = {TextOf(p)}
  <2>1. \A e \in E : e.at = <<>> => e = root
    <3> SUFFICES ASSUME NEW e \in E, e.at = <<>>, e # root PROVE FALSE
      OBVIOUS
    <3>1. PICK b \in ShownBelow(u) : e \in Behind(b.step, Below(b))
      BY <1>6
    <3>2. PICK d \in Below(b) : e = [at |-> <<b.step>> \o d.at, text |-> d.text]
      BY <1>7, <3>1
    <3>3. e.at = <<b.step>> \o d.at
      BY <3>2
    <3> QED BY <1>8, <3>3
  <2>2. root \in E /\ root.at = <<>> /\ root.text = TextOf(p)
    BY <1>6
  <2> HIDE DEF root
  <2> QED BY <2>1, <2>2
<1>10. \A b \in ShownBelow(u) : InElement(E, b.step) = Below(b)
  <2> SUFFICES ASSUME NEW b \in ShownBelow(u) PROVE InElement(E, b.step) = Below(b)
    OBVIOUS
  <2>1. ASSUME NEW x \in InElement(E, b.step)
        PROVE  x \in Below(b)
    <3>1. PICK e \in E : e.at # <<>> /\ e.at[1] = b.step /\ x = [e EXCEPT !.at = Tail(@)]
      BY DEF InElement
    <3>2. e # root
      BY <3>1
    <3>3. PICK a \in ShownBelow(u) : e \in Behind(a.step, Below(a))
      BY <1>6, <3>2
    <3>4. PICK d \in Below(a) : e = [at |-> <<a.step>> \o d.at, text |-> d.text]
      BY <1>7, <3>3
    <3>5. e.at = <<a.step>> \o d.at
      BY <3>4
    <3>6. a.step = b.step
      BY <1>8, <3>1, <3>5
    <3>7. a = b
      BY <3>6
    <3>8. [e EXCEPT !.at = Tail(@)] = [at |-> Tail(<<a.step>> \o d.at), text |-> d.text]
      <4>1. e \in [at : Seq(ElementStep), text : STRING]
        BY <1>1, <1>5
      <4>2. [e EXCEPT !.at = Tail(@)] = [at |-> Tail(e.at), text |-> e.text]
        BY <4>1, Shortened
      <4> QED BY <3>4, <4>2
    <3>9. x = d
      <4>1. Tail(<<a.step>> \o d.at) = d.at /\ d = [at |-> d.at, text |-> d.text]
        BY <1>8
      <4> QED BY <3>1, <3>8, <4>1
    <3> QED BY <3>7, <3>9
  <2>2. ASSUME NEW d \in Below(b)
        PROVE  d \in InElement(E, b.step)
    <3> DEFINE e == [at |-> <<b.step>> \o d.at, text |-> d.text]
    <3>1. e \in E
      BY <1>6, <1>7
    <3>2. e.at # <<>> /\ e.at[1] = b.step
      BY <1>8
    <3>3. [e EXCEPT !.at = Tail(@)] = d
      <4>1. e.at = <<b.step>> \o d.at /\ e.text = d.text
        OBVIOUS
      <4> HIDE DEF e
      <4>4. e \in [at : Seq(ElementStep), text : STRING]
        BY <1>1, <1>5, <3>1
      <4>2. [e EXCEPT !.at = Tail(@)] = [at |-> Tail(<<b.step>> \o d.at), text |-> d.text]
        <5>1. [e EXCEPT !.at = Tail(@)] = [at |-> Tail(e.at), text |-> e.text]
          BY <4>4, Shortened
        <5> QED BY <4>1, <5>1
      <4>3. Tail(<<b.step>> \o d.at) = d.at /\ d = [at |-> d.at, text |-> d.text]
        BY <1>8
      <4> QED BY <4>2, <4>3
    <3> HIDE DEF e
    <3> QED BY <3>1, <3>2, <3>3 DEF InElement
  <2> QED BY <2>1, <2>2
<1>11. \A e \in E : e.at # <<>> => \E b \in ShownBelow(u) : e.at[1] = b.step
  <2> SUFFICES ASSUME NEW e \in E, e.at # <<>> PROVE \E b \in ShownBelow(u) : e.at[1] = b.step
    OBVIOUS
  <2>1. e # root
    OBVIOUS
  <2>2. PICK b \in ShownBelow(u) : e \in Behind(b.step, Below(b))
    BY <1>6, <2>1
  <2>3. PICK d \in Below(b) : e = [at |-> <<b.step>> \o d.at, text |-> d.text]
    BY <1>7, <2>2
  <2>4. e.at = <<b.step>> \o d.at
    BY <2>3
  <2> QED BY <1>8, <2>4
<1>12. \A b \in ShownBelow(u) : Shows[b.val][InElement(E, b.step)]
  BY <1>10 DEF Below
<1>13. Shows[u] = ShowsOf(u, Shows)
  BY Showing
<1>14. ShowsOf(u, Shows)[E]
  BY <1>5, <1>9, <1>11, <1>12 DEF ShowsOf
<1> QED BY <1>5, <1>13, <1>14 DEF E


\* What is written of a value, and whether it is written in full.
Output(v)   == PrepareXmlNode[Pruned[v]]
Showable(v) == ~IsOdd(Pruned[v]) /\ HasDistinctNames(Pruned[v])

\* What is written of a value has what is written of the kids that are kept.
LEMMA OutputKids ==
  ASSUME NEW v \in Value, HasDistinctNames(Pruned[v])
  PROVE  /\ Output(v) \in Value /\ Output(v).t = v.t
         /\ v.t = "scalar" => Output(v) = Scalar(ScalarToCell(v))
         /\ \A s, d : HasKid(Output(v), s, d) <=>
              \E r, c : KeptKid(v, r, c) /\ s = StepWritten(v, r) /\ d = Output(c)
<1>0. /\ Pruned[v] \in Value /\ Pruned[v].t = v.t
      /\ v.t = "scalar" => Pruned[v] = v
      /\ \A s, d : HasKid(Pruned[v], s, d) <=> \E c : KeptKid(v, s, c) /\ d = Pruned[c]
  BY PrunedKids
<1>1. PICK p : p = Pruned[v]
  OBVIOUS
<1>2. /\ p \in Value /\ p.t = v.t
      /\ v.t = "scalar" => p = v
      /\ \A s, d : HasKid(p, s, d) <=> \E c : KeptKid(v, s, c) /\ d = Pruned[c]
  BY <1>0, <1>1
<1>3. HasDistinctNames(p)
  BY <1>1
<1>4. /\ PrepareXmlNode[p] \in Value /\ PrepareXmlNode[p].t = p.t
      /\ p.t = "scalar" => PrepareXmlNode[p] = Scalar(ScalarToCell(p))
      /\ \A s, d : HasKid(PrepareXmlNode[p], s, d) <=>
           \E r, c : HasKid(p, r, c) /\ s = StepWritten(p, r) /\ d = PrepareXmlNode[c]
  BY <1>2, <1>3, PreparedKids
<1>5. \A r : StepWritten(p, r) = StepWritten(v, r)
  BY <1>2 DEF StepWritten
<1>6. PrepareXmlNode[p] = Output(v)
  BY <1>1 DEF Output
<1>7. \A s, d : HasKid(PrepareXmlNode[p], s, d) <=>
        \E r, c : KeptKid(v, r, c) /\ s = StepWritten(v, r) /\ d = Output(c)
  <2>1. \A c : Output(c) = PrepareXmlNode[Pruned[c]]
    BY DEF Output
  <2>2. \A s, d : HasKid(PrepareXmlNode[p], s, d) <=>
          \E r, x : HasKid(p, r, x) /\ s = StepWritten(v, r) /\ d = PrepareXmlNode[x]
    BY <1>4, <1>5
  <2> SUFFICES ASSUME NEW s, NEW d
               PROVE  (\E r, x : HasKid(p, r, x) /\ s = StepWritten(v, r) /\ d = PrepareXmlNode[x])
                      <=> \E r, c : KeptKid(v, r, c) /\ s = StepWritten(v, r) /\ d = Output(c)
    BY <2>2
  <2>3. ASSUME NEW r, NEW x, HasKid(p, r, x), s = StepWritten(v, r), d = PrepareXmlNode[x]
        PROVE  \E c : KeptKid(v, r, c) /\ d = Output(c)
    BY <1>2, <2>1, <2>3
  <2>4. ASSUME NEW r, NEW c, KeptKid(v, r, c), s = StepWritten(v, r), d = Output(c)
        PROVE  \E x : HasKid(p, r, x) /\ d = PrepareXmlNode[x]
    BY <1>2, <2>1, <2>4
  <2> QED BY <2>3, <2>4
<1> QED BY <1>2, <1>4, <1>6, <1>7

\* What is kept of a value that is written in full is written in full, under a name
\* of its own, and a text where there is room for no more.
LEMMA ShowableKids ==
  ASSUME NEW v \in Value, Showable(v), NEW s, NEW c, KeptKid(v, s, c)
  PROVE  /\ s \in Key /\ c \in Value /\ Showable(c)
         /\ \A r, d : KeptKid(v, r, d) /\ StepWritten(v, r) = StepWritten(v, s) => r = s /\ d = c
         /\ StepWritten(v, s) = TextKey <=> s = TextKey
         /\ s = TextKey => v.t = "map" /\ c.t = "scalar"
<1>1. HasKid(v, s, c) /\ s \in Key /\ c \in Value /\ v.t \in {"list", "map"}
      /\ \A d : HasKid(v, s, d) => d = c
  BY KidsAreKids DEF KeptKid
<1>0. Pruned[v] \in Value /\ Pruned[v].t = v.t
      /\ \A r, x : HasKid(Pruned[v], r, x) <=> \E y : KeptKid(v, r, y) /\ x = Pruned[y]
  BY PrunedKids
<1>2. PICK p, d : p = Pruned[v] /\ d = Pruned[c]
  OBVIOUS
<1>3. p \in Value /\ p.t = v.t
      /\ \A r, x : HasKid(p, r, x) <=> \E y : KeptKid(v, r, y) /\ x = Pruned[y]
  BY <1>0, <1>2
<1>4. HasKid(p, s, d) /\ ~IsOdd(p) /\ HasDistinctNames(p)
  BY <1>2, <1>3 DEF Showable
<1>5. ~IsOdd(d) /\ (v.t = "map" /\ s = TextKey => d.t = "scalar")
  BY <1>3, <1>4, OddBelow
<1>6. HasDistinctNames(d)
      /\ (v.t = "map" => \A r, x : HasKid(p, r, x) /\ ToXmlName(r) = ToXmlName(s) => r = s)
  BY <1>3, <1>4, NamesBelow
<1>7. Showable(c)
  BY <1>2, <1>5, <1>6 DEF Showable
<1>8. d.t = c.t
  BY <1>1, <1>2, PrunedKids
<1>9. ASSUME NEW r, NEW x, KeptKid(v, r, x), StepWritten(v, r) = StepWritten(v, s)
      PROVE  r = s /\ x = c
  <2>1. CASE v.t = "map"
    <3>1. HasKid(p, r, Pruned[x])
      BY <1>3, <1>9
    <3>2. ToXmlName(r) = ToXmlName(s)
      BY <1>9, <2>1 DEF StepWritten
    <3>3. r = s
      BY <1>6, <2>1, <3>1, <3>2
    <3> QED BY <1>1, <1>9, <3>3 DEF KeptKid
  <2>2. CASE v.t # "map"
    <3>1. r = s
      BY <1>9, <2>2 DEF StepWritten
    <3> QED BY <1>1, <1>9, <3>1 DEF KeptKid
  <2> QED BY <2>1, <2>2
<1>10. StepWritten(v, s) = TextKey <=> s = TextKey
  BY <1>1, NamesAreKeys DEF StepWritten
<1>11. ASSUME s = TextKey PROVE v.t = "map"
  <2> SUFFICES ASSUME v.t = "list" PROVE FALSE
    BY <1>1
  <2>1. PICK i \in 1..Arity(v) : s = IndexKey(i) /\ i \in DOMAIN IndexParts
    <3>1. PICK i \in 1..Arity(v) : s = StepTo(v, i)
      BY <1>1 DEF HasKid
    <3> QED BY <3>1, KidsAreBelow, ItemsOfList
  <2>2. IndexKey(i)[1] = IndexParts[i]
    BY DEF IndexKey
  <2>3. TextKey[1] = "#text"
    BY DEF TextKey
  <2>4. IndexParts[i] \in ToSet(IndexParts)
    BY <2>1 DEF ToSet
  <2> QED BY <1>11, <2>1, <2>2, <2>3, <2>4, PartFacts
<1> QED BY <1>1, <1>5, <1>7, <1>8, <1>9, <1>10, <1>11

\* The items of a list are written one by one.
LEMMA OutputItems ==
  ASSUME NEW v \in Value
  PROVE  /\ DOMAIN Repeated(Output(v)) = DOMAIN Repeated(v)
         /\ \A j \in DOMAIN Repeated(v) : Repeated(Output(v))[j] = Output(Repeated(v)[j])
<1>1. Pruned[v] \in Value /\ Pruned[v].t = v.t /\ Pruned[v] = PrunedOf(v, Pruned)
  BY PrunedKids, Pruning
<1>2. PICK p : p = Pruned[v]
  OBVIOUS
<1>3. p \in Value /\ p.t = v.t /\ p = PrunedOf(v, Pruned)
      /\ PrepareXmlNode[p] = PreparedOf(p, PrepareXmlNode) /\ Output(v) = PrepareXmlNode[p]
  BY <1>1, <1>2, Preparing DEF Output
<1>4. CASE v.t = "list"
  <2>1. DOMAIN v.items = 1..Arity(v) /\ Arity(v) \in Nat
        /\ \A j \in 1..Arity(v) : v.items[j] = Child(v, j)
    BY <1>4, ItemsOfList, KidsAreBelow
  <2>2. PICK xs : xs = [i \in 1..Arity(v) |-> Pruned[Child(v, i)]]
    OBVIOUS
  <2>3. p = List(xs)
    BY <1>3, <1>4, <2>2 DEF PrunedOf
  <2>4. Arity(p) = Arity(v) /\ \A i \in 1..Arity(v) : Child(p, i) = Pruned[Child(v, i)]
    <3>1. p.t = "list" /\ p.items = xs /\ Len(xs) = Arity(v)
      BY <2>1, <2>2, <2>3 DEF List
    <3> QED BY <2>2, <3>1 DEF Arity, Child
  <2>5. Output(v) = List([i \in 1..Arity(p) |-> PrepareXmlNode[Child(p, i)]])
    BY <1>3, <1>4 DEF PreparedOf
  <2>6. Output(v).t = "list"
        /\ Output(v).items = [i \in 1..Arity(v) |-> PrepareXmlNode[Pruned[Child(v, i)]]]
    BY <2>4, <2>5 DEF List
  <2> QED BY <1>4, <2>1, <2>6 DEF Repeated, Output
<1>5. CASE v.t # "list"
  <2>1. Output(v).t # "list"
    BY <1>3, <1>5 DEF PreparedOf, EntriesOf, Scalar
  <2> QED BY <1>5, <2>1 DEF Repeated
<1> QED BY <1>4, <1>5

\* So they can be written in full as well.
LEMMA RepeatedIsShowable ==
  ASSUME NEW c \in Value, Showable(c), NEW j \in DOMAIN Repeated(c)
  PROVE  Repeated(c)[j] \in Value /\ Showable(Repeated(c)[j])
<1>1. CASE c.t = "list"
  <2>1. j \in 1..Arity(c) /\ HasKid(c, IndexKey(j), c.items[j]) /\ Repeated(c)[j] = c.items[j]
    BY <1>1, ItemsOfList DEF Repeated
  <2>2. IndexKey(j) \notin PollutionKeys
    BY <1>1, <2>1, KidsAreBelow
  <2>3. KeptKid(c, IndexKey(j), c.items[j])
    BY <2>1, <2>2 DEF KeptKid
  <2> QED BY <2>1, <2>3, ShowableKids
<1>2. CASE c.t # "list"
  <2>1. Repeated(c) = <<c>>
    BY <1>2 DEF Repeated
  <2>2. Repeated(c)[j] = c
    BY <2>1
  <2> QED BY <2>2
<1> QED BY <1>1, <1>2

LEMMA ShowableBelow ==
  ASSUME NEW v \in Value, Showable(v), NEW b \in ShownBelow(v)
  PROVE  Showable(b.val)
<1>1. PICK s, c : KeptKid(v, s, c) /\ s # TextKey /\ \E j \in DOMAIN Repeated(c) :
        b = [step |-> [tag |-> StepWritten(v, s), nth |-> j], val |-> Repeated(c)[j]]
  BY ShownIsBelow
<1>2. PICK j \in DOMAIN Repeated(c) :
        b = [step |-> [tag |-> StepWritten(v, s), nth |-> j], val |-> Repeated(c)[j]]
  BY <1>1
<1>3. b.val = Repeated(c)[j]
  BY <1>2
<1> QED BY <1>1, <1>3, ShowableKids, RepeatedIsShowable

\* What is written below a value is what is written of all that is to be shown.
LEMMA OutputTagged ==
  ASSUME NEW v \in Value, Showable(v)
  PROVE  \A x : x \in Tagged(Output(v)) <=>
           \E b \in ShownBelow(v) : x = [step |-> b.step, val |-> Output(b.val)]
<1>1. PICK w : w = Output(v)
  OBVIOUS
<1>2. \A s, d : HasKid(w, s, d) <=>
        \E r, c : KeptKid(v, r, c) /\ s = StepWritten(v, r) /\ d = Output(c)
  <2>1. \A s, d : HasKid(Output(v), s, d) <=>
          \E r, c : KeptKid(v, r, c) /\ s = StepWritten(v, r) /\ d = Output(c)
    BY OutputKids DEF Showable
  <2> QED BY <1>1, <2>1
<1>3. \A r, c : KeptKid(v, r, c) =>
        /\ StepWritten(v, r) = TextKey <=> r = TextKey
        /\ DOMAIN Repeated(Output(c)) = DOMAIN Repeated(c)
        /\ \A j \in DOMAIN Repeated(c) : Repeated(Output(c))[j] = Output(Repeated(c)[j])
  BY ShowableKids, OutputItems
<1>4. ASSUME NEW x, x \in Tagged(w)
      PROVE  \E b \in ShownBelow(v) : x = [step |-> b.step, val |-> Output(b.val)]
  <2>1. PICK s, d : HasKid(w, s, d) /\ s # TextKey /\ \E j \in DOMAIN Repeated(d) :
          x = [step |-> [tag |-> s, nth |-> j], val |-> Repeated(d)[j]]
    BY <1>4, TaggedBelow
  <2>2. PICK j \in DOMAIN Repeated(d) : x = [step |-> [tag |-> s, nth |-> j], val |-> Repeated(d)[j]]
    BY <2>1
  <2>3. PICK r, c : KeptKid(v, r, c) /\ s = StepWritten(v, r) /\ d = Output(c)
    BY <1>2, <2>1
  <2>4. r # TextKey /\ j \in DOMAIN Repeated(c) /\ Repeated(d)[j] = Output(Repeated(c)[j])
    BY <1>3, <2>1, <2>3
  <2>5. PICK b : b = [step |-> [tag |-> StepWritten(v, r), nth |-> j], val |-> Repeated(c)[j]]
    OBVIOUS
  <2>6. b \in ShownBelow(v)
    BY <2>3, <2>4, <2>5, ShownIsBelow
  <2>7. b.step = [tag |-> s, nth |-> j] /\ b.val = Repeated(c)[j]
    BY <2>3, <2>5
  <2> QED BY <2>2, <2>4, <2>6, <2>7
<1>5. ASSUME NEW b \in ShownBelow(v)
      PROVE  [step |-> b.step, val |-> Output(b.val)] \in Tagged(w)
  <2>1. PICK r, c : KeptKid(v, r, c) /\ r # TextKey /\ \E j \in DOMAIN Repeated(c) :
          b = [step |-> [tag |-> StepWritten(v, r), nth |-> j], val |-> Repeated(c)[j]]
    BY ShownIsBelow
  <2>2. PICK j \in DOMAIN Repeated(c) :
          b = [step |-> [tag |-> StepWritten(v, r), nth |-> j], val |-> Repeated(c)[j]]
    BY <2>1
  <2>3. PICK s, d : s = StepWritten(v, r) /\ d = Output(c)
    OBVIOUS
  <2>4. HasKid(w, s, d) /\ s # TextKey
    BY <1>2, <1>3, <2>1, <2>3
  <2>5. j \in DOMAIN Repeated(d) /\ Repeated(d)[j] = Output(Repeated(c)[j])
    BY <1>3, <2>1, <2>3
  <2>6. [step |-> [tag |-> s, nth |-> j], val |-> Repeated(d)[j]] \in Tagged(w)
    BY <2>4, <2>5, TaggedBelow
  <2>7. b.step = [tag |-> s, nth |-> j] /\ b.val = Repeated(c)[j]
    BY <2>2, <2>3
  <2> QED BY <2>5, <2>6, <2>7
<1> QED BY <1>1, <1>4, <1>5

\* No two of them have the same tag and place.
LEMMA OutputSteps ==
  ASSUME NEW v \in Value, Showable(v), NEW a \in ShownBelow(v), NEW b \in ShownBelow(v),
         a.step = b.step
  PROVE  a = b
<1>1. PICK r, c : KeptKid(v, r, c) /\ r # TextKey /\ \E j \in DOMAIN Repeated(c) :
        a = [step |-> [tag |-> StepWritten(v, r), nth |-> j], val |-> Repeated(c)[j]]
  BY ShownIsBelow
<1>2. PICK i \in DOMAIN Repeated(c) :
        a = [step |-> [tag |-> StepWritten(v, r), nth |-> i], val |-> Repeated(c)[i]]
  BY <1>1
<1>3. PICK s, d : KeptKid(v, s, d) /\ s # TextKey /\ \E j \in DOMAIN Repeated(d) :
        b = [step |-> [tag |-> StepWritten(v, s), nth |-> j], val |-> Repeated(d)[j]]
  BY ShownIsBelow
<1>4. PICK j \in DOMAIN Repeated(d) :
        b = [step |-> [tag |-> StepWritten(v, s), nth |-> j], val |-> Repeated(d)[j]]
  BY <1>3
<1>5. StepWritten(v, r) = StepWritten(v, s) /\ i = j
  <2>1. a.step = [tag |-> StepWritten(v, r), nth |-> i]
        /\ b.step = [tag |-> StepWritten(v, s), nth |-> j]
    BY <1>2, <1>4
  <2>2. \A x, y, m, n : [tag |-> x, nth |-> m] = [tag |-> y, nth |-> n] => x = y /\ m = n
    <3> SUFFICES ASSUME NEW x, NEW y, NEW m, NEW n, [tag |-> x, nth |-> m] = [tag |-> y, nth |-> n]
                 PROVE  x = y /\ m = n
      OBVIOUS
    <3>1. [tag |-> x, nth |-> m].tag = x /\ [tag |-> x, nth |-> m].nth = m
          /\ [tag |-> y, nth |-> n].tag = y /\ [tag |-> y, nth |-> n].nth = n
      OBVIOUS
    <3> QED BY <3>1
  <2> QED BY <2>1, <2>2
<1>6. r = s /\ c = d
  BY <1>1, <1>3, <1>5, ShowableKids
<1> QED BY <1>2, <1>4, <1>5, <1>6

\* The text of a value is written right below it.
LEMMA OutputText ==
  ASSUME NEW v \in Value, Showable(v)
  PROVE  /\ TextOf(Output(v)) \in STRING
         /\ {TextOf(Output(v))} = (IF ShownTexts(v) = {} THEN {NoText}
                                   ELSE {ScalarToCell(t) : t \in ShownTexts(v)})
<1>1. PICK w : w = Output(v)
  OBVIOUS
<1>2. /\ w.t = v.t
      /\ v.t = "scalar" => w = Scalar(ScalarToCell(v))
      /\ \A s, d : HasKid(w, s, d) <=>
           \E r, c : KeptKid(v, r, c) /\ s = StepWritten(v, r) /\ d = Output(c)
  <2>1. /\ Output(v).t = v.t
        /\ v.t = "scalar" => Output(v) = Scalar(ScalarToCell(v))
        /\ \A s, d : HasKid(Output(v), s, d) <=>
             \E r, c : KeptKid(v, r, c) /\ s = StepWritten(v, r) /\ d = Output(c)
    BY OutputKids DEF Showable
  <2> QED BY <1>1, <2>1
<1>3. \A t \in Value : t.t = "scalar" => ScalarToCell(t) \in STRING
  <2>1. \A t \in Value : t.t = "scalar" => t.v \in STRING
    BY ValueShape, FormAssumption DEF Value
  <2> QED BY <2>1, CellsAreTexts
<1>4. CASE v.t = "scalar"
  <2>1. TextOf(w) = ScalarToCell(v)
    BY <1>2, <1>4 DEF TextOf, IsScalar, Scalar
  <2>2. ShownTexts(v) = {v}
    BY <1>4 DEF ShownTexts, IsScalar
  <2> QED BY <1>1, <1>3, <1>4, <2>1, <2>2
<1>5. CASE v.t # "scalar"
  <2>1. \A t : t \in ShownTexts(v) <=> KeptKid(v, TextKey, t)
    <3>1. \A k : k \in ShownKids(v) <=> \E s, c : KeptKid(v, s, c) /\ k = [step |-> s, val |-> c]
      BY DEF ShownKids, Kids, KeptKid, HasKid
    <3>2. \A s, c : [step |-> s, val |-> c].step = s /\ [step |-> s, val |-> c].val = c
      OBVIOUS
    <3>3. \A t : t \in ShownTexts(v) <=> \E k \in ShownKids(v) : k.step = TextKey /\ t = k.val
      BY <1>5 DEF ShownTexts, IsScalar
    <3>4. ASSUME NEW t, t \in ShownTexts(v) PROVE KeptKid(v, TextKey, t)
      <4>1. PICK k \in ShownKids(v) : k.step = TextKey /\ t = k.val
        BY <3>3, <3>4
      <4>2. PICK s, c : KeptKid(v, s, c) /\ k = [step |-> s, val |-> c]
        BY <3>1
      <4>3. k.step = s /\ k.val = c
        BY <3>2, <4>2
      <4> QED BY <4>1, <4>2, <4>3
    <3>5. ASSUME NEW t, KeptKid(v, TextKey, t) PROVE t \in ShownTexts(v)
      <4>1. PICK k : k = [step |-> TextKey, val |-> t]
        OBVIOUS
      <4>2. k.step = TextKey /\ k.val = t
        BY <3>2, <4>1
      <4>3. k \in ShownKids(v)
        BY <3>1, <3>5, <4>1
      <4> QED BY <3>3, <4>2, <4>3
    <3> QED BY <3>4, <3>5
  <2>2. \A k : k \in Kids(w) <=> \E s, d : HasKid(w, s, d) /\ k = [step |-> s, val |-> d]
    BY DEF Kids, HasKid
  <2>3. \A r, c : KeptKid(v, r, c) => (StepWritten(v, r) = TextKey <=> r = TextKey)
    BY ShowableKids
  <2>4. \A k : k \in Kids(w) /\ k.step = TextKey <=>
          \E c : KeptKid(v, TextKey, c) /\ k = [step |-> TextKey, val |-> Output(c)]
    <3>1. \A s, c : [step |-> s, val |-> c].step = s /\ [step |-> s, val |-> c].val = c
      OBVIOUS
    <3>2. ASSUME NEW k \in Kids(w), k.step = TextKey
          PROVE  \E c : KeptKid(v, TextKey, c) /\ k = [step |-> TextKey, val |-> Output(c)]
      <4>1. PICK s, d : HasKid(w, s, d) /\ k = [step |-> s, val |-> d]
        BY <2>2
      <4>2. PICK r, c : KeptKid(v, r, c) /\ s = StepWritten(v, r) /\ d = Output(c)
        BY <1>2, <4>1
      <4> QED BY <2>3, <3>1, <3>2, <4>1, <4>2
    <3>3. ASSUME NEW k, NEW c, KeptKid(v, TextKey, c), k = [step |-> TextKey, val |-> Output(c)]
          PROVE  k \in Kids(w) /\ k.step = TextKey
      <4>1. HasKid(w, TextKey, Output(c))
        BY <1>2, <2>3, <3>3
      <4> QED BY <2>2, <3>1, <3>3, <4>1
    <3> QED BY <3>2, <3>3
  <2>5. CASE ShownTexts(v) = {}
    <3>1. ~ \E kid \in Kids(w) : kid.step = TextKey
      BY <2>1, <2>4, <2>5
    <3>2. TextOf(w) = NoText
      BY <1>2, <1>5, <3>1 DEF TextOf, IsScalar
    <3> QED BY <1>1, <2>5, <3>2, PartFacts
  <2>6. CASE ShownTexts(v) # {}
    <3>1. PICK c : KeptKid(v, TextKey, c)
      BY <2>1, <2>6
    <3>2. c \in Value /\ c.t = "scalar" /\ Showable(c) /\ \A d : KeptKid(v, TextKey, d) => d = c
      BY <3>1, ShowableKids
    <3>3. ShownTexts(v) = {c}
      BY <2>1, <3>1, <3>2
    <3>4. PICK k : k = [step |-> TextKey, val |-> Output(c)]
      OBVIOUS
    <3>5. k \in Kids(w) /\ k.step = TextKey /\ \A x \in Kids(w) : x.step = TextKey => x = k
      BY <2>4, <3>1, <3>2, <3>4
    <3>6. k = CHOOSE kid \in Kids(w) : kid.step = TextKey
      BY <3>5
    <3>7. k.val = Scalar(ScalarToCell(c))
      <4>1. Output(c) = Scalar(ScalarToCell(c))
        BY <3>2, OutputKids DEF Showable
      <4> QED BY <3>4, <4>1
    <3>8. TextOf(w) = ScalarToCell(c)
      BY <1>2, <1>5, <3>5, <3>6, <3>7 DEF TextOf, IsScalar, Scalar
    <3> QED BY <1>1, <1>3, <3>2, <3>3, <3>8
  <2> QED BY <2>5, <2>6
<1> QED BY <1>4, <1>5

\* All that is to be shown of a value is written, and nothing else.
LEMMA OutputShows ==
  \A v \in Value : Showable(v) =>
    XmlElements[Output(v)] \in SUBSET XmlElement /\ Shows[v][XmlElements[Output(v)]]
<1> DEFINE Shown(v) == XmlElements[Output(v)] \in SUBSET XmlElement /\ Shows[v][XmlElements[Output(v)]]
           S == {n \in Nat : \A v \in Value : ValueDepth[v] = n /\ Showable(v) => Shown(v)}
<1>1. ASSUME NEW n \in Nat, \A m \in Nat : m < n => m \in S
      PROVE  n \in S
  <2> SUFFICES ASSUME NEW v \in Value, ValueDepth[v] = n, Showable(v) PROVE Shown(v)
    OBVIOUS
  <2>1. \A b \in ShownBelow(v) : Shown(b.val)
    <3> SUFFICES ASSUME NEW b \in ShownBelow(v) PROVE Shown(b.val)
      OBVIOUS
    <3>1. b.val \in Value /\ ValueDepth[b.val] \in Nat /\ ValueDepth[b.val] < n
      BY ShownIsLower
    <3>2. Showable(b.val)
      BY ShowableBelow
    <3>3. ValueDepth[b.val] \in S
      BY <1>1, <3>1
    <3> HIDE DEF Shown
    <3> QED BY <3>1, <3>2, <3>3
  <2>2. Output(v) \in Value
    BY OutputKids DEF Showable
  <2>3. PICK p, q : p = Output(v) /\ q = [x \in Value |-> Output(x)]
    OBVIOUS
  <2>4. \A b \in ShownBelow(v) : q[b.val] = Output(b.val)
    BY <2>3, ShownIsLower
  <2>5. /\ p \in Value
        /\ TextOf(p) \in STRING
        /\ {TextOf(p)} = (IF ShownTexts(v) = {} THEN {NoText}
                          ELSE {ScalarToCell(t) : t \in ShownTexts(v)})
    <3>1. /\ TextOf(Output(v)) \in STRING
          /\ {TextOf(Output(v))} = (IF ShownTexts(v) = {} THEN {NoText}
                                    ELSE {ScalarToCell(t) : t \in ShownTexts(v)})
      BY OutputText
    <3> QED BY <2>2, <2>3, <3>1
  <2>6. \A x : x \in Tagged(p) <=> \E b \in ShownBelow(v) : x = [step |-> b.step, val |-> q[b.val]]
    <3>1. \A x : x \in Tagged(Output(v)) <=>
            \E b \in ShownBelow(v) : x = [step |-> b.step, val |-> Output(b.val)]
      BY OutputTagged
    <3>2. \A x : x \in Tagged(p) <=>
            \E b \in ShownBelow(v) : x = [step |-> b.step, val |-> Output(b.val)]
      BY <2>3, <3>1
    <3> QED BY <2>4, <3>2
  <2>7. \A a, b \in ShownBelow(v) : a.step = b.step => a = b
    BY OutputSteps
  <2>8. \A b \in ShownBelow(v) : /\ XmlElements[q[b.val]] \in SUBSET XmlElement
                                 /\ Shows[b.val][XmlElements[q[b.val]]]
    BY <2>1, <2>4
  <2>9. XmlElements[p] \in SUBSET XmlElement /\ Shows[v][XmlElements[p]]
    BY <2>5, <2>6, <2>7, <2>8, ShownByParts
  <2> QED BY <2>3, <2>9
<1> HIDE DEF Shown
<1>2. ASSUME \A n \in Nat : n \in S
      PROVE  \A v \in Value : Showable(v) => Shown(v)
  BY <1>2, ValueDepths DEF IsValueDepth
<1> HIDE DEF S
<1>3. \A n \in Nat : n \in S
  BY <1>1, StrongInduction
<1> QED BY <1>2, <1>3 DEF Shown

-----------------------------------------------------------------------------
(* The document around a value.                                            *)

Only(k, c) == EntriesOf(<<[key |-> k, val |-> c]>>)

\* A value as the only entry of an object, one level higher.
LEMMA OnlyEntry ==
  ASSUME NEW s \in {"root", "item"}, NEW n \in Nat, n < MaxNesting, NEW c \in ValuesUpTo[n]
  PROVE  /\ Only(<<s>>, c) \in ValuesUpTo[n + 1] /\ Only(<<s>>, c) \in Value /\ c \in Value
         /\ Only(<<s>>, c).t = "map"
         /\ \A r, x : HasKid(Only(<<s>>, c), r, x) <=> r = <<s>> /\ x = c
         /\ \A r, x : KeptKid(Only(<<s>>, c), r, x) <=> r = <<s>> /\ x = c
<1>1. PICK k : k = <<s>>
  OBVIOUS
<1>2. k \in Key /\ k \notin PollutionKeys
  BY <1>1, FixedNames
<1> DEFINE V == ValuesUpTo[n]
           e == [key |-> k, val |-> c]
<1>3. e \in [key : Key, val : V] /\ e.key = k /\ e.val = c
  BY <1>2
<1> HIDE DEF e, V
<1>4. PICK o : o = <<e>>
  OBVIOUS
<1>5. /\ o \in Seq([key : Key, val : V]) /\ ToSet(o) = {e} /\ DOMAIN o = {1} /\ o[1] = e
  <2>1. \A X : \A a \in X : <<a>> \in Seq(X) /\ DOMAIN <<a>> = {1} /\ <<a>>[1] = a
    OBVIOUS
  <2>2. o \in Seq([key : Key, val : V]) /\ DOMAIN o = {1} /\ o[1] = e
    BY <1>3, <1>4, <2>1
  <2> QED BY <2>2 DEF ToSet
<1>6. o \in Objects(V)
  BY <1>5 DEF Objects, Keys, IsInjective
<1>7. PICK w : w = EntriesOf(o)
  OBVIOUS
<1>8. w = Only(<<s>>, c)
  BY <1>1, <1>4, <1>7 DEF Only, e
<1>9. w \in ValuesUpTo[n + 1]
  <2>1. n + 1 \in Nat /\ n + 1 # 0 /\ (n + 1) - 1 = n
    OBVIOUS
  <2> QED BY <1>6, <1>7, <2>1, ValueForms DEF V
<1>10. w \in Value /\ c \in Value
  <2>1. MaxNesting \in Nat
    BY FormAssumption
  <2>2. ValuesUpTo[n] \subseteq Value /\ ValuesUpTo[n + 1] \subseteq Value
    BY <2>1, ValueLevelsGrow DEF Value
  <2> QED BY <1>9, <2>2
<1>11. \A r, x : HasKid(w, r, x) <=> r = k /\ x = c
  <2>1. \A r, x : HasKid(EntriesOf(o), r, x) <=> \E a \in ToSet(o) : r = a.key /\ x = a.val
    BY <1>5, KidsOfMap
  <2> QED BY <1>3, <1>5, <1>7, <2>1
<1>12. \A r, x : KeptKid(w, r, x) <=> r = k /\ x = c
  BY <1>2, <1>11 DEF KeptKid
<1>13. w.t = "map"
  BY <1>7 DEF EntriesOf
<1> QED BY <1>1, <1>8, <1>9, <1>10, <1>11, <1>12, <1>13

\* It is shown by what is written of it below the same name.
LEMMA OnlyShows ==
  ASSUME NEW s \in {"root", "item"}, NEW n \in Nat, n < MaxNesting,
         NEW c \in ValuesUpTo[n], NEW d \in ValuesUpTo[n], NEW q,
         DOMAIN Repeated(d) = DOMAIN Repeated(c),
         \A j \in DOMAIN Repeated(c) : /\ Repeated(d)[j] = q[Repeated(c)[j]]
                                       /\ XmlElements[Repeated(d)[j]] \in SUBSET XmlElement
                                       /\ Shows[Repeated(c)[j]][XmlElements[Repeated(d)[j]]]
  PROVE  /\ XmlElements[Only(<<s>>, d)] \in SUBSET XmlElement
         /\ Shows[Only(<<s>>, c)][XmlElements[Only(<<s>>, d)]]
<1>1. PICK k, u, p : k = <<s>> /\ u = Only(<<s>>, c) /\ p = Only(<<s>>, d)
  OBVIOUS
<1>2. /\ u \in Value /\ u.t = "map" /\ p \in Value /\ p.t = "map"
      /\ \A r, x : KeptKid(u, r, x) <=> r = k /\ x = c
      /\ \A r, x : HasKid(p, r, x) <=> r = k /\ x = d
  BY <1>1, OnlyEntry
<1>3. k # TextKey /\ ToXmlName(k) = k
  BY <1>1, FixedNames
<1>4. StepWritten(u, k) = k
  BY <1>2, <1>3 DEF StepWritten
<1> DEFINE At(j, x) == [step |-> [tag |-> k, nth |-> j], val |-> x]
<1>5. \A b : b \in ShownBelow(u) <=> \E j \in DOMAIN Repeated(c) : b = At(j, Repeated(c)[j])
  <2>1. \A b : b \in ShownBelow(u) <=>
          \E r, x : KeptKid(u, r, x) /\ r # TextKey /\ \E j \in DOMAIN Repeated(x) :
            b = [step |-> [tag |-> StepWritten(u, r), nth |-> j], val |-> Repeated(x)[j]]
    BY ShownIsBelow
  <2> QED BY <1>2, <1>3, <1>4, <2>1
<1>6. \A b : b \in Tagged(p) <=> \E j \in DOMAIN Repeated(d) : b = At(j, Repeated(d)[j])
  <2>1. \A b : b \in Tagged(p) <=>
          \E r, x : HasKid(p, r, x) /\ r # TextKey /\ \E j \in DOMAIN Repeated(x) :
            b = [step |-> [tag |-> r, nth |-> j], val |-> Repeated(x)[j]]
    BY TaggedBelow
  <2> QED BY <1>2, <1>3, <2>1
<1>7. \A j, x : At(j, x).step.nth = j /\ At(j, x).val = x
  OBVIOUS
<1>8. \A j, x, y : [step |-> At(j, x).step, val |-> y] = At(j, y)
  OBVIOUS
<1> HIDE DEF At
<1>9. \A x : x \in Tagged(p) <=> \E b \in ShownBelow(u) : x = [step |-> b.step, val |-> q[b.val]]
  <2>1. ASSUME NEW x \in Tagged(p)
        PROVE  \E b \in ShownBelow(u) : x = [step |-> b.step, val |-> q[b.val]]
    <3>1. PICK j \in DOMAIN Repeated(c) : x = At(j, Repeated(d)[j])
      BY <1>6
    <3>2. PICK b : b = At(j, Repeated(c)[j])
      OBVIOUS
    <3>3. b \in ShownBelow(u) /\ b.val = Repeated(c)[j]
      BY <1>5, <1>7, <3>2
    <3>4. [step |-> b.step, val |-> q[b.val]] = At(j, q[b.val])
      BY <1>8, <3>2
    <3> QED BY <3>1, <3>3, <3>4
  <2>2. ASSUME NEW b \in ShownBelow(u)
        PROVE  [step |-> b.step, val |-> q[b.val]] \in Tagged(p)
    <3>1. PICK j \in DOMAIN Repeated(c) : b = At(j, Repeated(c)[j])
      BY <1>5
    <3>2. b.val = Repeated(c)[j]
      BY <1>7, <3>1
    <3>3. [step |-> b.step, val |-> q[b.val]] = At(j, q[b.val])
      BY <1>8, <3>1
    <3> QED BY <1>6, <3>2, <3>3
  <2> QED BY <2>1, <2>2
<1>10. \A a, b \in ShownBelow(u) : a.step = b.step => a = b
  <2> SUFFICES ASSUME NEW a \in ShownBelow(u), NEW b \in ShownBelow(u), a.step = b.step
               PROVE  a = b
    OBVIOUS
  <2>1. PICK i \in DOMAIN Repeated(c) : a = At(i, Repeated(c)[i])
    BY <1>5
  <2>2. PICK j \in DOMAIN Repeated(c) : b = At(j, Repeated(c)[j])
    BY <1>5
  <2>3. i = j
    BY <1>7, <2>1, <2>2
  <2> QED BY <2>1, <2>2, <2>3
<1>11. \A b \in ShownBelow(u) : /\ XmlElements[q[b.val]] \in SUBSET XmlElement
                                /\ Shows[b.val][XmlElements[q[b.val]]]
  BY <1>5, <1>7
<1>12. TextOf(p) = NoText /\ NoText \in STRING
  <2>1. \A kid \in Kids(p) : kid.step # TextKey
    <3>1. \A kid \in Kids(p) : \E r, x : HasKid(p, r, x) /\ kid.step = r
      BY DEF Kids, HasKid
    <3> QED BY <1>2, <1>3, <3>1
  <2> QED BY <1>2, <2>1, PartFacts DEF TextOf, IsScalar
<1>13. ShownTexts(u) = {}
  <2>1. \A kid \in ShownKids(u) : \E r, x : KeptKid(u, r, x) /\ kid.step = r
    BY DEF ShownKids, Kids, KeptKid, HasKid
  <2>2. \A kid \in ShownKids(u) : kid.step # TextKey
    BY <1>2, <1>3, <2>1
  <2> QED BY <1>2, <2>2 DEF ShownTexts, IsScalar
<1>14. XmlElements[p] \in SUBSET XmlElement /\ Shows[u][XmlElements[p]]
  BY <1>2, <1>9, <1>10, <1>11, <1>12, <1>13, ShownByParts
<1> QED BY <1>1, <1>14

\* The document around what an upload holds.
RootOf(v) == Only(<<"root">>, IF v.t = "list" THEN Only(<<"item">>, v) ELSE v)

\* The XML that a document is turned into shows it, when it can be written in full.
THEOREM DocumentIsShown ==
  \A v \in Document : Showable(v) => Shows[RootOf(v)][XmlElements[ToXmlDocument(Pruned[v])]]
<1> SUFFICES ASSUME NEW v \in Document, Showable(v)
             PROVE  Shows[RootOf(v)][XmlElements[ToXmlDocument(Pruned[v])]]
  OBVIOUS
<1>1. PICK n : n = MaxNesting - 2
  OBVIOUS
<1>2. n \in Nat /\ n < MaxNesting /\ n + 1 \in Nat /\ n + 1 < MaxNesting
      /\ MaxNesting \in Nat
  BY <1>1, FormAssumption
<1>3. v \in ValuesUpTo[n] /\ v \in Value
  BY <1>1, <1>2, ValueLevelsGrow DEF Document, Value
<1>4. PICK d : d = Output(v)
  OBVIOUS
<1>5. d \in ValuesUpTo[n] /\ d \in Value
  <2>1. \A x \in Value : x \in ValuesUpTo[n] <=> ValueDepth[x] =< n
    BY <1>2, ValueDepths DEF IsValueDepth
  <2>2. \A x \in Value : ValueDepth[x] \in Nat
    BY ValueDepths DEF IsValueDepth
  <2>3. \A x \in Value : x \in ValuesUpTo[n] => ValuesUpTo[ValueDepth[x]] \subseteq ValuesUpTo[n]
    BY <1>2, <2>1, <2>2, ValueLevelsGrow
  <2>4. Pruned[v] \in ValuesUpTo[n] /\ Pruned[v] \in Value
    BY <1>3, <2>3, Pruning
  <2>5. PICK p : p = Pruned[v]
    OBVIOUS
  <2>6. PrepareXmlNode[p] \in ValuesUpTo[n] /\ PrepareXmlNode[p] \in Value
    BY <2>3, <2>4, <2>5, Preparing
  <2> QED BY <1>4, <2>5, <2>6 DEF Output
<1>6. PICK q : q = [x \in Value |-> Output(x)]
  OBVIOUS
<1>7. /\ DOMAIN Repeated(d) = DOMAIN Repeated(v)
      /\ \A j \in DOMAIN Repeated(v) : /\ Repeated(d)[j] = q[Repeated(v)[j]]
                                       /\ XmlElements[Repeated(d)[j]] \in SUBSET XmlElement
                                       /\ Shows[Repeated(v)[j]][XmlElements[Repeated(d)[j]]]
  <2>1. /\ DOMAIN Repeated(Output(v)) = DOMAIN Repeated(v)
        /\ \A j \in DOMAIN Repeated(v) : Repeated(Output(v))[j] = Output(Repeated(v)[j])
    BY <1>3, OutputItems
  <2>2. \A j \in DOMAIN Repeated(v) : Repeated(v)[j] \in Value /\ Showable(Repeated(v)[j])
    BY <1>3, RepeatedIsShowable
  <2>3. \A j \in DOMAIN Repeated(v) :
          /\ XmlElements[Output(Repeated(v)[j])] \in SUBSET XmlElement
          /\ Shows[Repeated(v)[j]][XmlElements[Output(Repeated(v)[j])]]
    BY <2>2, OutputShows
  <2>4. \A j \in DOMAIN Repeated(v) : Repeated(d)[j] = Output(Repeated(v)[j])
    BY <1>4, <2>1
  <2> QED BY <1>4, <1>6, <2>1, <2>2, <2>3, <2>4
<1>8. Pruned[v].t = v.t
  BY <1>3, PrunedKids
<1>9. CASE v.t = "list"
  <2>1. PICK c, e : c = Only(<<"item">>, v) /\ e = Only(<<"item">>, d)
    OBVIOUS
  <2>2. XmlElements[e] \in SUBSET XmlElement /\ Shows[c][XmlElements[e]]
    BY <1>2, <1>3, <1>5, <1>7, <2>1, OnlyShows
  <2>3. /\ c \in ValuesUpTo[n + 1] /\ c \in Value /\ c.t = "map"
        /\ e \in ValuesUpTo[n + 1] /\ e \in Value /\ e.t = "map"
    BY <1>2, <1>3, <1>5, <2>1, OnlyEntry
  <2>4. PICK f : f = [x \in Value |-> e]
    OBVIOUS
  <2>5. Repeated(c) = <<c>> /\ Repeated(e) = <<e>>
    BY <2>3 DEF Repeated
  <2>6. /\ DOMAIN Repeated(e) = DOMAIN Repeated(c)
        /\ \A j \in DOMAIN Repeated(c) : /\ Repeated(e)[j] = f[Repeated(c)[j]]
                                         /\ XmlElements[Repeated(e)[j]] \in SUBSET XmlElement
                                         /\ Shows[Repeated(c)[j]][XmlElements[Repeated(e)[j]]]
    <3>1. \A x : DOMAIN <<x>> = {1} /\ <<x>>[1] = x
      OBVIOUS
    <3> QED BY <2>2, <2>3, <2>4, <2>5, <3>1
  <2>7. Shows[Only(<<"root">>, c)][XmlElements[Only(<<"root">>, e)]]
    <3>1. PICK m : m = n + 1
      OBVIOUS
    <3> QED BY <1>2, <2>3, <2>6, <3>1, OnlyShows
  <2>8. ToXmlDocument(Pruned[v]) = Only(<<"root">>, e)
    BY <1>4, <1>8, <1>9, <2>1 DEF ToXmlDocument, Only, Output
  <2>9. RootOf(v) = Only(<<"root">>, c)
    BY <1>9, <2>1 DEF RootOf
  <2> QED BY <2>7, <2>8, <2>9
<1>10. CASE v.t # "list"
  <2>1. Shows[Only(<<"root">>, v)][XmlElements[Only(<<"root">>, d)]]
    BY <1>2, <1>3, <1>5, <1>7, OnlyShows
  <2>2. ToXmlDocument(Pruned[v]) = Only(<<"root">>, d)
    BY <1>4, <1>8, <1>10 DEF ToXmlDocument, Only, Output
  <2>3. RootOf(v) = Only(<<"root">>, v)
    BY <1>10 DEF RootOf
  <2> QED BY <2>1, <2>2, <2>3
<1> QED BY <1>9, <1>10
=============================================================================
