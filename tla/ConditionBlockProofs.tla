----------------------- MODULE ConditionBlockProofs -----------------------
(***************************************************************************)
(* The code of conditions does what they mean: for every if chain, loop    *)
(* and boolean value, over conditions of any depth and any values.         *)
(***************************************************************************)
EXTENDS ConditionBlock, WellFoundedInduction, NaturalsInduction, SequenceTheorems, TLAPS

-----------------------------------------------------------------------------
(* Recursive functions.  One whose value at c depends on its values at     *)
(* smaller depths only has the values its definition gives.                *)

LEMMA LeastNumber ==
    ASSUME NEW S \in SUBSET Nat, S # {}
    PROVE  \E i \in S : \A j \in S : i <= j
<1> DEFINE R == OpToRel(<, Nat)
<1>1. IsWellFoundedOn(R, Nat)
  BY NatLessThanWellFounded
<1>2. \A i, j \in Nat : i < j => <<i, j>> \in R
  BY DEF OpToRel
<1> HIDE DEF R
<1>3. PICK i \in S : \A j \in S : <<j, i>> \notin R
  BY <1>1, WFMin
<1>4. ASSUME NEW j \in S PROVE i <= j
  <2>1. i \in Nat /\ j \in Nat /\ ~(j < i)
    BY <1>2, <1>3
  <2> QED
    BY <2>1
<1> QED
  BY <1>3, <1>4

(* Induction over the depth: T is what holds of the elements of C. *)
LEMMA DepthInduction ==
    ASSUME NEW C, NEW D \in [C -> Nat], NEW T,
           \A c \in C : (\A d \in C : D[d] < D[c] => d \in T) => c \in T
    PROVE  C \subseteq T
<1> DEFINE Bad == {D[c] : c \in C \ T}
<1>1. ASSUME Bad # {} PROVE FALSE
  <2>1. PICK m \in Bad : \A j \in Bad : m <= j
    <3>1. Bad \in SUBSET Nat
      OBVIOUS
    <3> HIDE DEF Bad
    <3> QED
      BY <1>1, <3>1, LeastNumber
  <2>2. PICK c \in C \ T : D[c] = m
    OBVIOUS
  <2>3. ASSUME NEW d \in C, D[d] < D[c] PROVE d \in T
    <3>1. D[d] \in Nat /\ D[c] \in Nat /\ ~(m <= D[d])
      BY <2>2, <2>3
    <3> QED
      BY <2>1, <3>1
  <2> QED
    BY <2>2, <2>3
<1> QED
  BY <1>1

(* Induction over the positions in a sequence. *)
LEMMA UpToInduction ==
    ASSUME NEW n \in Nat, NEW T, 0 \in T, \A i \in 1..n : i - 1 \in T => i \in T
    PROVE  \A i \in 0..n : i \in T
<1> DEFINE Bad == {i \in 0..n : i \notin T}
<1>1. ASSUME Bad # {} PROVE FALSE
  <2>1. Bad \in SUBSET Nat
    OBVIOUS
  <2>2. PICK m \in Bad : \A j \in Bad : m <= j
    <3> HIDE DEF Bad
    <3> QED BY <1>1, <2>1, LeastNumber
  <2>3. m \in 1..n /\ m - 1 \in 0..n /\ ~(m <= m - 1)
    BY <2>2
  <2>4. m - 1 \in T
    BY <2>2, <2>3
  <2> QED
    BY <2>3, <2>4
<1> QED
  BY <1>1

Solves(f, G, C, D, V, n) == f \in [C -> V] /\ \A c \in C : D[c] < n => f[c] = G[c][f]
Downward(G, C, D, V) ==
    \A c \in C : \A f, g \in [C -> V] :
        (\A d \in C : D[d] < D[c] => f[d] = g[d]) => G[c][f] = G[c][g]

LEMMA SolutionsAgree ==
    ASSUME NEW C, NEW D \in [C -> Nat], NEW V, NEW G, Downward(G, C, D, V),
           NEW n \in Nat, NEW f, NEW g, Solves(f, G, C, D, V, n), Solves(g, G, C, D, V, n)
    PROVE  \A c \in C : D[c] < n => f[c] = g[c]
<1> DEFINE Bad == {D[c] : c \in {d \in C : D[d] < n /\ f[d] # g[d]}}
<1>1. ASSUME Bad # {} PROVE FALSE
  <2>1. Bad \in SUBSET Nat
    OBVIOUS
  <2>2. PICK m \in Bad : \A j \in Bad : m <= j
    <3> HIDE DEF Bad
    <3> QED
      BY <1>1, <2>1, LeastNumber
  <2>3. PICK c \in C : D[c] = m /\ D[c] < n /\ f[c] # g[c]
    OBVIOUS
  <2>4. ASSUME NEW d \in C, D[d] < D[c] PROVE f[d] = g[d]
    <3>1. D[d] \in Nat /\ D[c] \in Nat /\ ~(m <= D[d]) /\ D[d] < n
      BY <2>3, <2>4
    <3>2. D[d] \notin Bad
      BY <2>2, <3>1
    <3> QED
      BY <3>1, <3>2
  <2>5. G[c][f] = G[c][g]
    BY <2>4 DEF Downward, Solves
  <2> QED
    BY <2>3, <2>5 DEF Solves
<1> QED
  BY <1>1

LEMMA SolutionsExist ==
    ASSUME NEW C, NEW D \in [C -> Nat], NEW V, V # {}, NEW G \in [C -> [[C -> V] -> V]],
           Downward(G, C, D, V)
    PROVE  \A n \in Nat : \E f : Solves(f, G, C, D, V, n)
<1> DEFINE Bad == {n \in Nat : ~\E f : Solves(f, G, C, D, V, n)}
<1>1. ASSUME Bad # {} PROVE FALSE
  <2>1. PICK n \in Bad : \A j \in Bad : n <= j
    <3>1. Bad \in SUBSET Nat
      OBVIOUS
    <3> HIDE DEF Bad
    <3> QED
      BY <1>1, <3>1, LeastNumber
  <2>2. CASE n = 0
    <3>1. PICK v \in V : TRUE
      OBVIOUS
    <3>2. \A c \in C : ~(D[c] < 0)
      OBVIOUS
    <3>3. Solves([c \in C |-> v], G, C, D, V, n)
      BY <2>2, <3>2 DEF Solves
    <3> QED
      BY <2>1, <3>3
  <2>3. CASE n # 0
    <3>1. n \in Nat /\ n - 1 \in Nat /\ ~(n <= n - 1)
      BY <2>3
    <3>2. PICK f : Solves(f, G, C, D, V, n - 1)
      BY <2>1, <3>1
    <3> DEFINE g == [c \in C |-> IF D[c] = n - 1 THEN G[c][f] ELSE f[c]]
    <3>3. f \in [C -> V]
      BY <3>2 DEF Solves
    <3>4. g \in [C -> V]
      BY <3>3
    <3>5. ASSUME NEW c \in C, D[c] < n PROVE g[c] = G[c][g]
      <4>1. \A d \in C : D[d] < D[c] => g[d] = f[d]
        <5> SUFFICES ASSUME NEW d \in C, D[d] < D[c] PROVE g[d] = f[d]
          OBVIOUS
        <5>1. D[d] # n - 1
          BY <3>1, <3>5
        <5> QED
          BY <5>1
      <4>2. G[c][g] = G[c][f]
        <5> HIDE DEF g
        <5> QED BY <3>3, <3>4, <4>1 DEF Downward
      <4>3. CASE D[c] = n - 1
        BY <4>2, <4>3
      <4>4. CASE D[c] # n - 1
        <5>1. D[c] < n - 1
          <6>1. \A i, j \in Nat : i < j /\ i # j - 1 => i < j - 1
            OBVIOUS
          <6>2. D[c] \in Nat
            OBVIOUS
          <6> QED
            BY <3>1, <3>5, <4>4, <6>1, <6>2
        <5>2. f[c] = G[c][f]
          BY <3>2, <5>1 DEF Solves
        <5> QED
          BY <4>2, <4>4, <5>2
      <4> QED
        BY <4>3, <4>4
    <3>6. Solves(g, G, C, D, V, n)
      <4> HIDE DEF g
      <4> QED BY <3>4, <3>5 DEF Solves
    <3> QED
      BY <2>1, <3>6
  <2> QED
    BY <2>2, <2>3
<1> QED
  BY <1>1

Recursion(G, C, D, V) ==
    D \in [C -> Nat] /\ V # {} /\ G \in [C -> [[C -> V] -> V]] /\ Downward(G, C, D, V)
HasSolution(G, C, V) == \E f \in [C -> V] : \A c \in C : f[c] = G[c][f]

LEMMA RecursionHolds ==
    ASSUME NEW C, NEW D, NEW V, NEW G, Recursion(G, C, D, V)
    PROVE  HasSolution(G, C, V)
<1>0. D \in [C -> Nat] /\ V # {} /\ G \in [C -> [[C -> V] -> V]] /\ Downward(G, C, D, V)
  BY DEF Recursion
<1> DEFINE F(n) == CHOOSE f : Solves(f, G, C, D, V, n)
           h == [c \in C |-> F(D[c] + 1)[c]]
<1>1. ASSUME NEW n \in Nat PROVE Solves(F(n), G, C, D, V, n)
  BY <1>0, SolutionsExist
<1> HIDE DEF F
<1>2. ASSUME NEW c \in C PROVE F(D[c] + 1) \in [C -> V] /\ F(D[c] + 1)[c] = G[c][F(D[c] + 1)]
  <2>1. D[c] + 1 \in Nat /\ D[c] < D[c] + 1
    BY <1>0
  <2> QED
    BY <1>1, <2>1 DEF Solves
<1>3. h \in [C -> V]
  BY <1>2
<1>4. ASSUME NEW c \in C PROVE h[c] = G[c][h]
  <2>1. ASSUME NEW d \in C, D[d] < D[c] PROVE h[d] = F(D[c] + 1)[d]
    <3>1. D[d] + 1 \in Nat /\ D[c] + 1 \in Nat /\ D[d] < D[d] + 1 /\ D[d] + 1 <= D[c] + 1
      BY <1>0, <2>1
    <3>2. Solves(F(D[c] + 1), G, C, D, V, D[d] + 1)
      <4>1. \A e \in C : D[e] < D[d] + 1 => D[e] < D[c] + 1
        BY <1>0, <3>1
      <4> QED
        BY <1>1, <3>1, <4>1 DEF Solves
    <3>3. Solves(F(D[d] + 1), G, C, D, V, D[d] + 1)
      BY <1>1, <3>1
    <3>4. \A e \in C : D[e] < D[d] + 1 => F(D[d] + 1)[e] = F(D[c] + 1)[e]
      BY <1>0, <3>1, <3>2, <3>3, SolutionsAgree
    <3>5. F(D[d] + 1)[d] = F(D[c] + 1)[d]
      BY <3>1, <3>4
    <3> QED
      BY <3>5
  <2>2. G[c][h] = G[c][F(D[c] + 1)]
    <3> HIDE DEF h
    <3> QED BY <1>0, <1>2, <1>3, <2>1 DEF Downward
  <2> QED
    BY <1>2, <2>2
<1> QED
  <2> HIDE DEF h
  <2> QED BY <1>3, <1>4 DEF HasSolution

-----------------------------------------------------------------------------
(* Conditions *)

IsLeaf(c) == c.op \in DOMAIN Relation
LEMMA Operands ==
    ASSUME NEW c \in Conditions
    PROVE  \/ c.op = "not" /\ ~IsLeaf(c) /\ c.arg \in Conditions /\ Depth[c.arg] < Depth[c]
           \/ /\ c.op \in {"and", "or"} /\ ~IsLeaf(c)
              /\ c.left \in Conditions /\ Depth[c.left] < Depth[c]
              /\ c.right \in Conditions /\ Depth[c.right] < Depth[c]
           \/ /\ IsLeaf(c) /\ c.op \notin {"not", "and", "or"} /\ c.size \in Nat \ {0}
              /\ \A v \in Values : v[c.id] \in IF c.op = "boolean" THEN {0, 1} ELSE {-1, 0, 1}
BY ConditionAssumption DEF IsLeaf, Relation

LEMMA TruthsAre ==
    /\ Truths \in [Conditions -> SUBSET Values]
    /\ \A c \in Conditions :
        Truths[c] = CASE c.op = "not" -> Values \ Truths[c.arg]
                      [] c.op = "and" -> Truths[c.left] \cap Truths[c.right]
                      [] c.op = "or"  -> Truths[c.left] \cup Truths[c.right]
                      [] OTHER        -> {v \in Values : v[c.id] \in Relation[c.op]}
<1> DEFINE Value(c, f) == CASE c.op = "not" -> Values \ f[c.arg]
                            [] c.op = "and" -> f[c.left] \cap f[c.right]
                            [] c.op = "or"  -> f[c.left] \cup f[c.right]
                            [] OTHER        -> {v \in Values : v[c.id] \in Relation[c.op]}
           V == SUBSET Values
           G == [c \in Conditions |-> [f \in [Conditions -> V] |-> Value(c, f)]]
           T == {c \in Conditions : Truths[c] \in V}
<1>0. Depth \in [Conditions -> Nat] /\ V # {}
  BY ConditionAssumption
<1>1. \A c \in Conditions : \A f \in [Conditions -> V] : Value(c, f) \in V
  BY Operands
<1>2. G \in [Conditions -> [[Conditions -> V] -> V]]
  <2> HIDE DEF Value, V
  <2> QED BY <1>1
<1>3. Downward(G, Conditions, Depth, V)
  <2> SUFFICES ASSUME NEW c \in Conditions, NEW f \in [Conditions -> V], NEW g \in [Conditions -> V],
                      \A d \in Conditions : Depth[d] < Depth[c] => f[d] = g[d]
               PROVE  Value(c, f) = Value(c, g)
    BY DEF Downward
  <2> QED
    BY Operands
<1>4. HasSolution(G, Conditions, V)
  <2> HIDE DEF G, V
  <2>1. Recursion(G, Conditions, Depth, V)
    BY <1>0, <1>2, <1>3 DEF Recursion
  <2> QED BY <2>1, RecursionHolds
<1>5. PICK f \in [Conditions -> V] : f = [c \in Conditions |-> Value(c, f)]
  BY <1>4 DEF HasSolution
<1>6. Truths = [c \in Conditions |-> Value(c, Truths)]
  BY <1>5 DEF Truths
<1>7. ASSUME NEW c \in Conditions, \A d \in Conditions : Depth[d] < Depth[c] => d \in T
      PROVE  c \in T
  <2>1. Truths[c] = Value(c, Truths)
    BY <1>6
  <2> QED
    BY <1>7, <2>1, Operands
<1>8. Conditions \subseteq T
  <2> HIDE DEF T
  <2> QED BY <1>0, <1>7, DepthInduction
<1> QED
  BY <1>6, <1>8
LEMMA HoldsIs ==
    ASSUME NEW c \in Conditions, NEW v \in Values
    PROVE  /\ Holds(c, v) \in BOOLEAN
           /\ c.op = "not" => (Holds(c, v) <=> ~Holds(c.arg, v))
           /\ c.op = "and" => (Holds(c, v) <=> Holds(c.left, v) /\ Holds(c.right, v))
           /\ c.op = "or" => (Holds(c, v) <=> Holds(c.left, v) \/ Holds(c.right, v))
           /\ IsLeaf(c) => (Holds(c, v) <=> v[c.id] \in Relation[c.op])
BY TruthsAre, Operands DEF Holds

Ids == {c.id : c \in Conditions}
LEMMA TestedByIs ==
    /\ TestedBy \in [Conditions -> [Values -> Seq(Ids)]]
    /\ \A c \in Conditions, v \in Values :
        TestedBy[c][v] = CASE c.op = "not" -> TestedBy[c.arg][v]
                           [] c.op \in {"and", "or"} ->
                                  TestedBy[c.left][v]
                                  \o (IF Holds(c.left, v) <=> c.op = "and" THEN TestedBy[c.right][v] ELSE <<>>)
                           [] OTHER -> <<c.id>>
<1> DEFINE At(c, f, v) == CASE c.op = "not" -> f[c.arg][v]
                            [] c.op \in {"and", "or"} ->
                                   f[c.left][v]
                                   \o (IF Holds(c.left, v) <=> c.op = "and" THEN f[c.right][v] ELSE <<>>)
                            [] OTHER -> <<c.id>>
           Value(c, f) == [v \in Values |-> At(c, f, v)]
           V == [Values -> Seq(Ids)]
           G == [c \in Conditions |-> [f \in [Conditions -> V] |-> Value(c, f)]]
           T == {c \in Conditions : TestedBy[c] \in V}
<1>0. Depth \in [Conditions -> Nat]
  BY ConditionAssumption
<1>1. ASSUME NEW c \in Conditions, NEW f, \A d \in Conditions : Depth[d] < Depth[c] => f[d] \in V,
             NEW v \in Values
      PROVE  At(c, f, v) \in Seq(Ids)
  <2>1. \A d \in Conditions : Depth[d] < Depth[c] => f[d][v] \in Seq(Ids)
    BY <1>1
  <2>2. <<>> \in Seq(Ids) /\ <<c.id>> \in Seq(Ids)
    BY DEF Ids
  <2>3. \A x, y \in Seq(Ids) : x \o y \in Seq(Ids)
    OBVIOUS
  <2> HIDE DEF V
  <2>4. CASE c.op = "not"
    BY <2>1, <2>4, Operands
  <2>5. CASE c.op \in {"and", "or"}
    BY <2>1, <2>2, <2>3, <2>5, Operands
  <2>6. CASE IsLeaf(c)
    BY <2>2, <2>6, Operands
  <2> QED
    BY <2>4, <2>5, <2>6, Operands
<1>2. G \in [Conditions -> [[Conditions -> V] -> V]]
  <2>1. \A c \in Conditions : \A f \in [Conditions -> V] : Value(c, f) \in V
    <3> HIDE DEF At
    <3>1. ASSUME NEW c \in Conditions, NEW f \in [Conditions -> V], NEW v \in Values
          PROVE  At(c, f, v) \in Seq(Ids)
      <4>1. \A d \in Conditions : Depth[d] < Depth[c] => f[d] \in V
        OBVIOUS
      <4> QED BY <1>1, <4>1
    <3> QED BY <3>1
  <2> HIDE DEF Value, V
  <2> QED BY <2>1
<1>3. Downward(G, Conditions, Depth, V)
  <2> SUFFICES ASSUME NEW c \in Conditions, NEW f \in [Conditions -> V], NEW g \in [Conditions -> V],
                      \A d \in Conditions : Depth[d] < Depth[c] => f[d] = g[d]
               PROVE  Value(c, f) = Value(c, g)
    <3> HIDE DEF Value
    <3> QED BY DEF Downward
  <2>1. \A v \in Values : At(c, f, v) = At(c, g, v)
    BY Operands
  <2> QED
    BY <2>1
<1>4. HasSolution(G, Conditions, V)
  <2>1. V # {}
    <3>1. [v \in Values |-> <<>>] \in V
      OBVIOUS
    <3> QED BY <3>1
  <2> HIDE DEF G, V
  <2>2. Recursion(G, Conditions, Depth, V)
    BY <1>0, <1>2, <1>3, <2>1 DEF Recursion
  <2> QED BY <2>2, RecursionHolds
<1>5. PICK f \in [Conditions -> V] : f = [c \in Conditions |-> Value(c, f)]
  BY <1>4 DEF HasSolution
<1>6. TestedBy = [c \in Conditions |-> Value(c, TestedBy)]
  BY <1>5 DEF TestedBy
<1>7. ASSUME NEW c \in Conditions, \A d \in Conditions : Depth[d] < Depth[c] => d \in T
      PROVE  c \in T
  <2>1. \A d \in Conditions : Depth[d] < Depth[c] => TestedBy[d] \in V
    BY <1>7
  <2> HIDE DEF At
  <2>2. \A v \in Values : At(c, TestedBy, v) \in Seq(Ids)
    BY <1>1, <2>1
  <2> QED
    BY <1>6, <2>2
<1>8. Conditions \subseteq T
  <2> HIDE DEF T
  <2> QED BY <1>0, <1>7, DepthInduction
<1>9. TestedBy \in [Conditions -> V]
  <2> HIDE DEF Value, V
  <2> QED BY <1>6, <1>8
<1>10. ASSUME NEW c \in Conditions, NEW v \in Values PROVE TestedBy[c][v] = At(c, TestedBy, v)
  <2>1. TestedBy[c] = Value(c, TestedBy)
    <3> HIDE DEF Value
    <3> QED BY <1>6
  <2> HIDE DEF At
  <2> QED BY <2>1
<1> QED
  BY <1>9, <1>10

-----------------------------------------------------------------------------
(* Blocks: every instruction has a size, so that later ones start later.   *)

Loads == [do : {"load"}, size : Nat \ {0}]
Ifs == [do : {"if"}, type : IfTypes, leaf : Ids, jump : Nat, size : {3}]
Gotos == [do : {"goto"}, jump : Int, size : {3}]
Bodies == [do : {"body"}, branch : Nat, size : Nat \ {0}]
Pushes == [do : {"push"}, value : {0, 1}, size : {1}]
Instructions == Loads \cup Ifs \cup Gotos \cup Bodies \cup Pushes

LEMMA SizesAreNumbers ==
    ASSUME NEW instruction \in Instructions
    PROVE  instruction.size \in Nat \ {0}
BY DEF Instructions, Loads, Ifs, Gotos, Bodies, Pushes

LEMMA EndsAre ==
    ASSUME NEW block \in Seq(Instructions)
    PROVE  /\ Ends(block) \in [0..Len(block) -> Nat]
           /\ Ends(block)[0] = 0
           /\ \A i \in 1..Len(block) : Ends(block)[i] = Ends(block)[i - 1] + block[i].size
           /\ Size(block) \in Nat
<1> DEFINE C == 0..Len(block)
           D == [i \in C |-> i]
           Value(i, f) == IF i = 0 THEN 0 ELSE f[i - 1] + block[i].size
           G == [i \in C |-> [f \in [C -> Nat] |-> Value(i, f)]]
           T == {i \in C : Ends(block)[i] \in Nat}
<1>0. D \in [C -> Nat] /\ Nat # {} /\ Len(block) \in Nat
  OBVIOUS
<1>1. ASSUME NEW i \in C, i # 0
      PROVE  i \in Nat /\ i - 1 \in C /\ D[i - 1] < D[i] /\ block[i].size \in Nat
  <2>1. i \in DOMAIN block
    BY <1>1
  <2>2. block[i] \in Instructions
    BY <2>1
  <2> QED
    BY <1>1, <2>2, SizesAreNumbers
<1>2. G \in [C -> [[C -> Nat] -> Nat]]
  <2>1. ASSUME NEW i \in C, NEW f \in [C -> Nat] PROVE Value(i, f) \in Nat
    <3>1. CASE i = 0
      BY <3>1
    <3>2. CASE i # 0
      <4> HIDE DEF C
      <4>1. f[i - 1] \in Nat /\ block[i].size \in Nat
        BY <1>1, <3>2
      <4> QED BY <3>2, <4>1
    <3> QED BY <3>1, <3>2
  <2> HIDE DEF C, Value
  <2> QED BY <2>1
<1>3. Downward(G, C, D, Nat)
  <2> SUFFICES ASSUME NEW i \in C, NEW f \in [C -> Nat], NEW g \in [C -> Nat],
                      \A d \in C : D[d] < D[i] => f[d] = g[d]
               PROVE  Value(i, f) = Value(i, g)
    <3> HIDE DEF Value, C, D
    <3> QED BY DEF Downward
  <2> HIDE DEF C, D
  <2> QED
    BY <1>1
<1>4. HasSolution(G, C, Nat)
  <2> HIDE DEF G, C, D
  <2>1. Recursion(G, C, D, Nat)
    BY <1>0, <1>2, <1>3 DEF Recursion
  <2> QED BY <2>1, RecursionHolds
<1>5. PICK f \in [C -> Nat] : f = [i \in C |-> Value(i, f)]
  <2> HIDE DEF C, Value
  <2> QED BY <1>4 DEF HasSolution
<1>6. Ends(block) = [i \in C |-> Value(i, Ends(block))]
  BY <1>5 DEF Ends
<1>7. ASSUME NEW i \in C, \A d \in C : D[d] < D[i] => d \in T
      PROVE  i \in T
  <2>1. Ends(block)[i] = Value(i, Ends(block))
    <3> HIDE DEF C, Value
    <3> QED BY <1>6
  <2> HIDE DEF C, D
  <2> QED
    BY <1>1, <1>7, <2>1
<1>8. C \subseteq T
  <2> HIDE DEF T, C, D
  <2> QED BY <1>0, <1>7, DepthInduction
<1>9. Ends(block) \in [C -> Nat]
  <2> HIDE DEF C, Value
  <2> QED BY <1>6, <1>8
<1>10. ASSUME NEW i \in C PROVE Ends(block)[i] = Value(i, Ends(block))
  <2> HIDE DEF C, Value
  <2> QED BY <1>6
<1> QED
  <2>1. Ends(block)[0] = 0
    <3>1. 0 \in C
      BY <1>0
    <3> QED BY <1>10, <3>1
  <2>2. \A i \in 1..Len(block) : Ends(block)[i] = Ends(block)[i - 1] + block[i].size
    <3>1. \A i \in 1..Len(block) : i \in C /\ i # 0
      BY <1>0
    <3> HIDE DEF C
    <3> QED BY <1>10, <3>1
  <2>3. Len(block) \in C
    BY <1>0
  <2> QED
    BY <1>9, <2>1, <2>2, <2>3 DEF Size

LEMMA EndsGrow ==
    ASSUME NEW block \in Seq(Instructions)
    PROVE  /\ \A i \in 1..Len(block) : Ends(block)[i - 1] < Ends(block)[i]
           /\ \A i, j \in 0..Len(block) : i < j => Ends(block)[i] < Ends(block)[j]
           /\ \A i \in 1..Len(block) : Ends(block)[i - 1] < Size(block)
<1> DEFINE e == Ends(block)
           n == Len(block)
<1>1. n \in Nat /\ e \in [0..n -> Nat]
  BY EndsAre
<1>2. ASSUME NEW i \in 1..n PROVE i \in 0..n /\ i - 1 \in 0..n /\ e[i - 1] < e[i]
  <2>1. block[i] \in Instructions
    OBVIOUS
  <2>2. e[i] = e[i - 1] + block[i].size /\ block[i].size \in Nat \ {0}
    BY <2>1, EndsAre, SizesAreNumbers
  <2>3. i \in 0..n /\ i - 1 \in 0..n
    BY <1>1
  <2> HIDE DEF e, n
  <2>4. e[i] \in Nat /\ e[i - 1] \in Nat
    BY <1>1, <2>3
  <2> QED
    BY <2>2, <2>3, <2>4
<1>3. ASSUME NEW i \in 0..n PROVE \A j \in 0..n : i < j => e[i] < e[j]
  <2> DEFINE T == {j \in 0..n : i < j => e[i] < e[j]}
  <2> HIDE DEF n, e
  <2>1. 0 \in T
    BY <1>1
  <2>2. ASSUME NEW j \in 1..n, j - 1 \in T PROVE j \in T
    <3>1. j - 1 \in 0..n /\ j \in 0..n /\ (i < j => i = j - 1 \/ i < j - 1)
      BY <1>1
    <3>2. e[j - 1] < e[j] /\ e[j] \in Nat /\ e[j - 1] \in Nat /\ e[i] \in Nat
      BY <1>1, <1>2, <3>1
    <3> QED
      BY <2>2, <3>1, <3>2
  <2>3. \A j \in 0..n : j \in T
    <3> HIDE DEF T
    <3> QED BY <1>1, <2>1, <2>2, UpToInduction
  <2> QED
    BY <2>3
<1>4. ASSUME NEW i \in 1..n PROVE e[i - 1] < e[n]
  <2>1. i - 1 \in 0..n /\ n \in 0..n /\ i - 1 < n
    BY <1>1
  <2> HIDE DEF e, n
  <2> QED
    BY <1>3, <2>1
<1> QED
  BY <1>2, <1>3, <1>4 DEF Size

LEMMA OneStart ==
    ASSUME NEW block \in Seq(Instructions), NEW i \in 1..Len(block), NEW j \in 1..Len(block),
           Ends(block)[i - 1] = Ends(block)[j - 1]
    PROVE  i = j
<1>1. i - 1 \in 0..Len(block) /\ j - 1 \in 0..Len(block) /\ Len(block) \in Nat
  OBVIOUS
<1>2. Ends(block)[i - 1] \in Nat /\ Ends(block)[j - 1] \in Nat
  BY <1>1, EndsAre
<1>3. ~(i - 1 < j - 1) /\ ~(j - 1 < i - 1)
  BY <1>1, <1>2, EndsGrow
<1> QED
  BY <1>3

(* The code holds every instruction of the block at the offset it starts. *)
LEMMA EmittedAt ==
    ASSUME NEW block \in Seq(Instructions)
    PROVE  /\ \A i \in 1..Len(block) : /\ Ends(block)[i - 1] \in DOMAIN Emitted(block)
                                       /\ Emitted(block)[Ends(block)[i - 1]] = block[i]
           /\ \A at \in DOMAIN Emitted(block) : at < Size(block)
<1>1. DOMAIN block = 1..Len(block)
  OBVIOUS
<1>2. ASSUME NEW i \in 1..Len(block)
      PROVE  (CHOOSE j \in DOMAIN block : Ends(block)[j - 1] = Ends(block)[i - 1]) = i
  BY <1>1, OneStart
<1>3. ASSUME NEW i \in 1..Len(block)
      PROVE  /\ Ends(block)[i - 1] \in DOMAIN Emitted(block)
             /\ Emitted(block)[Ends(block)[i - 1]] = block[i]
  <2>1. Ends(block)[i - 1] \in {Ends(block)[j - 1] : j \in DOMAIN block}
    BY <1>1
  <2> QED
    BY <1>2, <2>1 DEF Emitted
<1>4. ASSUME NEW at \in DOMAIN Emitted(block) PROVE at < Size(block)
  <2>1. PICK i \in 1..Len(block) : at = Ends(block)[i - 1]
    BY <1>1 DEF Emitted
  <2> QED
    BY <2>1, EndsGrow
<1> QED
  BY <1>3, <1>4

-----------------------------------------------------------------------------
(* One block within another: sub starts p bytes after the start of block.  *)

Within(block, sub, p) ==
    \A i \in 1..Len(sub) : \E j \in 1..Len(block) :
        block[j] = sub[i] /\ Ends(block)[j - 1] = p + Ends(sub)[i - 1]

LEMMA WithinWithin ==
    ASSUME NEW outer \in Seq(Instructions), NEW block \in Seq(Instructions), NEW sub \in Seq(Instructions),
           NEW p \in Nat, NEW q \in Nat, Within(outer, block, p), Within(block, sub, q)
    PROVE  Within(outer, sub, p + q)
<1> SUFFICES ASSUME NEW i \in 1..Len(sub)
             PROVE  \E k \in 1..Len(outer) : outer[k] = sub[i] /\ Ends(outer)[k - 1] = (p + q) + Ends(sub)[i - 1]
  BY DEF Within
<1>1. PICK j \in 1..Len(block) : block[j] = sub[i] /\ Ends(block)[j - 1] = q + Ends(sub)[i - 1]
  BY DEF Within
<1>2. PICK k \in 1..Len(outer) : outer[k] = block[j] /\ Ends(outer)[k - 1] = p + Ends(block)[j - 1]
  BY DEF Within
<1>3. i - 1 \in 0..Len(sub) /\ Ends(sub)[i - 1] \in Nat
  BY EndsAre
<1> QED
  BY <1>1, <1>2, <1>3

LEMMA EndsOfBoth ==
    ASSUME NEW a \in Seq(Instructions), NEW b \in Seq(Instructions)
    PROVE  /\ a \o b \in Seq(Instructions)
           /\ \A i \in 0..Len(a) : Ends(a \o b)[i] = Ends(a)[i]
           /\ \A i \in 0..Len(b) : Ends(a \o b)[Len(a) + i] = Size(a) + Ends(b)[i]
           /\ Size(a \o b) = Size(a) + Size(b)
<1> DEFINE ab == a \o b
           m == Len(a)
           n == Len(b)
           e == Ends(ab)
           ea == Ends(a)
           eb == Ends(b)
<1>1. /\ ab \in Seq(Instructions) /\ m \in Nat /\ n \in Nat /\ Len(ab) = m + n
      /\ \A i \in 1..m : ab[i] = a[i]
      /\ \A i \in 1..n : ab[m + i] = b[i]
  OBVIOUS
<1>2. /\ e \in [0..(m + n) -> Nat] /\ e[0] = 0 /\ \A i \in 1..(m + n) : e[i] = e[i - 1] + ab[i].size
      /\ ea \in [0..m -> Nat] /\ ea[0] = 0 /\ \A i \in 1..m : ea[i] = ea[i - 1] + a[i].size
      /\ eb \in [0..n -> Nat] /\ eb[0] = 0 /\ \A i \in 1..n : eb[i] = eb[i - 1] + b[i].size
  BY <1>1, EndsAre
<1> HIDE DEF e, ea, eb, ab, m, n
<1>3. \A i \in 0..m : i \in {j \in 0..m : e[j] = ea[j]}
  <2> DEFINE T == {j \in 0..m : e[j] = ea[j]}
  <2>1. 0 \in T
    BY <1>1, <1>2
  <2>2. ASSUME NEW i \in 1..m, i - 1 \in T PROVE i \in T
    <3>1. i \in 0..m /\ i \in 1..(m + n)
      BY <1>1
    <3> QED
      BY <1>1, <1>2, <2>2, <3>1
  <2> HIDE DEF T
  <2>3. \A i \in 0..m : i \in T
    BY <1>1, <2>1, <2>2, UpToInduction
  <2> QED
    BY <2>3 DEF T
<1>4. e[m] = ea[m] /\ ea[m] \in Nat
  <2>1. m \in 0..m
    BY <1>1
  <2> QED
    BY <1>2, <1>3, <2>1
<1>5. \A i \in 0..n : i \in {j \in 0..n : e[m + j] = ea[m] + eb[j]}
  <2> DEFINE T == {j \in 0..n : e[m + j] = ea[m] + eb[j]}
  <2>1. 0 \in T
    BY <1>1, <1>2, <1>4
  <2>2. ASSUME NEW i \in 1..n, i - 1 \in T PROVE i \in T
    <3>1. i \in 0..n /\ m + i \in 1..(m + n) /\ m + i \in 0..(m + n) /\ m + i - 1 = m + (i - 1)
      BY <1>1
    <3>2. e[m + (i - 1)] = ea[m] + eb[i - 1]
      BY <2>2
    <3>3. e[m + i] = e[m + i - 1] + ab[m + i].size
      <4>1. PICK k \in 1..(m + n) : k = m + i
        BY <3>1
      <4>2. e[k] = e[k - 1] + ab[k].size
        BY <1>2
      <4> QED BY <1>1, <4>1, <4>2
    <3>4. eb[i] = eb[i - 1] + b[i].size /\ ab[m + i] = b[i]
      BY <1>1, <1>2
    <3>5. eb[i - 1] \in Nat /\ eb[i] \in Nat
      <4>1. i - 1 \in 0..n
        BY <1>1
      <4> QED BY <1>2, <3>1, <4>1
    <3>6. b[i].size \in Nat
      <4>1. b[i] \in Instructions
        BY DEF n
      <4> QED BY <4>1, SizesAreNumbers
    <3> QED
      BY <1>4, <3>1, <3>2, <3>3, <3>4, <3>5, <3>6
  <2> HIDE DEF T
  <2>3. \A i \in 0..n : i \in T
    BY <1>1, <2>1, <2>2, UpToInduction
  <2> QED
    BY <2>3 DEF T
<1>6. Size(ab) = Size(a) + Size(b)
  <2>1. n \in 0..n
    BY <1>1
  <2>2. e[m + n] = ea[m] + eb[n]
    BY <1>5, <2>1
  <2> QED
    BY <1>1, <2>2 DEF Size, e, ea, eb, m, n
<1> QED
  BY <1>1, <1>3, <1>5, <1>6 DEF Size, e, ea, eb, m, n, ab

LEMMA WithinBoth ==
    ASSUME NEW a \in Seq(Instructions), NEW b \in Seq(Instructions)
    PROVE  Within(a \o b, a, 0) /\ Within(a \o b, b, Size(a))
<1>1. ASSUME NEW i \in 1..Len(a)
      PROVE  i \in 1..Len(a \o b) /\ (a \o b)[i] = a[i] /\ Ends(a \o b)[i - 1] = 0 + Ends(a)[i - 1]
  <2>1. i - 1 \in 0..Len(a) /\ i \in 1..Len(a \o b) /\ (a \o b)[i] = a[i]
    OBVIOUS
  <2>2. Ends(a \o b)[i - 1] = Ends(a)[i - 1] /\ Ends(a)[i - 1] \in Nat
    BY <2>1, EndsOfBoth, EndsAre
  <2> QED
    BY <2>1, <2>2
<1>2. ASSUME NEW i \in 1..Len(b)
      PROVE  /\ Len(a) + i \in 1..Len(a \o b) /\ (a \o b)[Len(a) + i] = b[i]
             /\ Ends(a \o b)[Len(a) + i - 1] = Size(a) + Ends(b)[i - 1]
  <2>1. i - 1 \in 0..Len(b) /\ Len(a) + i \in 1..Len(a \o b) /\ (a \o b)[Len(a) + i] = b[i]
    OBVIOUS
  <2>2. Len(a) + i - 1 = Len(a) + (i - 1)
    OBVIOUS
  <2> QED
    BY <2>1, <2>2, EndsOfBoth
<1>3. Within(a \o b, a, 0)
  BY <1>1 DEF Within
<1>4. Within(a \o b, b, Size(a))
  <2> SUFFICES ASSUME NEW i \in 1..Len(b)
               PROVE  \E j \in 1..Len(a \o b) : (a \o b)[j] = b[i]
                                               /\ Ends(a \o b)[j - 1] = Size(a) + Ends(b)[i - 1]
    BY DEF Within
  <2> WITNESS Len(a) + i \in 1..Len(a \o b)
  <2> QED
    BY <1>2
<1> QED
  BY <1>3, <1>4

-----------------------------------------------------------------------------
(* What build_condition_block gives *)

LEMMA OrOnTrueIs ==
    /\ OrOnTrue \in [Conditions -> SUBSET JumpTypes]
    /\ \A c \in Conditions, type \in JumpTypes :
        type \in OrOnTrue[c] <=>
            CASE c.op = "not" -> Flip(type) \in OrOnTrue[c.arg]
              [] c.op = "and" -> "IS_ZERO" \in OrOnTrue[c.left] \/ type \in OrOnTrue[c.right]
              [] c.op = "or"  -> \/ type = "IS_NONZERO"
                                 \/ "IS_NONZERO" \in OrOnTrue[c.left] \/ type \in OrOnTrue[c.right]
              [] OTHER        -> FALSE
<1> DEFINE In(c, f, type) ==
               CASE c.op = "not" -> Flip(type) \in f[c.arg]
                 [] c.op = "and" -> "IS_ZERO" \in f[c.left] \/ type \in f[c.right]
                 [] c.op = "or"  -> \/ type = "IS_NONZERO"
                                    \/ "IS_NONZERO" \in f[c.left] \/ type \in f[c.right]
                 [] OTHER        -> FALSE
           Value(c, f) == {type \in JumpTypes : In(c, f, type)}
           V == SUBSET JumpTypes
           G == [c \in Conditions |-> [f \in [Conditions -> V] |-> Value(c, f)]]
<1>0. Depth \in [Conditions -> Nat] /\ V # {}
  BY ConditionAssumption
<1>1. \A c, f : Value(c, f) \in V
  <2> HIDE DEF In
  <2> QED OBVIOUS
<1>2. G \in [Conditions -> [[Conditions -> V] -> V]]
  <2> HIDE DEF Value, V
  <2> QED BY <1>1
<1>3. Downward(G, Conditions, Depth, V)
  <2> SUFFICES ASSUME NEW c \in Conditions, NEW f \in [Conditions -> V], NEW g \in [Conditions -> V],
                      \A d \in Conditions : Depth[d] < Depth[c] => f[d] = g[d]
               PROVE  Value(c, f) = Value(c, g)
    <3> HIDE DEF Value, V
    <3> QED BY DEF Downward
  <2>1. \A type \in JumpTypes : In(c, f, type) <=> In(c, g, type)
    BY Operands
  <2> HIDE DEF In
  <2> QED
    BY <2>1
<1>4. HasSolution(G, Conditions, V)
  <2> HIDE DEF G, V
  <2>1. Recursion(G, Conditions, Depth, V)
    BY <1>0, <1>2, <1>3 DEF Recursion
  <2> QED BY <2>1, RecursionHolds
<1>5. PICK f \in [Conditions -> V] : f = [c \in Conditions |-> Value(c, f)]
  <2> HIDE DEF Value
  <2> QED BY <1>4 DEF HasSolution
<1>6. OrOnTrue = [c \in Conditions |-> Value(c, OrOnTrue)]
  BY <1>5 DEF OrOnTrue
<1>7. OrOnTrue \in [Conditions -> V]
  <2> HIDE DEF Value
  <2> QED BY <1>1, <1>6
<1>8. ASSUME NEW c \in Conditions, NEW type \in JumpTypes
      PROVE  type \in OrOnTrue[c] <=> In(c, OrOnTrue, type)
  <2>1. OrOnTrue[c] = Value(c, OrOnTrue)
    <3> HIDE DEF Value
    <3> QED BY <1>6
  <2> HIDE DEF In
  <2> QED BY <2>1
<1> QED
  BY <1>7, <1>8

ConditionBlocks == Seq(Loads \cup Ifs)
LEMMA ConditionBlocksAreBlocks ==
    /\ ConditionBlocks \subseteq Seq(Instructions)
    /\ \A a, b \in ConditionBlocks : a \o b \in ConditionBlocks
    /\ \A b \in ConditionBlocks : b \in Seq(Instructions) /\ Size(b) \in Nat
<1>1. Loads \cup Ifs \subseteq Instructions
  BY DEF Instructions
<1>2. ConditionBlocks \subseteq Seq(Instructions)
  BY <1>1 DEF ConditionBlocks
<1>3. \A a, b \in ConditionBlocks : a \o b \in ConditionBlocks
  BY DEF ConditionBlocks
<1> QED
  BY <1>2, <1>3, EndsAre

LEMMA LeafBlock ==
    ASSUME NEW c \in Conditions, IsLeaf(c), NEW b \in Nat, NEW type \in JumpTypes
    PROVE  /\ <<Load(c), If(IfTypeFor(c, type), c, b)>> \in ConditionBlocks
           /\ Load(c) \in Loads /\ If(IfTypeFor(c, type), c, b) \in Ifs
           /\ IfTypeFor(c, type) \in IfTypes
<1>1. IfTypeFor(c, type) \in IfTypes
  BY DEF IsLeaf, Relation, IfTypeFor, IfTypes, JumpTypes
<1>2. If(IfTypeFor(c, type), c, b) \in Ifs
  BY <1>1 DEF If, Ifs, Ids
<1>3. Load(c) \in Loads
  BY Operands DEF Load, Loads
<1> QED
  BY <1>1, <1>2, <1>3 DEF ConditionBlocks

LEMMA ConditionBlockOfIs ==
    /\ \A c \in Conditions, b \in Nat, type \in JumpTypes : ConditionBlockOf[c][b][type] \in ConditionBlocks
    /\ \A c \in Conditions, b \in Nat, type \in JumpTypes :
        ConditionBlockOf[c][b][type] =
            CASE c.op = "not" -> ConditionBlockOf[c.arg][b][Flip(type)]
              [] c.op = "and" ->
                     LET right == ConditionBlockOf[c.right][b][type]
                     IN  ConditionBlockOf[c.left][AndJump(type, b, Size(right))]["IS_ZERO"] \o right
              [] c.op = "or" ->
                     LET right == ConditionBlockOf[c.right][b][type]
                     IN  ConditionBlockOf[c.left][OrJump(type, b, Size(right))]["IS_NONZERO"] \o right
              [] OTHER -> <<Load(c), If(IfTypeFor(c, type), c, b)>>
<1> DEFINE At(c, f, b, type) ==
               CASE c.op = "not" -> f[c.arg][b][Flip(type)]
                 [] c.op = "and" ->
                        LET right == f[c.right][b][type]
                        IN  f[c.left][AndJump(type, b, Size(right))]["IS_ZERO"] \o right
                 [] c.op = "or" ->
                        LET right == f[c.right][b][type]
                        IN  f[c.left][OrJump(type, b, Size(right))]["IS_NONZERO"] \o right
                 [] OTHER -> <<Load(c), If(IfTypeFor(c, type), c, b)>>
           Value(c, f) == [b \in Nat |-> [type \in JumpTypes |-> At(c, f, b, type)]]
           V == [Nat -> [JumpTypes -> ConditionBlocks]]
           G == [c \in Conditions |-> [f \in [Conditions -> V] |-> Value(c, f)]]
           T == {c \in Conditions : ConditionBlockOf[c] \in V}
<1>0. Depth \in [Conditions -> Nat]
  BY ConditionAssumption
<1>1. ASSUME NEW c \in Conditions, NEW f, \A d \in Conditions : Depth[d] < Depth[c] => f[d] \in V,
             NEW b \in Nat, NEW type \in JumpTypes
      PROVE  At(c, f, b, type) \in ConditionBlocks
  <2>1. ASSUME NEW d \in Conditions, Depth[d] < Depth[c], NEW jump \in Nat, NEW t \in JumpTypes
        PROVE  f[d][jump][t] \in ConditionBlocks /\ Size(f[d][jump][t]) \in Nat
    <3>1. f[d] \in V
      BY <1>1, <2>1
    <3>2. f[d][jump][t] \in ConditionBlocks
      BY <3>1
    <3> QED BY <3>2, ConditionBlocksAreBlocks
  <2>2. Flip(type) \in JumpTypes /\ "IS_ZERO" \in JumpTypes /\ "IS_NONZERO" \in JumpTypes
    BY DEF JumpTypes, Flip
  <2>3. \A n \in Nat : AndJump(type, b, n) \in Nat /\ OrJump(type, b, n) \in Nat
    BY DEF AndJump, OrJump
  <2> HIDE DEF V
  <2>4. CASE c.op = "not"
    BY <2>1, <2>2, <2>4, Operands
  <2>5. CASE c.op = "and"
    <3> DEFINE right == f[c.right][b][type]
               left == f[c.left][AndJump(type, b, Size(right))]["IS_ZERO"]
    <3>1. right \in ConditionBlocks /\ Size(right) \in Nat
      BY <2>1, <2>5, Operands
    <3>2. AndJump(type, b, Size(right)) \in Nat
      BY <2>3, <3>1
    <3>3. left \in ConditionBlocks
      <4> HIDE DEF right
      <4> QED BY <2>1, <2>2, <2>5, <3>2, Operands
    <3>4. left \o right \in ConditionBlocks
      <4> HIDE DEF left, right
      <4> QED BY <3>1, <3>3, ConditionBlocksAreBlocks
    <3> QED BY <2>5, <3>4
  <2>6. CASE c.op = "or"
    <3> DEFINE right == f[c.right][b][type]
               left == f[c.left][OrJump(type, b, Size(right))]["IS_NONZERO"]
    <3>1. right \in ConditionBlocks /\ Size(right) \in Nat
      BY <2>1, <2>6, Operands
    <3>2. OrJump(type, b, Size(right)) \in Nat
      BY <2>3, <3>1
    <3>3. left \in ConditionBlocks
      <4> HIDE DEF right
      <4> QED BY <2>1, <2>2, <2>6, <3>2, Operands
    <3>4. left \o right \in ConditionBlocks
      <4> HIDE DEF left, right
      <4> QED BY <3>1, <3>3, ConditionBlocksAreBlocks
    <3> QED BY <2>6, <3>4
  <2>7. CASE IsLeaf(c)
    BY <2>7, LeafBlock, Operands
  <2> QED
    BY <2>4, <2>5, <2>6, <2>7, Operands
<1>2. G \in [Conditions -> [[Conditions -> V] -> V]]
  <2>1. \A c \in Conditions : \A f \in [Conditions -> V] : Value(c, f) \in V
    <3> HIDE DEF At
    <3>1. ASSUME NEW c \in Conditions, NEW f \in [Conditions -> V], NEW b \in Nat, NEW type \in JumpTypes
          PROVE  At(c, f, b, type) \in ConditionBlocks
      <4>1. \A d \in Conditions : Depth[d] < Depth[c] => f[d] \in V
        OBVIOUS
      <4> QED BY <1>1, <4>1
    <3> QED BY <3>1
  <2> HIDE DEF Value, V
  <2> QED BY <2>1
<1>3. Downward(G, Conditions, Depth, V)
  <2> SUFFICES ASSUME NEW c \in Conditions, NEW f \in [Conditions -> V], NEW g \in [Conditions -> V],
                      \A d \in Conditions : Depth[d] < Depth[c] => f[d] = g[d]
               PROVE  Value(c, f) = Value(c, g)
    <3> HIDE DEF Value, V
    <3> QED BY DEF Downward
  <2>1. \A b \in Nat, type \in JumpTypes : At(c, f, b, type) = At(c, g, b, type)
    BY Operands
  <2> HIDE DEF At
  <2> QED
    BY <2>1
<1>4. HasSolution(G, Conditions, V)
  <2>1. V # {}
    <3>1. [b \in Nat |-> [type \in JumpTypes |-> <<>>]] \in V
      BY DEF ConditionBlocks
    <3> QED BY <3>1
  <2> HIDE DEF G, V
  <2>2. Recursion(G, Conditions, Depth, V)
    BY <1>0, <1>2, <1>3, <2>1 DEF Recursion
  <2> QED BY <2>2, RecursionHolds
<1>5. PICK f \in [Conditions -> V] : f = [c \in Conditions |-> Value(c, f)]
  <2> HIDE DEF Value, V
  <2> QED BY <1>4 DEF HasSolution
<1>6. ConditionBlockOf = [c \in Conditions |-> Value(c, ConditionBlockOf)]
  BY <1>5 DEF ConditionBlockOf
<1>7. ASSUME NEW c \in Conditions, \A d \in Conditions : Depth[d] < Depth[c] => d \in T
      PROVE  c \in T
  <2>1. \A d \in Conditions : Depth[d] < Depth[c] => ConditionBlockOf[d] \in V
    BY <1>7
  <2> HIDE DEF At
  <2>2. \A b \in Nat, type \in JumpTypes : At(c, ConditionBlockOf, b, type) \in ConditionBlocks
    BY <1>1, <2>1
  <2>3. Value(c, ConditionBlockOf) \in V
    BY <2>2
  <2> HIDE DEF Value, V
  <2> QED
    BY <1>6, <2>3
<1>8. Conditions \subseteq T
  <2> HIDE DEF T
  <2> QED BY <1>0, <1>7, DepthInduction
<1>9. ASSUME NEW c \in Conditions, NEW b \in Nat, NEW type \in JumpTypes
      PROVE  ConditionBlockOf[c][b][type] \in ConditionBlocks
  <2>1. ConditionBlockOf[c] \in V
    BY <1>8
  <2> QED BY <2>1
<1>10. ASSUME NEW c \in Conditions, NEW b \in Nat, NEW type \in JumpTypes
       PROVE  ConditionBlockOf[c][b][type] = At(c, ConditionBlockOf, b, type)
  <2>1. ConditionBlockOf[c] = Value(c, ConditionBlockOf)
    <3> HIDE DEF Value
    <3> QED BY <1>6
  <2> HIDE DEF At
  <2> QED BY <2>1
<1> QED
  BY <1>9, <1>10

-----------------------------------------------------------------------------
(* How the block of a condition runs.  In the values v, instruction i      *)
(* leads to the offset LeadsTo, after the test of the leaves Tests.        *)

LeadsTo(block, i, v) ==
    IF block[i].do = "if" /\ v[block[i].leaf] \in JumpsAt[block[i].type]
    THEN Ends(block)[i - 1] + block[i].jump + 3
    ELSE Ends(block)[i]
Tests(instruction) == IF instruction.do = "if" THEN <<instruction.leaf>> ELSE <<>>

(* A run from the block's start to the offset out, with all tested at last:*)
(* the offsets it passes, each with the leaves tested before it.           *)
Runs(S, block, v, out, all) ==
    /\ S \subseteq Nat \X Seq(Ids)
    /\ <<0, <<>>>> \in S
    /\ \A at \in Nat, done \in Seq(Ids) : <<at, done>> \in S =>
        \E i \in 1..Len(block) :
            /\ at = Ends(block)[i - 1]
            /\ \/ <<LeadsTo(block, i, v), done \o Tests(block[i])>> \in S
               \/ LeadsTo(block, i, v) = out /\ done \o Tests(block[i]) = all

LEMMA TestsAreIds ==
    ASSUME NEW instruction \in Loads \cup Ifs
    PROVE  Tests(instruction) \in Seq(Ids)
BY DEF Tests, Loads, Ifs

LEMMA LeadsToIn ==
    ASSUME NEW block \in ConditionBlocks, NEW i \in 1..Len(block), NEW v
    PROVE  LeadsTo(block, i, v) \in Nat
<1>1. block[i] \in Loads \cup Ifs
  BY DEF ConditionBlocks
<1>2. Ends(block)[i - 1] \in Nat /\ Ends(block)[i] \in Nat
  <2>1. i \in 0..Len(block) /\ i - 1 \in 0..Len(block)
    OBVIOUS
  <2> QED BY <2>1, EndsAre, ConditionBlocksAreBlocks
<1>3. CASE block[i].do = "if"
  <2>1. block[i].jump \in Nat
    BY <1>1, <1>3 DEF Loads, Ifs
  <2> QED BY <1>2, <2>1 DEF LeadsTo
<1>4. CASE block[i].do # "if"
  BY <1>2, <1>4 DEF LeadsTo
<1> QED
  BY <1>3, <1>4

LEMMA LeadsToInFirst ==
    ASSUME NEW a \in ConditionBlocks, NEW b \in ConditionBlocks, NEW v, NEW i \in 1..Len(a)
    PROVE  /\ i \in 1..Len(a \o b) /\ (a \o b)[i] = a[i]
           /\ Ends(a \o b)[i - 1] = Ends(a)[i - 1]
           /\ LeadsTo(a \o b, i, v) = LeadsTo(a, i, v)
<1>1. a \in Seq(Instructions) /\ b \in Seq(Instructions)
  BY ConditionBlocksAreBlocks
<1>2. i \in 0..Len(a) /\ i - 1 \in 0..Len(a) /\ i \in 1..Len(a \o b) /\ (a \o b)[i] = a[i]
  BY <1>1
<1>3. Ends(a \o b)[i - 1] = Ends(a)[i - 1] /\ Ends(a \o b)[i] = Ends(a)[i]
  BY <1>1, <1>2, EndsOfBoth
<1> QED
  BY <1>2, <1>3 DEF LeadsTo

LEMMA LeadsToInSecond ==
    ASSUME NEW a \in ConditionBlocks, NEW b \in ConditionBlocks, NEW v, NEW i \in 1..Len(b)
    PROVE  /\ Len(a) + i \in 1..Len(a \o b) /\ (a \o b)[Len(a) + i] = b[i]
           /\ Ends(a \o b)[Len(a) + i - 1] = Size(a) + Ends(b)[i - 1]
           /\ LeadsTo(a \o b, Len(a) + i, v) = Size(a) + LeadsTo(b, i, v)
<1>1. a \in Seq(Instructions) /\ b \in Seq(Instructions) /\ Size(a) \in Nat
  BY ConditionBlocksAreBlocks
<1>2. i \in 0..Len(b) /\ i - 1 \in 0..Len(b) /\ Len(a) + i - 1 = Len(a) + (i - 1)
  BY <1>1
<1>3. Ends(a \o b)[Len(a) + i] = Size(a) + Ends(b)[i]
  BY <1>1, <1>2, EndsOfBoth
<1>4. Ends(a \o b)[Len(a) + i - 1] = Size(a) + Ends(b)[i - 1]
  BY <1>1, <1>2, EndsOfBoth
<1>5. Len(a) + i \in 1..Len(a \o b) /\ (a \o b)[Len(a) + i] = b[i]
  BY <1>1
<1>6. Ends(b)[i] \in Nat /\ Ends(b)[i - 1] \in Nat
  BY <1>1, <1>2, EndsAre
<1>7. CASE b[i].do = "if"
  <2>1. b[i] \in Loads \cup Ifs
    BY DEF ConditionBlocks
  <2>2. b[i].jump \in Nat
    BY <1>7, <2>1 DEF Loads, Ifs
  <2> QED BY <1>1, <1>3, <1>4, <1>5, <1>6, <2>2 DEF LeadsTo
<1>8. CASE b[i].do # "if"
  BY <1>3, <1>4, <1>5, <1>8 DEF LeadsTo
<1> QED
  BY <1>7, <1>8

(* The second block is skipped. *)
LEMMA RunsOver ==
    ASSUME NEW a \in ConditionBlocks, NEW b \in ConditionBlocks, NEW v, NEW S, NEW out, NEW all,
           Runs(S, a, v, out, all)
    PROVE  Runs(S, a \o b, v, out, all)
<1> SUFFICES ASSUME NEW at \in Nat, NEW done \in Seq(Ids), <<at, done>> \in S
             PROVE  \E i \in 1..Len(a \o b) :
                        /\ at = Ends(a \o b)[i - 1]
                        /\ \/ <<LeadsTo(a \o b, i, v), done \o Tests((a \o b)[i])>> \in S
                           \/ LeadsTo(a \o b, i, v) = out /\ done \o Tests((a \o b)[i]) = all
  BY DEF Runs
<1>1. PICK i \in 1..Len(a) :
          /\ at = Ends(a)[i - 1]
          /\ \/ <<LeadsTo(a, i, v), done \o Tests(a[i])>> \in S
             \/ LeadsTo(a, i, v) = out /\ done \o Tests(a[i]) = all
  BY DEF Runs
<1>2. /\ i \in 1..Len(a \o b) /\ (a \o b)[i] = a[i] /\ Ends(a \o b)[i - 1] = Ends(a)[i - 1]
      /\ LeadsTo(a \o b, i, v) = LeadsTo(a, i, v)
  BY LeadsToInFirst
<1> QED
  BY <1>1, <1>2

(* The second block runs after the first. *)
LEMMA RunsThen ==
    ASSUME NEW a \in ConditionBlocks, NEW b \in ConditionBlocks, NEW v,
           NEW R, NEW S, NEW out \in Nat, NEW doneA \in Seq(Ids), NEW doneB \in Seq(Ids),
           Runs(R, a, v, Size(a), doneA), Runs(S, b, v, out, doneB)
    PROVE  \E Q : Runs(Q, a \o b, v, Size(a) + out, doneA \o doneB)
<1> DEFINE Later == {<<Size(a) + x[1], doneA \o x[2]>> : x \in S}
           Q == R \cup Later
           ab == a \o b
<1>0. Size(a) \in Nat /\ ab \in ConditionBlocks
  BY ConditionBlocksAreBlocks
<1>1. ASSUME NEW at \in Nat, NEW done \in Seq(Ids), <<at, done>> \in S
      PROVE  <<Size(a) + at, doneA \o done>> \in Later
  <2>1. <<at, done>>[1] = at /\ <<at, done>>[2] = done
    OBVIOUS
  <2> QED BY <1>1, <2>1
<1>2. ASSUME NEW y \in Later
      PROVE  \E at \in Nat, done \in Seq(Ids) :
                 <<at, done>> \in S /\ y = <<Size(a) + at, doneA \o done>>
  <2>1. PICK x \in S : y = <<Size(a) + x[1], doneA \o x[2]>>
    OBVIOUS
  <2>2. x[1] \in Nat /\ x[2] \in Seq(Ids) /\ x = <<x[1], x[2]>>
    BY DEF Runs
  <2> QED BY <2>1, <2>2
<1> HIDE DEF Later, ab
<1>3. Q \subseteq Nat \X Seq(Ids)
  <2>1. ASSUME NEW y \in Later PROVE y \in Nat \X Seq(Ids)
    <3>1. PICK at \in Nat, done \in Seq(Ids) : y = <<Size(a) + at, doneA \o done>>
      BY <1>2
    <3>2. Size(a) + at \in Nat /\ doneA \o done \in Seq(Ids)
      BY <1>0
    <3> QED BY <1>0, <3>1, <3>2
  <2> QED BY <2>1 DEF Runs
<1>4. <<0, <<>>>> \in Q
  BY DEF Runs
<1>5. ASSUME NEW at \in Nat, NEW done \in Seq(Ids), <<at, done>> \in Q
      PROVE  \E i \in 1..Len(ab) :
                 /\ at = Ends(ab)[i - 1]
                 /\ \/ <<LeadsTo(ab, i, v), done \o Tests(ab[i])>> \in Q
                    \/ LeadsTo(ab, i, v) = Size(a) + out /\ done \o Tests(ab[i]) = doneA \o doneB
  <2>1. CASE <<at, done>> \in R
    <3>1. PICK i \in 1..Len(a) :
              /\ at = Ends(a)[i - 1]
              /\ \/ <<LeadsTo(a, i, v), done \o Tests(a[i])>> \in R
                 \/ LeadsTo(a, i, v) = Size(a) /\ done \o Tests(a[i]) = doneA
      BY <2>1 DEF Runs
    <3>2. /\ i \in 1..Len(ab) /\ ab[i] = a[i] /\ Ends(ab)[i - 1] = Ends(a)[i - 1]
          /\ LeadsTo(ab, i, v) = LeadsTo(a, i, v)
      BY LeadsToInFirst DEF ab
    <3>3. <<Size(a), doneA>> \in Later
      <4>1. <<0, <<>>>> \in S /\ 0 \in Nat /\ <<>> \in Seq(Ids)
        BY DEF Runs
      <4>2. Size(a) + 0 = Size(a) /\ doneA \o <<>> = doneA
        BY <1>0
      <4> QED BY <1>1, <4>1, <4>2
    <3> QED BY <3>1, <3>2, <3>3
  <2>2. CASE <<at, done>> \in Later
    <3>1. PICK from \in Nat, d \in Seq(Ids) :
              <<from, d>> \in S /\ <<at, done>> = <<Size(a) + from, doneA \o d>>
      BY <1>2, <2>2
    <3>2. PICK i \in 1..Len(b) :
              /\ from = Ends(b)[i - 1]
              /\ \/ <<LeadsTo(b, i, v), d \o Tests(b[i])>> \in S
                 \/ LeadsTo(b, i, v) = out /\ d \o Tests(b[i]) = doneB
      BY <3>1 DEF Runs
    <3>3. /\ Len(a) + i \in 1..Len(ab) /\ ab[Len(a) + i] = b[i]
          /\ Ends(ab)[Len(a) + i - 1] = Size(a) + Ends(b)[i - 1]
          /\ LeadsTo(ab, Len(a) + i, v) = Size(a) + LeadsTo(b, i, v)
      BY LeadsToInSecond DEF ab
    <3>4. b[i] \in Loads \cup Ifs
      BY DEF ConditionBlocks
    <3>5. Tests(b[i]) \in Seq(Ids) /\ LeadsTo(b, i, v) \in Nat
      BY <3>4, TestsAreIds, LeadsToIn
    <3>6. done \o Tests(b[i]) = doneA \o (d \o Tests(b[i])) /\ d \o Tests(b[i]) \in Seq(Ids)
      <4>1. done = doneA \o d
        BY <3>1
      <4>2. \A x, y, z \in Seq(Ids) : (x \o y) \o z = x \o (y \o z)
        OBVIOUS
      <4>3. \A x, y \in Seq(Ids) : x \o y \in Seq(Ids)
        OBVIOUS
      <4> HIDE DEF Q, Later, ab
      <4> QED BY <3>5, <4>1, <4>2, <4>3
    <3> DEFINE j == Len(a) + i
    <3>7. at = Ends(ab)[j - 1] /\ j \in 1..Len(ab)
      BY <3>1, <3>2, <3>3
    <3>8. CASE <<LeadsTo(b, i, v), d \o Tests(b[i])>> \in S
      <4>1. <<Size(a) + LeadsTo(b, i, v), doneA \o (d \o Tests(b[i]))>> \in Later
        BY <1>1, <3>5, <3>6, <3>8
      <4>2. <<LeadsTo(ab, j, v), done \o Tests(ab[j])>> \in Later
        BY <3>3, <3>6, <4>1
      <4> HIDE DEF j
      <4> QED BY <3>7, <4>2
    <3>9. CASE LeadsTo(b, i, v) = out /\ d \o Tests(b[i]) = doneB
      <4>1. LeadsTo(ab, j, v) = Size(a) + out /\ done \o Tests(ab[j]) = doneA \o doneB
        BY <3>3, <3>6, <3>9
      <4> HIDE DEF j
      <4> QED BY <3>7, <4>1
    <3> QED BY <3>2, <3>8, <3>9
  <2> QED BY <1>5, <2>1, <2>2
<1>6. Runs(Q, ab, v, Size(a) + out, doneA \o doneB)
  <2> HIDE DEF Q
  <2> QED BY <1>3, <1>4, <1>5 DEF Runs
<1> QED
  BY <1>6 DEF ab

(* Where the block of a condition ends: past b more bytes when it jumps.   *)
Exit(block, b, holds, type) == IF holds <=> type = "IS_ZERO" THEN Size(block) ELSE Size(block) + b

RunsAs(c, b, type, v) ==
    \E S : Runs(S, ConditionBlockOf[c][b][type], v,
                Exit(ConditionBlockOf[c][b][type], b, Holds(c, v), type), TestedBy[c][v])

(* A comparison jumps on the values that make it false, or true.           *)
LEMMA LeafJumps ==
    ASSUME NEW c \in Conditions, IsLeaf(c), NEW v \in Values, NEW type \in JumpTypes
    PROVE  v[c.id] \in JumpsAt[IfTypeFor(c, type)] <=> ~(Holds(c, v) <=> type = "IS_ZERO")
<1>1. Holds(c, v) <=> v[c.id] \in Relation[c.op]
  BY HoldsIs
<1>2. v[c.id] \in IF c.op = "boolean" THEN {0, 1} ELSE {-1, 0, 1}
  BY Operands
<1>3. c.op \in {"greater", "greater_equals", "less", "less_equals", "equals", "not_equals", "boolean"}
  BY DEF IsLeaf, Relation
<1> QED
  BY <1>1, <1>2, <1>3 DEF Relation, JumpsAt, IfTypeFor, JumpTypes

LEMMA LeafRuns ==
    ASSUME NEW c \in Conditions, IsLeaf(c), NEW v \in Values, NEW b \in Nat, NEW type \in JumpTypes
    PROVE  RunsAs(c, b, type, v)
<1> DEFINE block == <<Load(c), If(IfTypeFor(c, type), c, b)>>
           S == {<<0, <<>>>>, <<c.size, <<>>>>}
<1>1. ConditionBlockOf[c][b][type] = block
  BY ConditionBlockOfIs, Operands
<1>2. TestedBy[c][v] = <<c.id>>
  BY TestedByIs, Operands
<1>3. /\ block \in Seq(Instructions) /\ Len(block) = 2 /\ block[1] = Load(c)
      /\ block[2] = If(IfTypeFor(c, type), c, b)
  BY LeafBlock, ConditionBlocksAreBlocks
<1>4. block[1].size = c.size /\ block[2].size = 3 /\ c.size \in Nat \ {0}
  BY <1>3, Operands DEF Load, If
<1> HIDE DEF block
<1>5. Ends(block)[0] = 0 /\ Ends(block)[1] = c.size /\ Ends(block)[2] = c.size + 3 /\ Size(block) = c.size + 3
  <2>1. 1 \in 1..Len(block) /\ 2 \in 1..Len(block) /\ 1 - 1 = 0 /\ 2 - 1 = 1
    BY <1>3
  <2>2. Ends(block)[1] = Ends(block)[1 - 1] + block[1].size /\ Ends(block)[0] = 0
    BY <1>3, <2>1, EndsAre
  <2>3. Ends(block)[2] = Ends(block)[2 - 1] + block[2].size
    BY <1>3, <2>1, EndsAre
  <2> QED
    BY <1>3, <1>4, <2>1, <2>2, <2>3 DEF Size
<1>6. LeadsTo(block, 1, v) = c.size /\ Tests(block[1]) = <<>>
  BY <1>3, <1>5 DEF LeadsTo, Tests, Load
<1>7. LeadsTo(block, 2, v) = Exit(block, b, Holds(c, v), type) /\ Tests(block[2]) = <<c.id>>
  <2>1. 2 - 1 = 1
    OBVIOUS
  <2>2. block[2].do = "if" /\ block[2].leaf = c.id /\ block[2].type = IfTypeFor(c, type) /\ block[2].jump = b
    BY <1>3 DEF If
  <2>3. LeadsTo(block, 2, v) = IF v[c.id] \in JumpsAt[IfTypeFor(c, type)]
                                THEN c.size + b + 3 ELSE c.size + 3
    BY <1>5, <2>1, <2>2 DEF LeadsTo
  <2> QED
    BY <1>4, <1>5, <2>2, <2>3, LeafJumps DEF Exit, Tests
<1>8. Runs(S, block, v, Exit(block, b, Holds(c, v), type), <<c.id>>)
  <2>1. S \subseteq Nat \X Seq(Ids) /\ <<0, <<>>>> \in S
    <3>1. 0 \in Nat /\ c.size \in Nat /\ <<>> \in Seq(Ids)
      BY <1>4
    <3>2. \A n \in Nat, s \in Seq(Ids) : <<n, s>> \in Nat \X Seq(Ids)
      OBVIOUS
    <3>3. <<0, <<>>>> \in Nat \X Seq(Ids) /\ <<c.size, <<>>>> \in Nat \X Seq(Ids)
      BY <3>1, <3>2
    <3> QED BY <3>3
  <2>2. ASSUME NEW at \in Nat, NEW done \in Seq(Ids), <<at, done>> \in S
        PROVE  \E i \in 1..Len(block) :
                   /\ at = Ends(block)[i - 1]
                   /\ \/ <<LeadsTo(block, i, v), done \o Tests(block[i])>> \in S
                      \/ /\ LeadsTo(block, i, v) = Exit(block, b, Holds(c, v), type)
                         /\ done \o Tests(block[i]) = <<c.id>>
    <3>1. done = <<>> /\ (at = 0 \/ at = c.size)
      BY <2>2
    <3>2. <<>> \o <<>> = <<>> /\ <<>> \o <<c.id>> = <<c.id>> /\ 1 - 1 = 0 /\ 2 - 1 = 1
      OBVIOUS
    <3>3. 1 \in 1..Len(block) /\ 2 \in 1..Len(block)
      BY <1>3
    <3>4. CASE at = 0
      <4>1. at = Ends(block)[1 - 1] /\ <<LeadsTo(block, 1, v), done \o Tests(block[1])>> \in S
        BY <1>5, <1>6, <3>1, <3>2, <3>4
      <4> HIDE DEF S
      <4> QED BY <3>3, <4>1
    <3>5. CASE at = c.size
      <4>1. /\ at = Ends(block)[2 - 1]
            /\ LeadsTo(block, 2, v) = Exit(block, b, Holds(c, v), type)
            /\ done \o Tests(block[2]) = <<c.id>>
        BY <1>5, <1>7, <3>1, <3>2, <3>5
      <4> HIDE DEF S
      <4> QED BY <3>3, <4>1
    <3> QED BY <3>1, <3>4, <3>5
  <2> HIDE DEF S
  <2> QED BY <2>1, <2>2 DEF Runs
<1> QED
  BY <1>1, <1>2, <1>8 DEF RunsAs

LEMMA BothRun ==
    ASSUME NEW c \in Conditions, c.op \in {"and", "or"}, NEW v \in Values, NEW b \in Nat,
           NEW type \in JumpTypes, type \notin OrOnTrue[c],
           \A d \in Conditions, n \in Nat, t \in JumpTypes :
               Depth[d] < Depth[c] /\ t \notin OrOnTrue[d] => RunsAs(d, n, t, v)
    PROVE  RunsAs(c, b, type, v)
<1> DEFINE right == ConditionBlockOf[c.right][b][type]
           first == IF c.op = "and" THEN "IS_ZERO" ELSE "IS_NONZERO"
           jump == IF c.op = "and" THEN AndJump(type, b, Size(right)) ELSE OrJump(type, b, Size(right))
           left == ConditionBlockOf[c.left][jump][first]
           both == Holds(c.left, v) <=> c.op = "and"
           doneL == TestedBy[c.left][v]
           doneR == TestedBy[c.right][v]
<1>1. /\ c.left \in Conditions /\ Depth[c.left] < Depth[c]
      /\ c.right \in Conditions /\ Depth[c.right] < Depth[c]
  BY Operands
<1>2. first \in JumpTypes /\ first \notin OrOnTrue[c.left] /\ type \notin OrOnTrue[c.right]
      /\ (c.op = "or" => type = "IS_ZERO")
  BY <1>1, OrOnTrueIs DEF JumpTypes
<1>3. right \in ConditionBlocks /\ Size(right) \in Nat
  BY <1>1, ConditionBlockOfIs, ConditionBlocksAreBlocks
<1>4. jump \in Nat
  <2> HIDE DEF right
  <2> QED BY <1>3 DEF AndJump, OrJump
<1>5. left \in ConditionBlocks /\ Size(left) \in Nat
  <2> HIDE DEF jump, first
  <2> QED BY <1>1, <1>2, <1>4, ConditionBlockOfIs, ConditionBlocksAreBlocks
<1>6. ConditionBlockOf[c][b][type] = left \o right
  BY ConditionBlockOfIs
<1>7. Size(left \o right) = Size(left) + Size(right)
  <2> HIDE DEF left, right
  <2> QED BY <1>3, <1>5, EndsOfBoth, ConditionBlocksAreBlocks
<1>8. doneL \in Seq(Ids) /\ doneR \in Seq(Ids)
  BY <1>1, TestedByIs
<1>9. TestedBy[c][v] = doneL \o (IF both THEN doneR ELSE <<>>)
  BY TestedByIs
<1>10. \E S : Runs(S, left, v, Exit(left, jump, Holds(c.left, v), first), doneL)
  <2>1. RunsAs(c.left, jump, first, v)
    <3> HIDE DEF jump, first
    <3> QED BY <1>1, <1>2, <1>4
  <2> QED BY <2>1 DEF RunsAs
<1>11. \E S : Runs(S, right, v, Exit(right, b, Holds(c.right, v), type), doneR)
  <2>1. RunsAs(c.right, b, type, v)
    BY <1>1, <1>2
  <2> QED BY <2>1 DEF RunsAs
<1>12. /\ Holds(c.left, v) \in BOOLEAN /\ Holds(c.right, v) \in BOOLEAN /\ Holds(c, v) \in BOOLEAN
       /\ c.op = "and" => (Holds(c, v) <=> Holds(c.left, v) /\ Holds(c.right, v))
       /\ c.op = "or" => (Holds(c, v) <=> Holds(c.left, v) \/ Holds(c.right, v))
  BY <1>1, HoldsIs
<1>13. \/ c.op = "and" /\ jump = AndJump(type, b, Size(right)) /\ first = "IS_ZERO"
       \/ c.op = "or" /\ jump = OrJump(type, b, Size(right)) /\ first = "IS_NONZERO"
  <2> HIDE DEF left, right, doneL, doneR
  <2>1. CASE c.op = "and"
    BY <2>1
  <2>2. CASE c.op = "or"
    BY <2>2
  <2> QED BY <2>1, <2>2
<1> HIDE DEF left, right, jump, first, doneL, doneR
<1>14. CASE both
  <2>1. Exit(left, jump, Holds(c.left, v), first) = Size(left)
    BY <1>13, <1>14 DEF Exit
  <2>2. Exit(left \o right, b, Holds(c, v), type) = Size(left) + Exit(right, b, Holds(c.right, v), type)
    <3>1. Holds(c, v) <=> Holds(c.right, v)
      BY <1>12, <1>13, <1>14
    <3> QED BY <1>3, <1>5, <1>7, <3>1 DEF Exit
  <2>3. Exit(right, b, Holds(c.right, v), type) \in Nat
    BY <1>3 DEF Exit
  <2>4. \E Q : Runs(Q, left \o right, v, Size(left) + Exit(right, b, Holds(c.right, v), type), doneL \o doneR)
    <3>1. PICK R : Runs(R, left, v, Size(left), doneL)
      BY <1>10, <2>1
    <3>2. PICK S : Runs(S, right, v, Exit(right, b, Holds(c.right, v), type), doneR)
      BY <1>11
    <3> QED BY <1>3, <1>5, <1>8, <2>3, <3>1, <3>2, RunsThen
  <2> QED BY <1>6, <1>9, <1>14, <2>2, <2>4 DEF RunsAs
<1>15. CASE ~both
  <2>1. Exit(left, jump, Holds(c.left, v), first) = Exit(left \o right, b, Holds(c, v), type)
    <3>1. Exit(left, jump, Holds(c.left, v), first) = Size(left) + jump
      BY <1>12, <1>13, <1>15 DEF Exit
    <3>2. Holds(c, v) <=> c.op = "or"
      BY <1>12, <1>13, <1>15
    <3>3. CASE type = "IS_ZERO"
      BY <1>2, <1>3, <1>5, <1>7, <1>13, <3>1, <3>2, <3>3 DEF Exit, AndJump, OrJump
    <3>4. CASE type = "IS_NONZERO"
      BY <1>2, <1>3, <1>5, <1>7, <1>13, <3>1, <3>2, <3>4 DEF Exit, AndJump, OrJump
    <3> QED BY <3>3, <3>4 DEF JumpTypes
  <2>2. TestedBy[c][v] = doneL
    BY <1>8, <1>9, <1>15
  <2>3. PICK R : Runs(R, left, v, Exit(left \o right, b, Holds(c, v), type), doneL)
    BY <1>10, <2>1
  <2>4. Runs(R, left \o right, v, Exit(left \o right, b, Holds(c, v), type), doneL)
    BY <1>3, <1>5, <2>3, RunsOver
  <2> QED BY <1>6, <2>2, <2>4 DEF RunsAs
<1> QED
  BY <1>14, <1>15

(* The block of a condition of any depth tests what the condition needs to *)
(* test, and ends where it should.                                         *)
LEMMA ConditionRuns ==
    \A c \in Conditions : \A v \in Values, b \in Nat, type \in JumpTypes :
        type \notin OrOnTrue[c] => RunsAs(c, b, type, v)
<1> DEFINE T == {c \in Conditions : \A v \in Values, b \in Nat, type \in JumpTypes :
                    type \notin OrOnTrue[c] => RunsAs(c, b, type, v)}
<1>1. ASSUME NEW c \in Conditions, \A d \in Conditions : Depth[d] < Depth[c] => d \in T
      PROVE  c \in T
  <2> SUFFICES ASSUME NEW v \in Values, NEW b \in Nat, NEW type \in JumpTypes, type \notin OrOnTrue[c]
               PROVE  RunsAs(c, b, type, v)
    OBVIOUS
  <2>1. ASSUME NEW d \in Conditions, NEW n \in Nat, NEW t \in JumpTypes,
               Depth[d] < Depth[c], t \notin OrOnTrue[d]
        PROVE  RunsAs(d, n, t, v)
    BY <1>1, <2>1
  <2>2. CASE IsLeaf(c)
    BY <2>2, LeafRuns
  <2>3. CASE c.op \in {"and", "or"}
    BY <2>1, <2>3, BothRun
  <2>4. CASE c.op = "not"
    <3>1. c.arg \in Conditions /\ Depth[c.arg] < Depth[c]
      BY <2>4, Operands
    <3>2. Flip(type) \in JumpTypes /\ (Flip(type) = "IS_ZERO" <=> type # "IS_ZERO")
      BY DEF Flip, JumpTypes
    <3>3. Flip(type) \notin OrOnTrue[c.arg]
      BY <2>4, OrOnTrueIs
    <3>4. RunsAs(c.arg, b, Flip(type), v)
      BY <2>1, <3>1, <3>2, <3>3
    <3>5. ConditionBlockOf[c][b][type] = ConditionBlockOf[c.arg][b][Flip(type)]
      BY <2>4, ConditionBlockOfIs
    <3>6. TestedBy[c][v] = TestedBy[c.arg][v]
      BY <2>4, TestedByIs
    <3>7. Holds(c, v) <=> ~Holds(c.arg, v)
      BY <2>4, HoldsIs
    <3>8. \A block : Exit(block, b, Holds(c, v), type) = Exit(block, b, Holds(c.arg, v), Flip(type))
      BY <3>2, <3>7 DEF Exit
    <3> QED BY <3>4, <3>5, <3>6, <3>8 DEF RunsAs
  <2> QED BY <2>2, <2>3, <2>4, Operands
<1>2. Depth \in [Conditions -> Nat]
  BY ConditionAssumption
<1>3. Conditions \subseteq T
  <2> HIDE DEF T
  <2> QED BY <1>1, <1>2, DepthInduction
<1> QED
  BY <1>3

(* No jump of a condition leads further than b bytes past its block.       *)
LEMMA JumpsInside ==
    \A c \in Conditions : \A b \in Nat, type \in JumpTypes :
        LET block == ConditionBlockOf[c][b][type]
        IN  \A i \in 1..Len(block) : block[i].do = "if" => block[i].jump + 3 <= Size(block) + b
<1> DEFINE Inside(block, b) == \A i \in 1..Len(block) : block[i].do = "if" => block[i].jump + 3 <= Size(block) + b
           T == {c \in Conditions : \A b \in Nat, type \in JumpTypes : Inside(ConditionBlockOf[c][b][type], b)}
<1>1. ASSUME NEW c \in Conditions, \A d \in Conditions : Depth[d] < Depth[c] => d \in T
      PROVE  c \in T
  <2> SUFFICES ASSUME NEW b \in Nat, NEW type \in JumpTypes
               PROVE  Inside(ConditionBlockOf[c][b][type], b)
    OBVIOUS
  <2>1. ASSUME NEW d \in Conditions, NEW n \in Nat, NEW t \in JumpTypes, Depth[d] < Depth[c]
        PROVE  Inside(ConditionBlockOf[d][n][t], n)
    BY <1>1, <2>1
  <2>2. CASE IsLeaf(c)
    <3> DEFINE block == <<Load(c), If(IfTypeFor(c, type), c, b)>>
    <3>1. ConditionBlockOf[c][b][type] = block
      BY <2>2, ConditionBlockOfIs, Operands
    <3>2. /\ block \in Seq(Instructions) /\ Len(block) = 2 /\ block[1] = Load(c)
          /\ block[2] = If(IfTypeFor(c, type), c, b)
      BY <2>2, LeafBlock, ConditionBlocksAreBlocks
    <3> HIDE DEF block
    <3>3. Size(block) \in Nat /\ Size(block) >= 3
      <4>1. 1 \in 0..Len(block) /\ 2 \in 1..Len(block) /\ 2 - 1 = 1
        BY <3>2
      <4>2. Ends(block)[2] = Ends(block)[2 - 1] + block[2].size /\ Ends(block)[1] \in Nat
        BY <3>2, <4>1, EndsAre
      <4>3. block[2].size = 3
        BY <3>2 DEF If
      <4> QED BY <3>2, <4>1, <4>2, <4>3 DEF Size
    <3>4. ASSUME NEW i \in 1..Len(block), block[i].do = "if" PROVE block[i].jump = b
      <4>1. i = 2
        BY <3>2, <3>4 DEF Load
      <4> QED BY <3>2, <4>1 DEF If
    <3>5. Inside(block, b)
      BY <3>3, <3>4
    <3> QED BY <3>1, <3>5
  <2>3. CASE c.op \in {"and", "or"}
    <3> DEFINE right == ConditionBlockOf[c.right][b][type]
               first == IF c.op = "and" THEN "IS_ZERO" ELSE "IS_NONZERO"
               jump == IF c.op = "and" THEN AndJump(type, b, Size(right)) ELSE OrJump(type, b, Size(right))
               left == ConditionBlockOf[c.left][jump][first]
    <3>1. /\ c.left \in Conditions /\ Depth[c.left] < Depth[c]
          /\ c.right \in Conditions /\ Depth[c.right] < Depth[c]
      BY <2>3, Operands
    <3>2. right \in ConditionBlocks /\ Size(right) \in Nat /\ first \in JumpTypes
      BY <3>1, ConditionBlockOfIs, ConditionBlocksAreBlocks DEF JumpTypes
    <3>3. jump \in Nat /\ jump <= Size(right) + b
      <4> HIDE DEF right
      <4> QED BY <3>2 DEF AndJump, OrJump
    <3>4. Inside(right, b)
      BY <2>1, <3>1
    <3>5. ConditionBlockOf[c][b][type] = left \o right
      BY <2>3, ConditionBlockOfIs
    <3> HIDE DEF right, jump, first
    <3>6. left \in ConditionBlocks /\ Size(left) \in Nat
      BY <3>1, <3>2, <3>3, ConditionBlockOfIs, ConditionBlocksAreBlocks
    <3>7. Inside(left, jump)
      BY <2>1, <3>1, <3>2, <3>3
    <3> HIDE DEF left
    <3>8. Size(left \o right) = Size(left) + Size(right)
      BY <3>2, <3>6, EndsOfBoth, ConditionBlocksAreBlocks
    <3>9. ASSUME NEW i \in 1..Len(left \o right), (left \o right)[i].do = "if"
          PROVE  (left \o right)[i].jump + 3 <= Size(left \o right) + b
      <4>1. /\ left \in Seq(Instructions) /\ right \in Seq(Instructions)
            /\ left \in Seq(Loads \cup Ifs) /\ right \in Seq(Loads \cup Ifs)
        BY <3>2, <3>6, ConditionBlocksAreBlocks DEF ConditionBlocks
      <4>2. CASE i \in 1..Len(left)
        <5>1. (left \o right)[i] = left[i] /\ left[i] \in Loads \cup Ifs
          BY <4>1, <4>2
        <5>2. left[i].jump \in Nat /\ left[i].jump + 3 <= Size(left) + jump
          BY <3>7, <3>9, <4>2, <5>1 DEF Loads, Ifs
        <5> QED BY <3>2, <3>3, <3>6, <3>8, <5>1, <5>2
      <4>3. CASE i \notin 1..Len(left)
        <5>1. i - Len(left) \in 1..Len(right) /\ (left \o right)[i] = right[i - Len(left)]
          BY <4>1, <4>3
        <5>2. PICK k \in 1..Len(right) : (left \o right)[i] = right[k]
          BY <5>1
        <5>3. right[k] \in Loads \cup Ifs
          BY <4>1
        <5>4. right[k].jump \in Nat /\ right[k].jump + 3 <= Size(right) + b
          BY <3>4, <3>9, <5>2, <5>3 DEF Loads, Ifs
        <5> QED BY <3>2, <3>6, <3>8, <5>2, <5>4
      <4> QED BY <4>2, <4>3
    <3> QED BY <3>5, <3>9
  <2>4. CASE c.op = "not"
    <3>1. c.arg \in Conditions /\ Depth[c.arg] < Depth[c] /\ Flip(type) \in JumpTypes
      BY <2>4, Operands DEF Flip, JumpTypes
    <3>2. ConditionBlockOf[c][b][type] = ConditionBlockOf[c.arg][b][Flip(type)]
      BY <2>4, ConditionBlockOfIs
    <3> HIDE DEF Inside
    <3> QED BY <2>1, <3>1, <3>2
  <2> QED BY <2>2, <2>3, <2>4, Operands
<1>2. Depth \in [Conditions -> Nat]
  BY ConditionAssumption
<1>3. Conditions \subseteq T
  <2> HIDE DEF T
  <2> QED BY <1>1, <1>2, DepthInduction
<1> QED
  BY <1>3

LEMMA OffsetExact ==
    ASSUME NEW jump \in Int, jump + 3 < JumpSpan \div 2, -(JumpSpan \div 2) <= jump + 3
    PROVE  Offset(jump) = jump + 3
<1> DEFINE half == JumpSpan \div 2
<1>1. JumpSpan \in Nat /\ half \in Nat /\ 2 * half <= JumpSpan
  BY JumpSpanAssumption
<1>2. \A n \in Nat : n < JumpSpan => n % JumpSpan = n
  BY <1>1
<1> HIDE DEF half
<1>3. jump + 3 + half \in Nat /\ jump + 3 + half < JumpSpan
  BY <1>1 DEF half
<1>4. (jump + 3 + half) % JumpSpan = jump + 3 + half
  BY <1>2, <1>3
<1> QED
  BY <1>1, <1>4 DEF Offset, half

-----------------------------------------------------------------------------
(* Statements: where the code of each of its parts starts.                 *)

LEMMA StatementParts ==
    ASSUME NEW s \in Statements
    PROVE  /\ s.conditions \in Seq(Conditions) /\ Len(s.conditions) \in Nat \ {0}
           /\ DOMAIN s.conditions = 1..Len(s.conditions)
           /\ \A k \in 1..Len(s.conditions) : s.conditions[k] \in Conditions
           /\ s.bodies \in Seq(Nat \ {0}) /\ Len(s.bodies) \in Nat
           /\ \A k \in 1..Len(s.bodies) : s.bodies[k] \in Nat \ {0}
           /\ \/ s.kind = "if" /\ Len(s.bodies) - Len(s.conditions) \in {0, 1}
              \/ s.kind = "while" /\ Len(s.conditions) = 1 /\ Len(s.bodies) = 1
              \/ s.kind = "value" /\ Len(s.conditions) = 1
<1>1. /\ s.conditions \in Seq(Conditions) /\ s.conditions # <<>>
      /\ s.bodies \in Seq(Nat \ {0})
      /\ \/ s.kind = "if" /\ Len(s.bodies) - Len(s.conditions) \in {0, 1}
         \/ s.kind = "while" /\ Len(s.conditions) = 1 /\ Len(s.bodies) = 1
         \/ s.kind = "value" /\ Len(s.conditions) = 1
  BY StatementAssumption
<1>2. Len(s.conditions) \in Nat \ {0} /\ DOMAIN s.conditions = 1..Len(s.conditions)
  BY <1>1
<1>3. \A k \in 1..Len(s.conditions) : s.conditions[k] \in Conditions
  BY <1>1
<1>4. Len(s.bodies) \in Nat /\ \A k \in 1..Len(s.bodies) : s.bodies[k] \in Nat \ {0}
  BY <1>1
<1> QED
  BY <1>1, <1>2, <1>3, <1>4

(* What a false condition skips. *)
Skip(s, k) == CASE s.kind = "if"    -> BodyJump(s, k)
                [] s.kind = "while" -> s.bodies[1] + 3
                [] OTHER            -> 4
CodeOf(s, k) == ConditionBlockOf[s.conditions[k]][Skip(s, k)]["IS_ZERO"]

LEMMA CodeOfIs ==
    ASSUME NEW s \in Statements, NEW k \in 1..Len(s.conditions)
    PROVE  /\ Skip(s, k) \in Nat \ {0}
           /\ CodeOf(s, k) \in ConditionBlocks /\ CodeOf(s, k) \in Seq(Instructions) /\ Size(CodeOf(s, k)) \in Nat
           /\ \A i \in 1..Len(CodeOf(s, k)) :
                  CodeOf(s, k)[i].do = "if" => CodeOf(s, k)[i].jump + 3 <= Size(CodeOf(s, k)) + Skip(s, k)
<1>1. s.conditions[k] \in Conditions
  BY StatementParts
<1>2. Skip(s, k) \in Nat \ {0}
  <2>1. s.kind \in {"if", "while"} => k \in 1..Len(s.bodies) /\ 1 \in 1..Len(s.bodies)
    BY StatementParts
  <2>2. CASE s.kind \in {"if", "while"}
    <3>1. s.bodies[k] \in Nat \ {0} /\ s.bodies[1] \in Nat \ {0}
      BY <2>1, <2>2, StatementParts
    <3> QED BY <2>2, <3>1 DEF Skip, BodyJump
  <2>3. CASE s.kind \notin {"if", "while"}
    BY <2>3 DEF Skip
  <2> QED BY <2>2, <2>3
<1>3. "IS_ZERO" \in JumpTypes
  BY DEF JumpTypes
<1>4. CodeOf(s, k) \in ConditionBlocks
  BY <1>1, <1>2, <1>3, ConditionBlockOfIs DEF CodeOf
<1>5. \A i \in 1..Len(CodeOf(s, k)) :
          CodeOf(s, k)[i].do = "if" => CodeOf(s, k)[i].jump + 3 <= Size(CodeOf(s, k)) + Skip(s, k)
  BY <1>1, <1>2, <1>3, JumpsInside DEF CodeOf
<1> QED
  BY <1>2, <1>4, <1>5, ConditionBlocksAreBlocks

LEMMA OneInstruction ==
    ASSUME NEW instruction \in Instructions
    PROVE  /\ <<instruction>> \in Seq(Instructions) /\ Len(<<instruction>>) = 1
           /\ <<instruction>>[1] = instruction
           /\ Ends(<<instruction>>)[0] = 0 /\ Size(<<instruction>>) = instruction.size
<1> DEFINE block == <<instruction>>
<1>1. block \in Seq(Instructions) /\ Len(block) = 1 /\ block[1] = instruction
  OBVIOUS
<1> HIDE DEF block
<1>2. Ends(block)[0] = 0 /\ Ends(block)[1] = Ends(block)[1 - 1] + block[1].size
  <2>1. 1 \in 1..Len(block)
    BY <1>1
  <2> QED BY <1>1, <2>1, EndsAre
<1>3. 1 - 1 = 0 /\ instruction.size \in Nat
  BY SizesAreNumbers
<1>4. Size(block) = instruction.size
  BY <1>1, <1>2, <1>3 DEF Size
<1> QED
  BY <1>1, <1>2, <1>4 DEF block

LEMMA BodiesAreInstructions ==
    ASSUME NEW s \in Statements, NEW k \in 1..Len(s.bodies)
    PROVE  Body(k, s.bodies[k]) \in Instructions /\ Body(k, s.bodies[k]).size = s.bodies[k]
<1>1. k \in Nat /\ s.bodies[k] \in Nat \ {0}
  BY StatementParts
<1> QED
  BY <1>1 DEF Body, Bodies, Instructions

LEMMA GotosAreInstructions ==
    \A jump \in Int : Goto(jump) \in Instructions /\ Goto(jump).size = 3
BY DEF Goto, Gotos, Instructions

(* A branch of an if: its condition, its body, and a goto unless it is last.*)
LEMMA BranchParts ==
    ASSUME NEW s \in Statements, s.kind = "if", NEW k \in 1..Len(s.conditions), NEW position \in Nat
    PROVE  LET block == BranchBlock(s, k, position)
               condition == CodeOf(s, k)
           IN  /\ block \in Seq(Instructions)
               /\ Size(block) = Size(condition) + Skip(s, k)
               /\ Within(block, condition, 0)
               /\ Within(block, <<Body(k, s.bodies[k])>>, Size(condition))
               /\ HasNext(s, k) => Within(block, <<Goto(position + Size(block))>>, Size(condition) + s.bodies[k])
<1> DEFINE block == BranchBlock(s, k, position)
           condition == CodeOf(s, k)
           body == <<Body(k, s.bodies[k])>>
           goto == <<Goto(position + Size(condition \o body) + 3)>>
<1>1. k \in 1..Len(s.bodies) /\ s.bodies[k] \in Nat \ {0}
  <2>1. k \in 1..Len(s.bodies)
    BY StatementParts
  <2> QED BY <2>1, StatementParts
<1>2. condition \in Seq(Instructions) /\ Size(condition) \in Nat
  BY CodeOfIs
<1>3. body \in Seq(Instructions) /\ Size(body) = s.bodies[k]
  BY <1>1, BodiesAreInstructions, OneInstruction
<1>4. block = IF HasNext(s, k) THEN (condition \o body) \o goto ELSE condition \o body
  BY DEF BranchBlock, CodeOf, Skip
<1>5. Skip(s, k) = s.bodies[k] + (IF HasNext(s, k) THEN 3 ELSE 0)
  BY DEF Skip, BodyJump
<1> HIDE DEF condition, body, block
<1>6. condition \o body \in Seq(Instructions) /\ Size(condition \o body) = Size(condition) + s.bodies[k]
  BY <1>2, <1>3, EndsOfBoth
<1>7. goto \in Seq(Instructions) /\ Size(goto) = 3
  <2>1. position + Size(condition \o body) + 3 \in Int
    BY <1>1, <1>2, <1>6
  <2> QED BY <2>1, GotosAreInstructions, OneInstruction
<1>8. Within(condition \o body, condition, 0) /\ Within(condition \o body, body, Size(condition))
  BY <1>2, <1>3, WithinBoth
<1> HIDE DEF goto
<1>9. CASE HasNext(s, k)
  <2>1. block = (condition \o body) \o goto
    BY <1>4, <1>9
  <2>2. block \in Seq(Instructions) /\ Size(block) = Size(condition) + s.bodies[k] + 3
    <3>1. block \in Seq(Instructions) /\ Size(block) = Size(condition \o body) + Size(goto)
      BY <1>6, <1>7, <2>1, EndsOfBoth
    <3> QED BY <1>1, <1>2, <1>6, <1>7, <3>1
  <2>3. Within(block, condition \o body, 0) /\ Within(block, goto, Size(condition \o body))
    BY <1>6, <1>7, <2>1, WithinBoth
  <2>4. Within(block, condition, 0 + 0) /\ Within(block, body, 0 + Size(condition))
    BY <1>2, <1>3, <1>6, <1>8, <2>2, <2>3, WithinWithin
  <2>5. 0 + 0 = 0 /\ 0 + Size(condition) = Size(condition)
    BY <1>2
  <2>6. goto = <<Goto(position + Size(block))>>
    <3>1. position + Size(condition \o body) + 3 = position + Size(block)
      BY <1>1, <1>2, <1>6, <2>2
    <3> QED BY <3>1 DEF goto
  <2>7. Size(block) = Size(condition) + Skip(s, k)
    BY <1>1, <1>2, <1>5, <1>9, <2>2
  <2>8. Within(block, <<Goto(position + Size(block))>>, Size(condition) + s.bodies[k])
    BY <1>6, <2>3, <2>6
  <2>9. Within(block, condition, 0) /\ Within(block, body, Size(condition))
    BY <2>4, <2>5
  <2> QED
    BY <2>2, <2>7, <2>8, <2>9 DEF condition, body, block
<1>10. CASE ~HasNext(s, k)
  <2>1. block = condition \o body
    BY <1>4, <1>10
  <2> QED
    BY <1>1, <1>5, <1>6, <1>8, <1>10, <2>1 DEF condition, body, block
<1> QED
  BY <1>9, <1>10

LEMMA BranchesAre ==
    ASSUME NEW s \in Statements, s.kind = "if"
    PROVE  /\ \A k \in 0..Len(s.conditions) : Branches(s)[k] \in Seq(Instructions)
           /\ Branches(s)[0] = <<>>
           /\ \A k \in 1..Len(s.conditions) :
                  Branches(s)[k] = Branches(s)[k - 1] \o BranchBlock(s, k, Size(Branches(s)[k - 1]))
<1> DEFINE n == Len(s.conditions)
           C == 0..n
           D == [k \in C |-> k]
           V == Seq(Instructions)
           Value(k, f) == IF k = 0 THEN <<>> ELSE f[k - 1] \o BranchBlock(s, k, Size(f[k - 1]))
           G == [k \in C |-> [f \in [C -> V] |-> Value(k, f)]]
           T == {k \in C : Branches(s)[k] \in V}
<1>0. n \in Nat /\ D \in [C -> Nat]
  BY StatementParts
<1>1. ASSUME NEW k \in C, k # 0 PROVE k \in 1..n /\ k - 1 \in C /\ D[k - 1] < D[k]
  BY <1>0, <1>1
<1>2. ASSUME NEW k \in C, NEW f, k # 0 => f[k - 1] \in V PROVE Value(k, f) \in V
  <2>1. CASE k = 0
    BY <2>1
  <2>2. CASE k # 0
    <3>1. f[k - 1] \in V /\ Size(f[k - 1]) \in Nat /\ k \in 1..n
      BY <1>1, <1>2, <2>2, EndsAre
    <3>2. BranchBlock(s, k, Size(f[k - 1])) \in V
      BY <3>1, BranchParts
    <3> QED BY <2>2, <3>1, <3>2
  <2> QED BY <2>1, <2>2
<1>3. G \in [C -> [[C -> V] -> V]]
  <2>1. ASSUME NEW k \in C, NEW f \in [C -> V] PROVE Value(k, f) \in V
    <3>1. k # 0 => f[k - 1] \in V
      <4> HIDE DEF C, V
      <4> QED BY <1>1
    <3> HIDE DEF Value, C, V
    <3> QED BY <1>2, <3>1
  <2> HIDE DEF C, V, Value
  <2> QED BY <2>1
<1>4. Downward(G, C, D, V)
  <2> SUFFICES ASSUME NEW k \in C, NEW f \in [C -> V], NEW g \in [C -> V],
                      \A d \in C : D[d] < D[k] => f[d] = g[d]
               PROVE  Value(k, f) = Value(k, g)
    <3> HIDE DEF Value, C, D, V
    <3> QED BY DEF Downward
  <2>1. k # 0 => f[k - 1] = g[k - 1]
    <3> HIDE DEF C, D
    <3> QED BY <1>1
  <2> QED BY <2>1
<1>5. HasSolution(G, C, V)
  <2>1. V # {}
    <3>1. <<>> \in Seq(Instructions)
      OBVIOUS
    <3> QED BY <3>1
  <2> HIDE DEF G, C, D, V
  <2>2. Recursion(G, C, D, V)
    BY <1>0, <1>3, <1>4, <2>1 DEF Recursion
  <2> QED BY <2>2, RecursionHolds
<1>6. PICK f \in [C -> V] : f = [k \in C |-> Value(k, f)]
  <2> HIDE DEF C, V, Value
  <2> QED BY <1>5 DEF HasSolution
<1>7. Branches(s) = [k \in C |-> Value(k, Branches(s))]
  BY <1>6 DEF Branches
<1>8. ASSUME NEW k \in C PROVE Branches(s)[k] = Value(k, Branches(s))
  <2> HIDE DEF C, Value
  <2> QED BY <1>7
<1>9. ASSUME NEW k \in C, \A d \in C : D[d] < D[k] => d \in T
      PROVE  k \in T
  <2>1. k # 0 => Branches(s)[k - 1] \in V
    <3> HIDE DEF C, D, V
    <3> QED BY <1>1, <1>9
  <2>2. Value(k, Branches(s)) \in V
    <3> HIDE DEF C, Value, V
    <3> QED BY <1>2, <2>1
  <2> HIDE DEF C, Value, V
  <2> QED
    BY <1>8, <2>2
<1>10. C \subseteq T
  <2> HIDE DEF T, C, D
  <2> QED BY <1>0, <1>9, DepthInduction
<1> QED
  <2>1. 0 \in C /\ \A k \in 1..n : k \in C /\ k # 0
    BY <1>0
  <2>2. Branches(s)[0] = <<>>
    BY <1>8, <2>1
  <2>3. \A k \in 1..n : Branches(s)[k] = Branches(s)[k - 1] \o BranchBlock(s, k, Size(Branches(s)[k - 1]))
    <3> HIDE DEF C
    <3> QED BY <1>8, <2>1
  <2> QED
    BY <1>10, <2>2, <2>3

LEMMA EmptyBlock == <<>> \in Seq(Instructions) /\ Size(<<>>) = 0
<1>1. <<>> \in Seq(Instructions) /\ Len(<<>>) = 0
  OBVIOUS
<1> QED
  BY <1>1, EndsAre DEF Size

(* A part k starts where a false condition before it leads. *)
StartOf(s, k) ==
    CASE s.kind = "if" -> Size(Branches(s)[k - 1])
      [] OTHER         -> IF k = 1 THEN 0 ELSE Size(CodeOf(s, 1)) + Skip(s, 1)

LEMMA StartsAre ==
    ASSUME NEW s \in Statements
    PROVE  /\ StartOf(s, 1) = 0
           /\ \A k \in 1..(Len(s.conditions) + 1) : StartOf(s, k) \in Nat
           /\ \A k \in 1..Len(s.conditions) :
                  StartOf(s, k + 1) = StartOf(s, k) + Size(CodeOf(s, k)) + Skip(s, k)
<1> DEFINE n == Len(s.conditions)
<1>1. n \in Nat \ {0}
  BY StatementParts
<1> HIDE DEF n
<1>2. CASE s.kind = "if"
  <2>1. StartOf(s, 1) = 0
    <3>1. 1 - 1 = 0
      OBVIOUS
    <3> QED BY <1>2, <3>1, BranchesAre, EmptyBlock DEF StartOf
  <2>2. ASSUME NEW k \in 1..(n + 1) PROVE StartOf(s, k) \in Nat
    <3>1. k - 1 \in 0..n
      BY <1>1
    <3>2. Branches(s)[k - 1] \in Seq(Instructions)
      BY <1>2, <3>1, BranchesAre DEF n
    <3> QED BY <1>2, <3>2, EndsAre DEF StartOf
  <2>3. ASSUME NEW k \in 1..n
        PROVE  StartOf(s, k + 1) = StartOf(s, k) + Size(CodeOf(s, k)) + Skip(s, k)
    <3>1. k - 1 \in 0..n /\ k + 1 - 1 = k /\ k \in 1..(n + 1)
      BY <1>1
    <3>2. Branches(s)[k - 1] \in Seq(Instructions) /\ StartOf(s, k) = Size(Branches(s)[k - 1]) /\ StartOf(s, k) \in Nat
      BY <1>2, <2>2, <3>1, BranchesAre DEF n, StartOf
    <3>3. Branches(s)[k] = Branches(s)[k - 1] \o BranchBlock(s, k, StartOf(s, k))
      BY <1>2, <3>2, BranchesAre DEF n
    <3>4. /\ BranchBlock(s, k, StartOf(s, k)) \in Seq(Instructions)
          /\ Size(BranchBlock(s, k, StartOf(s, k))) = Size(CodeOf(s, k)) + Skip(s, k)
      BY <1>2, <3>2, BranchParts DEF n
    <3>5. Size(Branches(s)[k]) = StartOf(s, k) + Size(BranchBlock(s, k, StartOf(s, k)))
      BY <3>2, <3>3, <3>4, EndsOfBoth
    <3>6. StartOf(s, k + 1) = Size(Branches(s)[k])
      BY <1>2, <3>1 DEF StartOf
    <3>7. Size(CodeOf(s, k)) \in Nat /\ Skip(s, k) \in Nat
      BY CodeOfIs DEF n
    <3> QED BY <3>2, <3>4, <3>5, <3>6, <3>7
  <2> QED BY <2>1, <2>2, <2>3 DEF n
<1>3. CASE s.kind # "if"
  <2>1. n = 1 /\ 1 \in 1..n /\ 1 + 1 = 2
    BY <1>3, StatementParts DEF n
  <2>2. Size(CodeOf(s, 1)) \in Nat /\ Skip(s, 1) \in Nat
    BY <2>1, CodeOfIs DEF n
  <2>3. StartOf(s, 1) = 0 /\ StartOf(s, 2) = Size(CodeOf(s, 1)) + Skip(s, 1)
    BY <1>3 DEF StartOf
  <2>4. \A k \in 1..(n + 1) : k = 1 \/ k = 2
    BY <2>1
  <2>5. \A k \in 1..n : k = 1
    BY <2>1
  <2> QED
    BY <2>1, <2>2, <2>3, <2>4, <2>5 DEF n
<1> QED
  BY <1>2, <1>3

(* The branches of an if follow each other. *)
LEMMA BranchesWithin ==
    ASSUME NEW s \in Statements, s.kind = "if"
    PROVE  \A k \in 1..Len(s.conditions) :
               Within(Branches(s)[Len(s.conditions)], BranchBlock(s, k, StartOf(s, k)), StartOf(s, k))
<1> DEFINE n == Len(s.conditions)
           B(k) == BranchBlock(s, k, StartOf(s, k))
           T == {m \in 0..n : \A k \in 1..m : Within(Branches(s)[m], B(k), StartOf(s, k))}
<1>1. n \in Nat
  BY StatementParts
<1>2. ASSUME NEW k \in 1..n
      PROVE  /\ B(k) \in Seq(Instructions) /\ StartOf(s, k) = Size(Branches(s)[k - 1]) /\ StartOf(s, k) \in Nat
             /\ Branches(s)[k] = Branches(s)[k - 1] \o B(k)
             /\ Branches(s)[k - 1] \in Seq(Instructions) /\ Branches(s)[k] \in Seq(Instructions)
  <2>1. k \in 1..(n + 1) /\ k - 1 \in 0..n /\ k \in 0..n
    BY <1>1
  <2>2. StartOf(s, k) = Size(Branches(s)[k - 1]) /\ StartOf(s, k) \in Nat
    BY <2>1, StartsAre DEF StartOf
  <2> QED BY <2>1, <2>2, BranchesAre, BranchParts
<1> HIDE DEF n, B
<1>3. 0 \in T
  BY <1>1
<1>4. ASSUME NEW m \in 1..n, m - 1 \in T PROVE m \in T
  <2>1. m \in 0..n
    BY <1>1
  <2>2. ASSUME NEW k \in 1..m PROVE Within(Branches(s)[m], B(k), StartOf(s, k))
    <3>1. k \in 1..n
      BY <1>1
    <3>2. /\ Within(Branches(s)[m], Branches(s)[m - 1], 0)
          /\ Within(Branches(s)[m], B(m), Size(Branches(s)[m - 1]))
      BY <1>2, WithinBoth
    <3>3. CASE k = m
      BY <1>2, <3>2, <3>3
    <3>4. CASE k # m
      <4>1. k \in 1..(m - 1)
        BY <3>4
      <4>2. Within(Branches(s)[m - 1], B(k), StartOf(s, k))
        BY <1>4, <4>1
      <4>3. 0 + StartOf(s, k) = StartOf(s, k) /\ 0 \in Nat
        BY <1>2, <3>1
      <4>4. Within(Branches(s)[m], B(k), 0 + StartOf(s, k))
        BY <1>2, <3>1, <3>2, <4>2, <4>3, WithinWithin
      <4> QED BY <4>3, <4>4
    <3> QED BY <3>3, <3>4
  <2> QED BY <2>1, <2>2
<1>5. \A m \in 0..n : m \in T
  <2> HIDE DEF T
  <2> QED BY <1>1, <1>3, <1>4, UpToInduction
<1>6. n \in 0..n
  BY <1>1
<1> QED
  BY <1>5, <1>6 DEF n, B

LEMMA TargetedIs ==
    ASSUME NEW block \in Seq(Instructions), NEW target \in Int
    PROVE  LET there == Targeted(block, target)
           IN  /\ there \in Seq(Instructions) /\ Len(there) = Len(block) /\ Size(there) = Size(block)
               /\ \A i \in 0..Len(block) : Ends(there)[i] = Ends(block)[i]
               /\ \A i \in 1..Len(block) :
                      there[i] = IF block[i].do = "goto" THEN Goto(target - block[i].jump) ELSE block[i]
<1> DEFINE n == Len(block)
           there == Targeted(block, target)
<1>1. n \in Nat /\ DOMAIN block = 1..n /\ \A i \in 1..n : block[i] \in Instructions
  OBVIOUS
<1> HIDE DEF n
<1>2. ASSUME NEW i \in 1..n
      PROVE  /\ there[i] = IF block[i].do = "goto" THEN Goto(target - block[i].jump) ELSE block[i]
             /\ there[i] \in Instructions /\ there[i].size = block[i].size
  <2>1. there[i] = IF block[i].do = "goto" THEN [block[i] EXCEPT !.jump = target - @] ELSE block[i]
    BY <1>1 DEF Targeted
  <2>2. CASE block[i].do = "goto"
    <3>1. block[i] \in Gotos
      BY <1>1, <2>2 DEF Instructions, Loads, Ifs, Bodies, Pushes
    <3>2. [block[i] EXCEPT !.jump = target - @] = Goto(target - block[i].jump)
      BY <3>1 DEF Gotos, Goto
    <3>3. target - block[i].jump \in Int /\ block[i].size = 3
      BY <3>1 DEF Gotos
    <3> QED BY <2>1, <2>2, <3>2, <3>3, GotosAreInstructions
  <2>3. CASE block[i].do # "goto"
    BY <1>1, <2>1, <2>3
  <2> QED BY <2>2, <2>3
<1>3. there \in Seq(Instructions) /\ Len(there) = n
  <2>1. there = [i \in 1..n |-> there[i]]
    BY <1>1 DEF Targeted
  <2> HIDE DEF there
  <2>2. there \in [1..n -> Instructions]
    BY <1>2, <2>1
  <2>3. there \in Seq(Instructions)
    BY <1>1, <2>2
  <2>4. DOMAIN there = 1..n /\ DOMAIN there = 1..Len(there) /\ Len(there) \in Nat
    BY <2>2, <2>3
  <2>5. Len(there) = n
    BY <1>1, <2>4
  <2> QED BY <2>3, <2>5
<1> HIDE DEF there
<1>4. \A i \in 0..n : i \in {j \in 0..n : Ends(there)[j] = Ends(block)[j]}
  <2> DEFINE T == {j \in 0..n : Ends(there)[j] = Ends(block)[j]}
  <2>1. 0 \in T
    BY <1>1, <1>3, EndsAre
  <2>2. ASSUME NEW i \in 1..n, i - 1 \in T PROVE i \in T
    <3>1. i \in 0..n /\ i \in 1..Len(there) /\ i \in 1..Len(block)
      BY <1>1, <1>3 DEF n
    <3>2. Ends(there)[i] = Ends(there)[i - 1] + there[i].size
      BY <1>3, <3>1, EndsAre
    <3>3. Ends(block)[i] = Ends(block)[i - 1] + block[i].size
      BY <3>1, EndsAre
    <3> QED BY <1>2, <2>2, <3>1, <3>2, <3>3
  <2> HIDE DEF T
  <2>3. \A i \in 0..n : i \in T
    BY <1>1, <2>1, <2>2, UpToInduction
  <2> QED BY <2>3 DEF T
<1>5. Size(there) = Size(block)
  <2>1. n \in 0..n
    BY <1>1
  <2> QED BY <1>3, <1>4, <2>1 DEF Size, n
<1> QED
  BY <1>2, <1>3, <1>4, <1>5 DEF n, there

(* The instruction at an offset of the code of a statement. *)
At(s, at, instruction) ==
    at \in DOMAIN Emitted(BlockOf(s)) /\ Emitted(BlockOf(s))[at] = instruction

LEMMA AtEnds ==
    ASSUME NEW s \in Statements, BlockOf(s) \in Seq(Instructions), NEW at, NEW instruction, At(s, at, instruction)
    PROVE  at \in Nat /\ instruction \in Instructions /\ at + instruction.size <= Size(BlockOf(s))
<1> DEFINE block == BlockOf(s)
<1>1. DOMAIN block = 1..Len(block) /\ Len(block) \in Nat
  OBVIOUS
<1> HIDE DEF block
<1>2. PICK i \in 1..Len(block) : at = Ends(block)[i - 1]
  BY <1>1 DEF At, Emitted, block
<1>3. instruction = block[i] /\ block[i] \in Instructions
  BY <1>2, EmittedAt DEF At, block
<1>4. i \in 0..Len(block) /\ i - 1 \in 0..Len(block) /\ Len(block) \in 0..Len(block) /\ (i = Len(block) \/ i < Len(block))
  <2>1. \A n \in Nat : \A k \in 1..n : k \in 0..n /\ k - 1 \in 0..n /\ n \in 0..n /\ (k = n \/ k < n)
    OBVIOUS
  <2> QED BY <1>1, <2>1
<1>5. /\ Ends(block) \in [0..Len(block) -> Nat]
      /\ Ends(block)[i] = Ends(block)[i - 1] + block[i].size
      /\ (i < Len(block) => Ends(block)[i] < Ends(block)[Len(block)])
  BY <1>4, EndsAre, EndsGrow DEF block
<1>6. Ends(block)[i] \in Nat /\ Ends(block)[i - 1] \in Nat /\ Ends(block)[Len(block)] \in Nat
  BY <1>4, <1>5
<1> QED
  BY <1>2, <1>3, <1>4, <1>5, <1>6 DEF Size, block

LEMMA AtWithin ==
    ASSUME NEW s \in Statements, BlockOf(s) \in Seq(Instructions),
           NEW sub \in Seq(Instructions), NEW p \in Nat, Within(BlockOf(s), sub, p)
    PROVE  \A i \in 1..Len(sub) : At(s, p + Ends(sub)[i - 1], sub[i])
<1> SUFFICES ASSUME NEW i \in 1..Len(sub) PROVE At(s, p + Ends(sub)[i - 1], sub[i])
  OBVIOUS
<1>1. PICK j \in 1..Len(BlockOf(s)) : BlockOf(s)[j] = sub[i] /\ Ends(BlockOf(s))[j - 1] = p + Ends(sub)[i - 1]
  BY DEF Within
<1> QED
  BY <1>1, EmittedAt DEF At

(* The goto of a branch leads to the end of an if. *)
LEMMA AtTargeted ==
    ASSUME NEW s \in Statements, NEW block \in Seq(Instructions), NEW target \in Int,
           BlockOf(s) = Targeted(block, target), NEW sub \in Seq(Instructions), NEW p \in Nat, Within(block, sub, p)
    PROVE  \A i \in 1..Len(sub) :
               At(s, p + Ends(sub)[i - 1],
                  IF sub[i].do = "goto" THEN Goto(target - sub[i].jump) ELSE sub[i])
<1> SUFFICES ASSUME NEW i \in 1..Len(sub)
             PROVE  At(s, p + Ends(sub)[i - 1],
                       IF sub[i].do = "goto" THEN Goto(target - sub[i].jump) ELSE sub[i])
  OBVIOUS
<1>1. PICK j \in 1..Len(block) : block[j] = sub[i] /\ Ends(block)[j - 1] = p + Ends(sub)[i - 1]
  BY DEF Within
<1>2. j - 1 \in 0..Len(block)
  OBVIOUS
<1>3. /\ BlockOf(s) \in Seq(Instructions) /\ j \in 1..Len(BlockOf(s))
      /\ Ends(BlockOf(s))[j - 1] = Ends(block)[j - 1]
      /\ BlockOf(s)[j] = IF block[j].do = "goto" THEN Goto(target - block[j].jump) ELSE block[j]
  BY <1>2, TargetedIs
<1> QED
  BY <1>1, <1>3, EmittedAt DEF At

End(s) == Size(BlockOf(s))
BodyAt(s, k) == StartOf(s, k) + Size(CodeOf(s, k))

(* The code of condition k is where part k starts. *)
Placed(s) ==
    /\ BlockOf(s) \in Seq(Instructions)
    /\ \A k \in 1..Len(s.conditions) :
        /\ \A i \in 1..Len(CodeOf(s, k)) : At(s, StartOf(s, k) + Ends(CodeOf(s, k))[i - 1], CodeOf(s, k)[i])
        /\ Size(CodeOf(s, k)) + Skip(s, k) <= End(s)

IfPlaced(s) ==
    /\ \A k \in 1..Len(s.conditions) :
        /\ At(s, BodyAt(s, k), Body(k, s.bodies[k]))
        /\ HasNext(s, k) =>
               At(s, BodyAt(s, k) + s.bodies[k], Goto(End(s) - (BodyAt(s, k) + s.bodies[k] + 3)))
        /\ ~HasNext(s, k) => BodyAt(s, k) + s.bodies[k] = End(s)
    /\ LET k == Len(s.conditions) + 1
       IN  IF k > Len(s.bodies) THEN StartOf(s, k) = End(s)
           ELSE At(s, StartOf(s, k), Body(k, s.bodies[k])) /\ StartOf(s, k) + s.bodies[k] = End(s)

LEMMA IfCode ==
    ASSUME NEW s \in Statements, s.kind = "if"
    PROVE  Placed(s) /\ IfPlaced(s)
<1> DEFINE n == Len(s.conditions)
           chain == Branches(s)[n]
           block == chain \o Else(s)
           B(k) == BranchBlock(s, k, StartOf(s, k))
<1>1. n \in Nat \ {0} /\ Len(s.bodies) \in Nat /\ Len(s.bodies) - n \in {0, 1}
  BY StatementParts
<1>2. chain \in Seq(Instructions) /\ Size(chain) \in Nat /\ Size(chain) = StartOf(s, n + 1)
  <2>1. n \in 0..n /\ n + 1 - 1 = n
    BY <1>1
  <2>2. Branches(s)[n] \in Seq(Instructions)
    BY <2>1, BranchesAre
  <2>3. StartOf(s, n + 1) = Size(Branches(s)[n])
    BY <2>1 DEF StartOf
  <2> HIDE DEF n
  <2> QED BY <2>2, <2>3, EndsAre
<1>3. Else(s) \in Seq(Instructions)
  <2>1. CASE n + 1 > Len(s.bodies)
    BY <2>1, EmptyBlock DEF Else
  <2>2. CASE ~(n + 1 > Len(s.bodies))
    <3>1. n + 1 \in 1..Len(s.bodies)
      BY <1>1, <2>2
    <3> QED BY <2>2, <3>1, BodiesAreInstructions, OneInstruction DEF Else
  <2> QED BY <2>1, <2>2
<1>4. BlockOf(s) = Targeted(block, Size(block))
  BY DEF BlockOf, IfBlock
<1> HIDE DEF n, chain, block, B
<1>5. /\ block \in Seq(Instructions) /\ Size(block) \in Int /\ Size(block) = Size(chain) + Size(Else(s))
      /\ Within(block, chain, 0) /\ Within(block, Else(s), Size(chain))
  BY <1>2, <1>3, EndsOfBoth, EndsAre, WithinBoth DEF block
<1>6. BlockOf(s) \in Seq(Instructions) /\ End(s) = Size(block)
  BY <1>4, <1>5, TargetedIs DEF End
<1>7. ASSUME NEW sub \in Seq(Instructions), NEW p \in Nat, Within(block, sub, p)
      PROVE  \A i \in 1..Len(sub) :
                 At(s, p + Ends(sub)[i - 1], IF sub[i].do = "goto" THEN Goto(End(s) - sub[i].jump) ELSE sub[i])
  BY <1>4, <1>5, <1>6, <1>7, AtTargeted
<1>8. ASSUME NEW p \in Nat, NEW instruction \in Instructions, Within(block, <<instruction>>, p)
      PROVE  At(s, p, IF instruction.do = "goto" THEN Goto(End(s) - instruction.jump) ELSE instruction)
  <2> DEFINE sub == <<instruction>>
  <2>1. sub \in Seq(Instructions) /\ Len(sub) = 1 /\ sub[1] = instruction /\ Ends(sub)[0] = 0
    BY OneInstruction
  <2>2. Within(block, sub, p)
    BY <1>8
  <2> HIDE DEF sub
  <2>3. At(s, p + Ends(sub)[1 - 1], IF sub[1].do = "goto" THEN Goto(End(s) - sub[1].jump) ELSE sub[1])
    <3>1. 1 \in 1..Len(sub)
      BY <2>1
    <3> QED BY <1>7, <2>1, <2>2, <3>1
  <2>4. 1 - 1 = 0 /\ p + 0 = p
    OBVIOUS
  <2> QED BY <2>1, <2>3, <2>4
<1>9. ASSUME NEW k \in 1..n
      PROVE  /\ StartOf(s, k) \in Nat /\ Size(CodeOf(s, k)) \in Nat /\ s.bodies[k] \in Nat \ {0}
             /\ k \in 1..Len(s.bodies) /\ CodeOf(s, k) \in ConditionBlocks /\ CodeOf(s, k) \in Seq(Instructions)
             /\ BodyAt(s, k) \in Nat
             /\ Within(block, CodeOf(s, k), StartOf(s, k))
             /\ Within(block, <<Body(k, s.bodies[k])>>, BodyAt(s, k))
             /\ HasNext(s, k) => Within(block, <<Goto(StartOf(s, k) + Size(B(k)))>>, BodyAt(s, k) + s.bodies[k])
             /\ Size(B(k)) = Size(CodeOf(s, k)) + Skip(s, k)
  <2>1. k \in 1..(n + 1) /\ k \in 1..Len(s.bodies) /\ k \in 1..Len(s.conditions)
    BY <1>1 DEF n
  <2>2. StartOf(s, k) \in Nat
    BY <2>1, StartsAre DEF n
  <2>3. /\ Size(CodeOf(s, k)) \in Nat /\ s.bodies[k] \in Nat \ {0} /\ CodeOf(s, k) \in ConditionBlocks
        /\ CodeOf(s, k) \in Seq(Instructions)
    BY <2>1, CodeOfIs, StatementParts
  <2>4. /\ B(k) \in Seq(Instructions)
        /\ Size(B(k)) = Size(CodeOf(s, k)) + Skip(s, k)
        /\ Within(B(k), CodeOf(s, k), 0)
        /\ Within(B(k), <<Body(k, s.bodies[k])>>, Size(CodeOf(s, k)))
        /\ HasNext(s, k) => Within(B(k), <<Goto(StartOf(s, k) + Size(B(k)))>>, Size(CodeOf(s, k)) + s.bodies[k])
    BY <2>1, <2>2, BranchParts DEF B
  <2>5. Within(block, B(k), StartOf(s, k))
    <3>1. Within(chain, B(k), StartOf(s, k))
      BY <2>1, BranchesWithin DEF B, chain, n
    <3>2. Within(block, B(k), 0 + StartOf(s, k))
      BY <1>2, <1>5, <2>2, <2>4, <3>1, WithinWithin
    <3> QED BY <2>2, <3>2
  <2>6. Within(block, CodeOf(s, k), StartOf(s, k) + 0)
    BY <1>5, <2>2, <2>3, <2>4, <2>5, WithinWithin
  <2>7. Within(block, <<Body(k, s.bodies[k])>>, StartOf(s, k) + Size(CodeOf(s, k)))
    <3>1. <<Body(k, s.bodies[k])>> \in Seq(Instructions)
      BY <2>1, BodiesAreInstructions, OneInstruction
    <3> QED BY <1>5, <2>2, <2>3, <2>4, <2>5, <3>1, WithinWithin
  <2>8. HasNext(s, k) => Within(block, <<Goto(StartOf(s, k) + Size(B(k)))>>,
                                StartOf(s, k) + (Size(CodeOf(s, k)) + s.bodies[k]))
    <3> SUFFICES ASSUME HasNext(s, k)
                 PROVE  Within(block, <<Goto(StartOf(s, k) + Size(B(k)))>>,
                               StartOf(s, k) + (Size(CodeOf(s, k)) + s.bodies[k]))
      OBVIOUS
    <3>1. StartOf(s, k) + Size(B(k)) \in Int /\ Size(CodeOf(s, k)) + s.bodies[k] \in Nat
      BY <2>2, <2>3, <2>4, EndsAre
    <3>2. <<Goto(StartOf(s, k) + Size(B(k)))>> \in Seq(Instructions)
      BY <3>1, GotosAreInstructions, OneInstruction
    <3> QED BY <1>5, <2>2, <2>3, <2>4, <2>5, <3>1, <3>2, WithinWithin
  <2>9. /\ StartOf(s, k) + 0 = StartOf(s, k)
        /\ StartOf(s, k) + (Size(CodeOf(s, k)) + s.bodies[k]) = BodyAt(s, k) + s.bodies[k]
        /\ BodyAt(s, k) = StartOf(s, k) + Size(CodeOf(s, k)) /\ BodyAt(s, k) \in Nat
    BY <2>2, <2>3 DEF BodyAt
  <2> QED BY <2>1, <2>2, <2>3, <2>4, <2>6, <2>7, <2>8, <2>9
<1>10. ASSUME NEW k \in 1..n
       PROVE  /\ StartOf(s, k) \in Nat /\ Size(CodeOf(s, k)) \in Nat /\ s.bodies[k] \in Nat
              /\ End(s) \in Int /\ BodyAt(s, k) = StartOf(s, k) + Size(CodeOf(s, k))
              /\ Size(B(k)) = Size(CodeOf(s, k)) + Skip(s, k)
              /\ BodyAt(s, k) + s.bodies[k] \in Nat
  <2>1. StartOf(s, k) \in Nat /\ Size(CodeOf(s, k)) \in Nat /\ s.bodies[k] \in Nat /\ BodyAt(s, k) \in Nat
    BY <1>9
  <2>2. Size(B(k)) = Size(CodeOf(s, k)) + Skip(s, k)
    BY <1>9
  <2> QED BY <1>5, <1>6, <2>1, <2>2 DEF BodyAt
<1>11. ASSUME NEW k \in 1..n PROVE At(s, BodyAt(s, k), Body(k, s.bodies[k]))
  <2>1. Body(k, s.bodies[k]) \in Instructions /\ Body(k, s.bodies[k]).do # "goto"
    BY <1>9, BodiesAreInstructions DEF Body
  <2>2. Within(block, <<Body(k, s.bodies[k])>>, BodyAt(s, k)) /\ BodyAt(s, k) \in Nat
    BY <1>9
  <2> HIDE DEF Body
  <2> QED BY <1>8, <2>1, <2>2
<1>12. ASSUME NEW k \in 1..n, HasNext(s, k)
       PROVE  At(s, BodyAt(s, k) + s.bodies[k], Goto(End(s) - (BodyAt(s, k) + s.bodies[k] + 3)))
  <2> DEFINE jump == StartOf(s, k) + Size(B(k))
  <2>1. jump = BodyAt(s, k) + s.bodies[k] + 3 /\ jump \in Int
    <3>1. Skip(s, k) = s.bodies[k] + 3
      BY <1>12 DEF Skip, BodyJump
    <3> QED BY <1>10, <3>1
  <2>2. Goto(jump) \in Instructions /\ Goto(jump).do = "goto" /\ Goto(jump).jump = jump
    BY <2>1, GotosAreInstructions DEF Goto
  <2>3. Within(block, <<Goto(jump)>>, BodyAt(s, k) + s.bodies[k])
    BY <1>9, <1>12
  <2>4. BodyAt(s, k) + s.bodies[k] \in Nat
    BY <1>10
  <2> HIDE DEF jump
  <2>5. At(s, BodyAt(s, k) + s.bodies[k], Goto(End(s) - jump))
    BY <1>8, <2>2, <2>3, <2>4
  <2> QED BY <2>1, <2>5
<1>13. /\ ~(n + 1 > Len(s.bodies)) =>
              /\ At(s, StartOf(s, n + 1), Body(n + 1, s.bodies[n + 1]))
              /\ StartOf(s, n + 1) + s.bodies[n + 1] = End(s)
       /\ n + 1 > Len(s.bodies) => StartOf(s, n + 1) = End(s)
  <2>1. CASE n + 1 > Len(s.bodies)
    <3>1. Size(Else(s)) = 0
      BY <2>1, EmptyBlock DEF Else, n
    <3> QED BY <1>2, <1>5, <1>6, <2>1, <3>1
  <2>2. CASE ~(n + 1 > Len(s.bodies))
    <3>1. n + 1 \in 1..Len(s.bodies)
      BY <1>1, <2>2
    <3>2. Else(s) = <<Body(n + 1, s.bodies[n + 1])>>
      BY <2>2 DEF Else, n
    <3>3. Body(n + 1, s.bodies[n + 1]) \in Instructions /\ Size(Else(s)) = s.bodies[n + 1]
      BY <3>1, <3>2, BodiesAreInstructions, OneInstruction
    <3>4. Body(n + 1, s.bodies[n + 1]).do # "goto"
      BY DEF Body
    <3>5. Within(block, <<Body(n + 1, s.bodies[n + 1])>>, StartOf(s, n + 1)) /\ StartOf(s, n + 1) \in Nat
      BY <1>2, <1>5, <3>2
    <3>6. At(s, StartOf(s, n + 1), Body(n + 1, s.bodies[n + 1]))
      BY <1>8, <3>3, <3>4, <3>5
    <3> QED BY <1>2, <1>5, <1>6, <2>2, <3>3, <3>6
  <2> QED BY <2>1, <2>2
<1>14. ASSUME NEW k \in 1..n, ~HasNext(s, k) PROVE BodyAt(s, k) + s.bodies[k] = End(s)
  <2>1. k = n /\ n + 1 > Len(s.bodies)
    BY <1>1, <1>9, <1>14 DEF HasNext
  <2>2. StartOf(s, n + 1) = StartOf(s, n) + Size(CodeOf(s, n)) + Skip(s, n)
    BY <2>1, StartsAre DEF n
  <2>3. Skip(s, k) = s.bodies[k] + 0
    BY <1>14 DEF Skip, BodyJump
  <2> QED BY <1>13, <1>10, <2>1, <2>2, <2>3
<1>15. ASSUME NEW k \in 1..n PROVE Size(CodeOf(s, k)) + Skip(s, k) <= End(s)
  <2>1. CASE HasNext(s, k)
    <3>1. End(s) - (BodyAt(s, k) + s.bodies[k] + 3) \in Int
      BY <1>10
    <3>2. BodyAt(s, k) + s.bodies[k] + 3 <= End(s)
      BY <1>6, <1>12, <2>1, <3>1, AtEnds, GotosAreInstructions DEF End
    <3>3. Skip(s, k) = s.bodies[k] + 3
      BY <2>1 DEF Skip, BodyJump
    <3> QED BY <1>10, <3>2, <3>3
  <2>2. CASE ~HasNext(s, k)
    <3>1. Skip(s, k) = s.bodies[k] + 0
      BY <2>2 DEF Skip, BodyJump
    <3> QED BY <1>14, <1>10, <2>2, <3>1
  <2> QED BY <2>1, <2>2
<1>16. ASSUME NEW k \in 1..n, NEW i \in 1..Len(CodeOf(s, k))
       PROVE  At(s, StartOf(s, k) + Ends(CodeOf(s, k))[i - 1], CodeOf(s, k)[i])
  <2>1. CodeOf(s, k)[i].do # "goto"
    <3>1. CodeOf(s, k) \in Seq(Loads \cup Ifs)
      BY <1>9 DEF ConditionBlocks
    <3>2. CodeOf(s, k)[i] \in Loads \cup Ifs
      BY <3>1
    <3> QED BY <3>2 DEF Loads, Ifs
  <2> QED BY <1>7, <1>9, <2>1
<1> QED
  BY <1>6, <1>11, <1>12, <1>13, <1>14, <1>15, <1>16 DEF Placed, IfPlaced, n

WhilePlaced(s) ==
    /\ At(s, BodyAt(s, 1), Body(1, s.bodies[1]))
    /\ At(s, BodyAt(s, 1) + s.bodies[1], Goto(-(BodyAt(s, 1) + s.bodies[1] + 3)))
    /\ BodyAt(s, 1) + s.bodies[1] + 3 = End(s)

LEMMA AtOne ==
    ASSUME NEW s \in Statements, BlockOf(s) \in Seq(Instructions), NEW p \in Nat,
           NEW instruction \in Instructions, Within(BlockOf(s), <<instruction>>, p)
    PROVE  At(s, p, instruction)
<1> DEFINE sub == <<instruction>>
<1>1. sub \in Seq(Instructions) /\ Len(sub) = 1 /\ sub[1] = instruction /\ Ends(sub)[0] = 0
  BY OneInstruction
<1>2. Within(BlockOf(s), sub, p)
  OBVIOUS
<1> HIDE DEF sub
<1>3. 1 \in 1..Len(sub) /\ 1 - 1 = 0 /\ p + 0 = p
  BY <1>1
<1>4. At(s, p + Ends(sub)[1 - 1], sub[1])
  BY <1>1, <1>2, <1>3, AtWithin
<1> QED
  BY <1>1, <1>3, <1>4

(* A block that starts with the only condition of a statement. *)
LEMMA ConditionFirst ==
    ASSUME NEW s \in Statements, s.kind # "if", NEW rest \in Seq(Instructions),
           BlockOf(s) = CodeOf(s, 1) \o rest, Skip(s, 1) <= Size(rest)
    PROVE  /\ Placed(s) /\ End(s) = BodyAt(s, 1) + Size(rest) /\ BodyAt(s, 1) \in Nat
           /\ Within(BlockOf(s), rest, BodyAt(s, 1))
<1> DEFINE condition == CodeOf(s, 1)
<1>1. Len(s.conditions) = 1 /\ 1 \in 1..Len(s.conditions) /\ \A k \in 1..Len(s.conditions) : k = 1
  BY StatementParts
<1>2. condition \in Seq(Instructions) /\ Size(condition) \in Nat /\ Skip(s, 1) \in Nat
  BY <1>1, CodeOfIs
<1>3. Size(rest) \in Nat
  BY EndsAre
<1>4. StartOf(s, 1) = 0 /\ BodyAt(s, 1) = Size(condition)
  BY <1>2, StartsAre DEF BodyAt
<1> HIDE DEF condition
<1>5. /\ BlockOf(s) \in Seq(Instructions) /\ End(s) = Size(condition) + Size(rest)
      /\ Within(BlockOf(s), condition, 0) /\ Within(BlockOf(s), rest, Size(condition))
  BY <1>2, EndsOfBoth, WithinBoth DEF condition, End
<1>6. \A i \in 1..Len(condition) : At(s, 0 + Ends(condition)[i - 1], condition[i])
  BY <1>2, <1>5, AtWithin
<1>7. Size(condition) + Skip(s, 1) <= End(s)
  BY <1>2, <1>3, <1>5
<1> QED
  BY <1>1, <1>2, <1>4, <1>5, <1>6, <1>7 DEF Placed, condition

LEMMA TwoInstructions == \A x, y : <<x, y>> = <<x>> \o <<y>>
<1> SUFFICES ASSUME NEW x, NEW y PROVE <<x, y>> = <<x>> \o <<y>>
  OBVIOUS
<1> DEFINE S == {x, y}
           two == <<x, y>>
           joined == <<x>> \o <<y>>
<1>1. two \in Seq(S) /\ joined \in Seq(S) /\ Len(two) = 2 /\ Len(joined) = 2
  OBVIOUS
<1>2. \A i \in 1..2 : two[i] = joined[i]
  OBVIOUS
<1> HIDE DEF S, two, joined
<1>3. two = joined
  BY <1>1, <1>2, SeqEqual
<1> QED
  BY <1>3 DEF two, joined

LEMMA WhileCode ==
    ASSUME NEW s \in Statements, s.kind = "while"
    PROVE  Placed(s) /\ WhilePlaced(s)
<1> DEFINE size == s.bodies[1]
           condition == CodeOf(s, 1)
           body == Body(1, size)
           goto == WhileGoto(Size(condition), size)
           rest == <<body>> \o <<goto>>
<1>1. Len(s.conditions) = 1 /\ 1 \in 1..Len(s.conditions) /\ 1 \in 1..Len(s.bodies) /\ size \in Nat \ {0}
  <2>1. Len(s.conditions) = 1 /\ Len(s.bodies) = 1
    BY StatementParts
  <2>2. 1 \in 1..Len(s.bodies)
    BY <2>1
  <2> QED BY <2>1, <2>2, StatementParts
<1>2. body \in Instructions /\ body.size = size
  BY <1>1, BodiesAreInstructions
<1>3. Size(condition) \in Nat /\ Skip(s, 1) = size + 3 /\ condition = ConditionBlockOf[s.conditions[1]][size + 3]["IS_ZERO"]
  BY <1>1, CodeOfIs DEF CodeOf, Skip
<1>4. goto = Goto(-(Size(condition) + size + 3)) /\ goto \in Instructions /\ goto.size = 3
  <2>1. -(Size(condition) + size + 3) \in Int
    <3> HIDE DEF condition
    <3> QED BY <1>1, <1>3
  <2> QED BY <2>1, GotosAreInstructions DEF WhileGoto
<1>5. BlockOf(s) = condition \o rest
  <2>1. BlockOf(s) = condition \o <<body, goto>>
    BY <1>3 DEF BlockOf, WhileBlock
  <2>2. <<body, goto>> = <<body>> \o <<goto>>
    BY TwoInstructions
  <2> QED BY <2>1, <2>2
<1> HIDE DEF body, goto
<1>6. /\ rest \in Seq(Instructions) /\ Size(rest) = size + 3
      /\ Within(rest, <<body>>, 0) /\ Within(rest, <<goto>>, size)
  <2>1. /\ <<body>> \in Seq(Instructions) /\ Size(<<body>>) = size
        /\ <<goto>> \in Seq(Instructions) /\ Size(<<goto>>) = 3
    BY <1>2, <1>4, OneInstruction
  <2>2. rest \in Seq(Instructions) /\ Size(rest) = Size(<<body>>) + Size(<<goto>>)
    BY <2>1, EndsOfBoth
  <2>3. Within(rest, <<body>>, 0) /\ Within(rest, <<goto>>, Size(<<body>>))
    BY <2>1, WithinBoth
  <2> QED BY <2>1, <2>2, <2>3
<1> HIDE DEF rest
<1>7. /\ Placed(s) /\ End(s) = BodyAt(s, 1) + Size(rest) /\ BodyAt(s, 1) \in Nat
      /\ Within(BlockOf(s), rest, BodyAt(s, 1))
  <2>1. Skip(s, 1) <= Size(rest)
    BY <1>1, <1>3, <1>6
  <2> QED BY <1>5, <1>6, <2>1, ConditionFirst
<1>8. BlockOf(s) \in Seq(Instructions)
  BY <1>7 DEF Placed
<1>9. BodyAt(s, 1) + 0 = BodyAt(s, 1) /\ BodyAt(s, 1) + size \in Nat /\ size \in Nat /\ BodyAt(s, 1) = Size(condition)
  BY <1>1, <1>3, <1>7, StartsAre DEF BodyAt
<1>10. At(s, BodyAt(s, 1), body)
  <2>1. <<body>> \in Seq(Instructions) /\ 0 \in Nat
    BY <1>2, OneInstruction
  <2>2. Within(BlockOf(s), <<body>>, BodyAt(s, 1) + 0)
    BY <1>6, <1>7, <1>8, <2>1, WithinWithin
  <2> QED BY <1>2, <1>7, <1>8, <1>9, <2>2, AtOne
<1>11. At(s, BodyAt(s, 1) + size, goto)
  <2>1. <<goto>> \in Seq(Instructions)
    BY <1>4, OneInstruction
  <2>2. Within(BlockOf(s), <<goto>>, BodyAt(s, 1) + size)
    BY <1>6, <1>7, <1>8, <1>9, <2>1, WithinWithin
  <2> QED BY <1>4, <1>8, <1>9, <2>2, AtOne
<1>12. BodyAt(s, 1) + size + 3 = End(s)
  BY <1>1, <1>6, <1>7
<1>13. WhilePlaced(s)
  <2>1. goto = Goto(-(BodyAt(s, 1) + size + 3))
    <3> HIDE DEF condition
    <3> QED BY <1>4, <1>9
  <2> QED BY <1>10, <1>11, <1>12, <2>1 DEF WhilePlaced, body
<1> QED
  BY <1>7, <1>13

ValuePlaced(s) ==
    /\ At(s, BodyAt(s, 1), Push(1))
    /\ At(s, BodyAt(s, 1) + 1, Goto(1))
    /\ At(s, BodyAt(s, 1) + 4, Push(0))
    /\ BodyAt(s, 1) + 5 = End(s)

LEMMA ValueCode ==
    ASSUME NEW s \in Statements, s.kind = "value"
    PROVE  Placed(s) /\ ValuePlaced(s)
<1> DEFINE condition == CodeOf(s, 1)
           whenTrue == <<Push(1)>> \o <<Goto(1)>>
           rest == whenTrue \o <<Push(0)>>
<1>1. Len(s.conditions) = 1 /\ 1 \in 1..Len(s.conditions)
  BY StatementParts
<1>2. /\ Push(0) \in Instructions /\ Push(0).size = 1
      /\ Push(1) \in Instructions /\ Push(1).size = 1
      /\ Goto(1) \in Instructions /\ Goto(1).size = 3
  BY GotosAreInstructions DEF Push, Pushes, Instructions
<1>3. /\ <<Push(0)>> \in Seq(Instructions) /\ Size(<<Push(0)>>) = 1
      /\ <<Push(1)>> \in Seq(Instructions) /\ Size(<<Push(1)>>) = 1
      /\ <<Goto(1)>> \in Seq(Instructions) /\ Size(<<Goto(1)>>) = 3
  BY <1>2, OneInstruction
<1>4. /\ whenTrue \in Seq(Instructions) /\ Size(whenTrue) = 4
      /\ Within(whenTrue, <<Push(1)>>, 0) /\ Within(whenTrue, <<Goto(1)>>, 1)
  <2>1. whenTrue \in Seq(Instructions) /\ Size(whenTrue) = Size(<<Push(1)>>) + Size(<<Goto(1)>>)
    BY <1>3, EndsOfBoth
  <2>2. Within(whenTrue, <<Push(1)>>, 0) /\ Within(whenTrue, <<Goto(1)>>, Size(<<Push(1)>>))
    BY <1>3, WithinBoth
  <2> QED BY <1>3, <2>1, <2>2
<1>5. BlockOf(s) = condition \o rest
  <2>2. whenTrue = <<Push(1), Goto(1)>>
    BY TwoInstructions
  <2>3. BlockOf(s) = (ConditionBlockOf[s.conditions[1]][Size(whenTrue)]["IS_ZERO"] \o whenTrue) \o <<Push(0)>>
    <3> HIDE DEF whenTrue
    <3> QED BY <2>2 DEF BlockOf, ValueBlock
  <2>4. condition = ConditionBlockOf[s.conditions[1]][Size(whenTrue)]["IS_ZERO"]
    <3> HIDE DEF whenTrue
    <3> QED BY <1>4 DEF CodeOf, Skip
  <2>5. condition \in Seq(Instructions)
    BY <1>1, CodeOfIs
  <2>6. \A x, y, z \in Seq(Instructions) : (x \o y) \o z = x \o (y \o z)
    OBVIOUS
  <2> HIDE DEF condition, whenTrue
  <2> QED BY <1>3, <1>4, <2>3, <2>4, <2>5, <2>6
<1> HIDE DEF whenTrue
<1>6. /\ rest \in Seq(Instructions) /\ Size(rest) = 5
      /\ Within(rest, whenTrue, 0) /\ Within(rest, <<Push(0)>>, 4)
  <2>1. rest \in Seq(Instructions) /\ Size(rest) = Size(whenTrue) + Size(<<Push(0)>>)
    BY <1>3, <1>4, EndsOfBoth
  <2>2. Within(rest, whenTrue, 0) /\ Within(rest, <<Push(0)>>, Size(whenTrue))
    BY <1>3, <1>4, WithinBoth
  <2> QED BY <1>3, <1>4, <2>1, <2>2
<1> HIDE DEF rest
<1>7. Within(rest, <<Push(1)>>, 0 + 0) /\ Within(rest, <<Goto(1)>>, 0 + 1)
  BY <1>3, <1>4, <1>6, WithinWithin
<1>8. /\ Placed(s) /\ End(s) = BodyAt(s, 1) + Size(rest) /\ BodyAt(s, 1) \in Nat
      /\ Within(BlockOf(s), rest, BodyAt(s, 1))
  <2>1. Skip(s, 1) <= Size(rest)
    BY <1>6 DEF Skip
  <2> QED BY <1>5, <1>6, <2>1, ConditionFirst
<1>9. BlockOf(s) \in Seq(Instructions)
  BY <1>8 DEF Placed
<1>10. ASSUME NEW p \in Nat, NEW instruction \in Instructions, Within(rest, <<instruction>>, p)
       PROVE  At(s, BodyAt(s, 1) + p, instruction)
  <2>1. <<instruction>> \in Seq(Instructions) /\ BodyAt(s, 1) + p \in Nat
    BY <1>8, OneInstruction
  <2>2. Within(BlockOf(s), <<instruction>>, BodyAt(s, 1) + p)
    BY <1>6, <1>8, <1>9, <1>10, <2>1, WithinWithin
  <2> QED BY <1>9, <2>1, <2>2, AtOne
<1>11. At(s, BodyAt(s, 1) + 0, Push(1)) /\ At(s, BodyAt(s, 1) + 1, Goto(1)) /\ At(s, BodyAt(s, 1) + 4, Push(0))
  <2>1. 0 + 0 = 0 /\ 0 + 1 = 1
    OBVIOUS
  <2> QED BY <1>2, <1>6, <1>7, <1>10, <2>1
<1>12. BodyAt(s, 1) + 0 = BodyAt(s, 1) /\ BodyAt(s, 1) + 5 = End(s)
  BY <1>6, <1>8
<1> QED
  BY <1>8, <1>11, <1>12 DEF ValuePlaced

LEMMA AllPlaced ==
    ASSUME NEW s \in Statements
    PROVE  Placed(s) /\ BlockOf(s) \in Seq(Instructions) /\ End(s) \in Nat
<1>1. Placed(s)
  BY StatementParts, IfCode, WhileCode, ValueCode
<1> QED
  BY <1>1, EndsAre DEF Placed, End

-----------------------------------------------------------------------------
(* Running a statement: what its conditions are worth, and what is tested. *)

LEMMA WorthIs ==
    ASSUME NEW s \in Statements, NEW v \in Values
    PROVE  /\ DOMAIN WorthIn(s, v) = 1..Len(s.conditions)
           /\ \A k \in 1..Len(s.conditions) : /\ WorthIn(s, v)[k] \in BOOLEAN
                                              /\ WorthIn(s, v)[k] <=> Holds(s.conditions[k], v)
<1>1. DOMAIN s.conditions = 1..Len(s.conditions)
  BY StatementParts
<1>2. \A k \in 1..Len(s.conditions) : Holds(s.conditions[k], v) \in BOOLEAN
  BY DEF Holds
<1> QED
  BY <1>1, <1>2 DEF WorthIn

(* The first condition that may hold is k. *)
NoneBefore(s, v, k) == \A j \in 1..(k - 1) : ~WorthIn(s, v)[j]

LEMMA TestedUpToIs ==
    ASSUME NEW s \in Statements, NEW v \in Values
    PROVE  /\ \A k \in 0..Len(s.conditions) : TestedUpTo(s, v)[k] \in Seq(Ids)
           /\ TestedUpTo(s, v)[0] = <<>>
           /\ \A k \in 1..Len(s.conditions) :
                  TestedUpTo(s, v)[k] = TestedUpTo(s, v)[k - 1]
                                        \o (IF NoneBefore(s, v, k) THEN TestedBy[s.conditions[k]][v] ELSE <<>>)
<1> DEFINE n == Len(s.conditions)
           C == 0..n
           D == [k \in C |-> k]
           V == Seq(Ids)
           Value(k, f) == IF k = 0 THEN <<>>
                          ELSE f[k - 1] \o (IF \E j \in 1..(k - 1) : WorthIn(s, v)[j] THEN <<>>
                                            ELSE TestedBy[s.conditions[k]][v])
           G == [k \in C |-> [f \in [C -> V] |-> Value(k, f)]]
           T == {k \in C : TestedUpTo(s, v)[k] \in V}
<1>0. n \in Nat /\ D \in [C -> Nat]
  BY StatementParts
<1>1. ASSUME NEW k \in C, k # 0 PROVE k \in 1..n /\ k - 1 \in C /\ D[k - 1] < D[k]
  BY <1>0, <1>1
<1>2. ASSUME NEW k \in C, NEW f, k # 0 => f[k - 1] \in V PROVE Value(k, f) \in V
  <2>1. <<>> \in V /\ \A x, y \in V : x \o y \in V
    OBVIOUS
  <2>2. CASE k = 0
    BY <2>1, <2>2
  <2>3. CASE k # 0
    <3>1. f[k - 1] \in V /\ k \in 1..n
      BY <1>1, <1>2, <2>3
    <3>2. TestedBy[s.conditions[k]][v] \in V
      BY <3>1, StatementParts, TestedByIs
    <3> HIDE DEF V
    <3> QED BY <2>1, <2>3, <3>1, <3>2
  <2> QED BY <2>2, <2>3
<1>3. G \in [C -> [[C -> V] -> V]]
  <2>1. ASSUME NEW k \in C, NEW f \in [C -> V] PROVE Value(k, f) \in V
    <3>1. k # 0 => f[k - 1] \in V
      <4> HIDE DEF C, V
      <4> QED BY <1>1
    <3> HIDE DEF Value, C, V
    <3> QED BY <1>2, <3>1
  <2> HIDE DEF C, V, Value
  <2> QED BY <2>1
<1>4. Downward(G, C, D, V)
  <2> SUFFICES ASSUME NEW k \in C, NEW f \in [C -> V], NEW g \in [C -> V],
                      \A d \in C : D[d] < D[k] => f[d] = g[d]
               PROVE  Value(k, f) = Value(k, g)
    <3> HIDE DEF Value, C, D, V
    <3> QED BY DEF Downward
  <2>1. k # 0 => f[k - 1] = g[k - 1]
    <3> HIDE DEF C, D
    <3> QED BY <1>1
  <2> QED BY <2>1
<1>5. HasSolution(G, C, V)
  <2>1. V # {}
    <3>1. <<>> \in V
      OBVIOUS
    <3> QED BY <3>1
  <2> HIDE DEF G, C, D, V
  <2>2. Recursion(G, C, D, V)
    BY <1>0, <1>3, <1>4, <2>1 DEF Recursion
  <2> QED BY <2>2, RecursionHolds
<1>6. PICK f \in [C -> V] : f = [k \in C |-> Value(k, f)]
  <2> HIDE DEF C, V, Value
  <2> QED BY <1>5 DEF HasSolution
<1>7. TestedUpTo(s, v) = [k \in C |-> Value(k, TestedUpTo(s, v))]
  BY <1>6 DEF TestedUpTo
<1>8. ASSUME NEW k \in C PROVE TestedUpTo(s, v)[k] = Value(k, TestedUpTo(s, v))
  <2> HIDE DEF C, Value
  <2> QED BY <1>7
<1>9. ASSUME NEW k \in C, \A d \in C : D[d] < D[k] => d \in T
      PROVE  k \in T
  <2>1. k # 0 => TestedUpTo(s, v)[k - 1] \in V
    <3> HIDE DEF C, D, V
    <3> QED BY <1>1, <1>9
  <2>2. Value(k, TestedUpTo(s, v)) \in V
    <3> HIDE DEF C, Value, V
    <3> QED BY <1>2, <2>1
  <2> HIDE DEF C, Value, V
  <2> QED
    BY <1>8, <2>2
<1>10. C \subseteq T
  <2> HIDE DEF T, C, D
  <2> QED BY <1>0, <1>9, DepthInduction
<1> QED
  <2>1. 0 \in C /\ \A k \in 1..n : k \in C /\ k # 0
    BY <1>0
  <2>2. TestedUpTo(s, v)[0] = <<>>
    BY <1>8, <2>1
  <2>3. ASSUME NEW k \in 1..n
        PROVE  TestedUpTo(s, v)[k] = TestedUpTo(s, v)[k - 1]
                   \o (IF NoneBefore(s, v, k) THEN TestedBy[s.conditions[k]][v] ELSE <<>>)
    <3>1. TestedUpTo(s, v)[k] = Value(k, TestedUpTo(s, v)) /\ k # 0
      <4> HIDE DEF C, Value
      <4> QED BY <1>8, <2>1
    <3>2. (\E j \in 1..(k - 1) : WorthIn(s, v)[j]) <=> ~NoneBefore(s, v, k)
      BY DEF NoneBefore
    <3> QED BY <3>1, <3>2
  <2> QED
    BY <1>10, <2>2, <2>3

(* Once a condition holds, no other is tested. *)
LEMMA TestedStays ==
    ASSUME NEW s \in Statements, NEW v \in Values, NEW k \in 1..Len(s.conditions), WorthIn(s, v)[k]
    PROVE  TestedUpTo(s, v)[Len(s.conditions)] = TestedUpTo(s, v)[k]
<1> DEFINE n == Len(s.conditions)
           T == {m \in Nat : k <= m => TestedUpTo(s, v)[m] = TestedUpTo(s, v)[k]}
<1>1. n \in Nat
  BY StatementParts
<1> HIDE DEF n
<1>2. 0 \in T
  BY DEF n
<1>3. ASSUME NEW m \in 1..n, m - 1 \in T PROVE m \in T
  <2> SUFFICES ASSUME k < m PROVE TestedUpTo(s, v)[m] = TestedUpTo(s, v)[k]
    BY <1>1 DEF n
  <2>1. k <= m - 1 /\ k \in 1..(m - 1) /\ m - 1 \in 0..n
    BY <1>1 DEF n
  <2>2. ~NoneBefore(s, v, m)
    BY <2>1 DEF NoneBefore
  <2>3. TestedUpTo(s, v)[m] = TestedUpTo(s, v)[m - 1] \o <<>>
    BY <2>2, TestedUpToIs DEF n
  <2>4. TestedUpTo(s, v)[m - 1] \in Seq(Ids)
    BY <2>1, TestedUpToIs DEF n
  <2> QED BY <1>3, <2>1, <2>3, <2>4
<1>4. \A m \in 0..n : m \in T
  <2> HIDE DEF T
  <2> QED BY <1>1, <1>2, <1>3, UpToInduction
<1>5. n \in 0..n /\ k <= n
  BY <1>1 DEF n
<1> QED
  BY <1>4, <1>5 DEF n

Fits(s) == End(s) < JumpSpan \div 2
Sound(s) == \A k \in 1..Len(s.conditions) : "IS_ZERO" \notin OrOnTrue[s.conditions[k]]

(* At offset p, with ts tested, in condition k of statement s.             *)
Testing(s, v, k, p, ts) ==
    /\ k \in 1..Len(s.conditions) /\ NoneBefore(s, v, k)
    /\ \E S : /\ Runs(S, CodeOf(s, k), v,
                      IF Holds(s.conditions[k], v) THEN Size(CodeOf(s, k)) ELSE Size(CodeOf(s, k)) + Skip(s, k),
                      TestedBy[s.conditions[k]][v])
              /\ \E at \in Nat, done \in Seq(Ids) :
                    <<at, done>> \in S /\ p = StartOf(s, k) + at /\ ts = TestedUpTo(s, v)[k - 1] \o done

LEMMA TestingStarts ==
    ASSUME NEW s \in Statements, Sound(s), NEW v \in Values, NEW k \in 1..Len(s.conditions), NoneBefore(s, v, k)
    PROVE  Testing(s, v, k, StartOf(s, k), TestedUpTo(s, v)[k - 1])
<1>1. s.conditions[k] \in Conditions /\ Skip(s, k) \in Nat /\ "IS_ZERO" \in JumpTypes
  BY StatementParts, CodeOfIs DEF JumpTypes
<1>2. RunsAs(s.conditions[k], Skip(s, k), "IS_ZERO", v)
  BY <1>1, ConditionRuns DEF Sound
<1>3. PICK S : Runs(S, CodeOf(s, k), v,
                    IF Holds(s.conditions[k], v) THEN Size(CodeOf(s, k)) ELSE Size(CodeOf(s, k)) + Skip(s, k),
                    TestedBy[s.conditions[k]][v])
  BY <1>2 DEF RunsAs, CodeOf, Exit
<1>4. <<0, <<>>>> \in S /\ 0 \in Nat /\ <<>> \in Seq(Ids)
  BY <1>3 DEF Runs
<1>5. StartOf(s, k) + 0 = StartOf(s, k) /\ TestedUpTo(s, v)[k - 1] \o <<>> = TestedUpTo(s, v)[k - 1]
  <2>1. k \in 1..(Len(s.conditions) + 1) /\ k - 1 \in 0..Len(s.conditions)
    BY StatementParts
  <2>2. StartOf(s, k) \in Nat /\ TestedUpTo(s, v)[k - 1] \in Seq(Ids)
    BY <2>1, StartsAre, TestedUpToIs
  <2> QED BY <2>2
<1> QED
  BY <1>3, <1>4, <1>5 DEF Testing

LEMMA TestingAt ==
    ASSUME NEW s \in Statements, NEW v \in Values, NEW k, NEW p, NEW ts, Testing(s, v, k, p, ts)
    PROVE  \E instruction : At(s, p, instruction)
<1> DEFINE block == CodeOf(s, k)
           out == IF Holds(s.conditions[k], v) THEN Size(block) ELSE Size(block) + Skip(s, k)
<1>1. k \in 1..Len(s.conditions)
  BY DEF Testing
<1>2. PICK S : /\ Runs(S, block, v, out, TestedBy[s.conditions[k]][v])
               /\ \E at \in Nat, done \in Seq(Ids) :
                     <<at, done>> \in S /\ p = StartOf(s, k) + at /\ ts = TestedUpTo(s, v)[k - 1] \o done
  BY DEF Testing
<1>3. PICK at \in Nat, done \in Seq(Ids) : <<at, done>> \in S /\ p = StartOf(s, k) + at
  BY <1>2
<1>4. PICK i \in 1..Len(block) : at = Ends(block)[i - 1]
  BY <1>2, <1>3 DEF Runs
<1>5. At(s, p, block[i])
  BY <1>1, <1>3, <1>4, AllPlaced DEF Placed
<1> QED
  BY <1>5

(* Where an instruction of a condition leads, and what is tested then.     *)
PcAfter(instruction, v, p) ==
    IF instruction.do = "if" /\ v[instruction.leaf] \in JumpsAt[instruction.type]
    THEN p + Offset(instruction.jump) ELSE p + instruction.size
TestedAfter(instruction, ts) == IF instruction.do = "if" THEN Append(ts, instruction.leaf) ELSE ts

LEMMA TestingSteps ==
    ASSUME NEW s \in Statements, Fits(s), NEW v \in Values, NEW k, NEW p, NEW ts, Testing(s, v, k, p, ts)
    PROVE  \E instruction \in Loads \cup Ifs :
               /\ At(s, p, instruction)
               /\ LET q == PcAfter(instruction, v, p)
                      r == TestedAfter(instruction, ts)
                  IN  \/ Testing(s, v, k, q, r)
                      \/ /\ r = TestedUpTo(s, v)[k]
                         /\ \/ Holds(s.conditions[k], v) /\ q = BodyAt(s, k)
                            \/ ~Holds(s.conditions[k], v) /\ q = StartOf(s, k + 1)
<1> DEFINE block == CodeOf(s, k)
           start == StartOf(s, k)
           out == IF Holds(s.conditions[k], v) THEN Size(block) ELSE Size(block) + Skip(s, k)
           all == TestedBy[s.conditions[k]][v]
           before == TestedUpTo(s, v)[k - 1]
<1>1. k \in 1..Len(s.conditions) /\ NoneBefore(s, v, k)
  BY DEF Testing
<1>2. PICK S : /\ Runs(S, block, v, out, all)
               /\ \E at \in Nat, done \in Seq(Ids) :
                     <<at, done>> \in S /\ p = start + at /\ ts = before \o done
  BY DEF Testing
<1>3. PICK at \in Nat, done \in Seq(Ids) : <<at, done>> \in S /\ p = start + at /\ ts = before \o done
  BY <1>2
<1>4. PICK i \in 1..Len(block) :
          /\ at = Ends(block)[i - 1]
          /\ \/ <<LeadsTo(block, i, v), done \o Tests(block[i])>> \in S
             \/ LeadsTo(block, i, v) = out /\ done \o Tests(block[i]) = all
  BY <1>2, <1>3 DEF Runs
<1>5. /\ block \in ConditionBlocks /\ block \in Seq(Instructions) /\ Size(block) \in Nat /\ Skip(s, k) \in Nat
      /\ (block[i].do = "if" => block[i].jump + 3 <= Size(block) + Skip(s, k))
  BY <1>1, CodeOfIs
<1>6. start \in Nat /\ before \in Seq(Ids)
  <2>1. k \in 1..(Len(s.conditions) + 1) /\ k - 1 \in 0..Len(s.conditions)
    BY <1>1, StatementParts
  <2> QED BY <2>1, StartsAre, TestedUpToIs
<1>7. At(s, p, block[i]) /\ Size(block) + Skip(s, k) <= End(s) /\ End(s) \in Nat
  BY <1>1, <1>3, <1>4, AllPlaced DEF Placed
<1> HIDE DEF block, start, before, out, all
<1>8. block[i] \in Loads \cup Ifs /\ block[i] \in Instructions
  BY <1>5 DEF ConditionBlocks
<1>9. Ends(block)[i] = at + block[i].size /\ block[i].size \in Nat
  BY <1>4, <1>5, <1>8, EndsAre, SizesAreNumbers
<1>10. PcAfter(block[i], v, p) = start + LeadsTo(block, i, v)
  <2>1. CASE block[i].do = "if"
    <3>1. block[i].jump \in Nat
      BY <1>8, <2>1 DEF Loads, Ifs
    <3>2. Offset(block[i].jump) = block[i].jump + 3
      <4>1. JumpSpan \div 2 \in Nat
        BY JumpSpanAssumption
      <4>2. block[i].jump + 3 < JumpSpan \div 2 /\ -(JumpSpan \div 2) <= block[i].jump + 3
        BY <1>5, <1>7, <2>1, <3>1, <4>1 DEF Fits
      <4> QED BY <3>1, <4>2, OffsetExact
    <3>3. CASE v[block[i].leaf] \in JumpsAt[block[i].type]
      <4>1. PcAfter(block[i], v, p) = p + (block[i].jump + 3)
        BY <2>1, <3>2, <3>3 DEF PcAfter
      <4>2. LeadsTo(block, i, v) = at + block[i].jump + 3
        BY <1>4, <2>1, <3>3 DEF LeadsTo
      <4> QED BY <1>3, <1>6, <3>1, <4>1, <4>2
    <3>4. CASE v[block[i].leaf] \notin JumpsAt[block[i].type]
      BY <1>3, <1>6, <1>9, <3>4 DEF PcAfter, LeadsTo
    <3> QED BY <3>3, <3>4
  <2>2. CASE block[i].do # "if"
    BY <1>3, <1>6, <1>9, <2>2 DEF PcAfter, LeadsTo
  <2> QED BY <2>1, <2>2
<1>11. TestedAfter(block[i], ts) = before \o (done \o Tests(block[i])) /\ done \o Tests(block[i]) \in Seq(Ids)
  <2>1. Tests(block[i]) \in Seq(Ids)
    BY <1>8, TestsAreIds
  <2>2. ts \in Seq(Ids) /\ ts \o Tests(block[i]) = before \o (done \o Tests(block[i]))
    BY <1>3, <1>6, <2>1
  <2>3. TestedAfter(block[i], ts) = ts \o Tests(block[i])
    <3>1. CASE block[i].do = "if"
      <4>1. block[i].leaf \in Ids
        BY <1>8, <3>1 DEF Loads, Ifs
      <4>2. Append(ts, block[i].leaf) = ts \o <<block[i].leaf>>
        BY <2>2, <4>1, AppendIsConcat
      <4> QED BY <3>1, <4>2 DEF TestedAfter, Tests
    <3>2. CASE block[i].do # "if"
      BY <2>2, <3>2 DEF TestedAfter, Tests
    <3> QED BY <3>1, <3>2
  <2> QED BY <1>3, <2>1, <2>2, <2>3
<1>12. CASE <<LeadsTo(block, i, v), done \o Tests(block[i])>> \in S
  <2>1. LeadsTo(block, i, v) \in Nat
    BY <1>5, LeadsToIn
  <2>2. Testing(s, v, k, PcAfter(block[i], v, p), TestedAfter(block[i], ts))
    BY <1>1, <1>2, <1>10, <1>11, <1>12, <2>1 DEF Testing, block, start, before, out, all
  <2> QED BY <1>7, <1>8, <2>2
<1>13. CASE LeadsTo(block, i, v) = out /\ done \o Tests(block[i]) = all
  <2>1. TestedAfter(block[i], ts) = TestedUpTo(s, v)[k]
    BY <1>1, <1>11, <1>13, TestedUpToIs DEF before, all
  <2>2. StartOf(s, k + 1) = start + Size(block) + Skip(s, k) /\ BodyAt(s, k) = start + Size(block)
    BY <1>1, StartsAre DEF block, start, BodyAt
  <2>3. \/ Holds(s.conditions[k], v) /\ PcAfter(block[i], v, p) = BodyAt(s, k)
        \/ ~Holds(s.conditions[k], v) /\ PcAfter(block[i], v, p) = StartOf(s, k + 1)
    <3>1. CASE Holds(s.conditions[k], v)
      BY <1>10, <1>13, <2>2, <3>1 DEF out
    <3>2. CASE ~Holds(s.conditions[k], v)
      <4>1. start + (Size(block) + Skip(s, k)) = start + Size(block) + Skip(s, k)
        BY <1>5, <1>6
      <4> QED BY <1>10, <1>13, <2>2, <3>2, <4>1 DEF out
    <3> QED BY <3>1, <3>2
  <2> QED BY <1>7, <1>8, <2>1, <2>3
<1> QED
  BY <1>4, <1>12, <1>13

-----------------------------------------------------------------------------
(* Steps: the instruction at pc says which one is taken.                   *)

TypeInv ==
    /\ statement \in Statements /\ values \in Values
    /\ code = Emitted(BlockOf(statement)) /\ end = End(statement)

LEMMA CurrentIs ==
    ASSUME TypeInv, NEW instruction, At(statement, pc, instruction)
    PROVE  /\ pc \in DOMAIN code /\ Current = instruction
           /\ \A what : Doing(what) <=> instruction.do = what
BY DEF TypeInv, At, Current, Doing

LEMMA TestingNext ==
    ASSUME TypeInv, Fits(statement), NEW k, Testing(statement, values, k, pc, tested), Next
    PROVE  /\ UNCHANGED <<statement, code, end, values, entered, held>>
           /\ \/ Testing(statement, values, k, pc', tested')
              \/ /\ tested' = TestedUpTo(statement, values)[k]
                 /\ \/ Holds(statement.conditions[k], values) /\ pc' = BodyAt(statement, k)
                    \/ ~Holds(statement.conditions[k], values) /\ pc' = StartOf(statement, k + 1)
<1>1. PICK instruction \in Loads \cup Ifs :
          /\ At(statement, pc, instruction)
          /\ LET q == PcAfter(instruction, values, pc)
                 r == TestedAfter(instruction, tested)
             IN  \/ Testing(statement, values, k, q, r)
                 \/ /\ r = TestedUpTo(statement, values)[k]
                    /\ \/ Holds(statement.conditions[k], values) /\ q = BodyAt(statement, k)
                       \/ ~Holds(statement.conditions[k], values) /\ q = StartOf(statement, k + 1)
  <2>1. statement \in Statements /\ values \in Values
    BY DEF TypeInv
  <2> QED BY <2>1, TestingSteps
<1>2. Current = instruction /\ \A what : Doing(what) <=> instruction.do = what
  BY <1>1, CurrentIs
<1>3. instruction.do = "load" \/ instruction.do = "if"
  BY DEF Loads, Ifs
<1>4. RunLoad \/ RunIf
  BY <1>2, <1>3 DEF Next, RunGoto, RunBody, RunPush
<1>5. /\ UNCHANGED <<statement, code, end, values, entered, held>>
      /\ pc' = PcAfter(instruction, values, pc) /\ tested' = TestedAfter(instruction, tested)
  <2>1. CASE RunLoad
    BY <1>2, <2>1 DEF RunLoad, PcAfter, TestedAfter
  <2>2. CASE RunIf
    BY <1>2, <2>2 DEF RunIf, PcAfter, TestedAfter
  <2> QED BY <1>4, <2>1, <2>2
<1> QED
  BY <1>1, <1>5

LEMMA BodyNext ==
    ASSUME TypeInv, NEW k, NEW size, At(statement, pc, Body(k, size)), Next
    PROVE  /\ UNCHANGED <<statement, code, end, tested>>
           /\ pc' = pc + size /\ entered' = Append(entered, k) /\ held' = WorthIn(statement, values)
           /\ values' \in Values /\ (statement.kind # "while" => values' = values)
<1>1. Current = Body(k, size) /\ \A what : Doing(what) <=> what = "body"
  BY CurrentIs DEF Body
<1>2. RunBody
  BY <1>1 DEF Next, RunLoad, RunIf, RunGoto, RunPush
<1> QED
  BY <1>1, <1>2 DEF RunBody, Body, Worth, TypeInv

LEMMA GotoNext ==
    ASSUME TypeInv, NEW jump, At(statement, pc, Goto(jump)), Next
    PROVE  /\ UNCHANGED <<statement, code, end, values, entered, held>>
           /\ pc' = pc + Offset(jump)
           /\ tested' = IF statement.kind = "while" THEN <<>> ELSE tested
<1>1. Current = Goto(jump) /\ \A what : Doing(what) <=> what = "goto"
  BY CurrentIs DEF Goto
<1>2. RunGoto
  BY <1>1 DEF Next, RunLoad, RunIf, RunBody, RunPush
<1> QED
  BY <1>1, <1>2 DEF RunGoto, Goto

LEMMA PushNext ==
    ASSUME TypeInv, NEW value, At(statement, pc, Push(value)), Next
    PROVE  /\ UNCHANGED <<statement, code, end, values, tested, held>>
           /\ pc' = pc + 1
<1>1. Current = Push(value) /\ \A what : Doing(what) <=> what = "push"
  BY CurrentIs DEF Push
<1>2. RunPush
  BY <1>1 DEF Next, RunLoad, RunIf, RunBody, RunGoto
<1> QED
  BY <1>1, <1>2 DEF RunPush, Push

(* The code ends where no instruction starts. *)
LEMMA NothingAtTheEnd ==
    ASSUME TypeInv
    PROVE  /\ \A instruction : ~At(statement, end, instruction)
           /\ pc = end => ~Next
<1>1. end \notin DOMAIN code
  <2>1. statement \in Statements /\ BlockOf(statement) \in Seq(Instructions) /\ end = Size(BlockOf(statement)) /\ end \in Nat
    BY AllPlaced DEF TypeInv, End
  <2>2. code = Emitted(BlockOf(statement))
    BY DEF TypeInv
  <2>3. end \in DOMAIN code => end < end
    BY <2>1, <2>2, EmittedAt
  <2> QED BY <2>1, <2>3
<1>2. \A instruction : ~At(statement, end, instruction)
  BY <1>1 DEF At, TypeInv
<1>3. pc = end => ~Next
  BY <1>1 DEF Next, RunLoad, RunIf, RunGoto, RunBody, RunPush, Doing
<1> QED
  BY <1>2, <1>3

-----------------------------------------------------------------------------
(* An if: in a condition, all before it false; at the body it leads to; at *)
(* the else; after a body, at the goto to the end or at the end.           *)

Chosen(s, v, k, ts) ==
    k \in 1..Len(s.conditions) /\ NoneBefore(s, v, k) /\ WorthIn(s, v)[k] /\ ts = TestedUpTo(s, v)[k]
NoneHolds(s, v, ts) ==
    NoneBefore(s, v, Len(s.conditions) + 1) /\ ts = TestedUpTo(s, v)[Len(s.conditions)]

IfAt(s, v, p, ts, en, he) ==
    \/ en = <<>> /\ \E k \in 1..Len(s.conditions) : Testing(s, v, k, p, ts)
    \/ en = <<>> /\ \E k \in 1..Len(s.conditions) : Chosen(s, v, k, ts) /\ p = BodyAt(s, k)
    \/ en = <<>> /\ NoneHolds(s, v, ts) /\ p = StartOf(s, Len(s.conditions) + 1)
    \/ /\ he = WorthIn(s, v)
       /\ \E k \in 1..Len(s.conditions) :
              /\ Chosen(s, v, k, ts) /\ en = <<k>>
              /\ \/ HasNext(s, k) /\ p = BodyAt(s, k) + s.bodies[k]
                 \/ p = End(s)
    \/ he = WorthIn(s, v) /\ NoneHolds(s, v, ts) /\ en = <<Len(s.conditions) + 1>> /\ p = End(s)

LEMMA IfStep ==
    ASSUME TypeInv, statement.kind = "if", Sound(statement), Fits(statement),
           IfAt(statement, values, pc, tested, entered, held), Next
    PROVE  /\ UNCHANGED <<statement, code, end, values>>
           /\ IfAt(statement, values, pc', tested', entered', held')
<1> DEFINE s == statement
           n == Len(s.conditions)
<1>1. s \in Statements /\ values \in Values /\ n \in Nat \ {0} /\ IfPlaced(s) /\ end = End(s)
  BY StatementParts, IfCode DEF TypeInv
<1>2. ASSUME NEW k \in 1..n, entered = <<>>, Testing(s, values, k, pc, tested)
      PROVE  /\ UNCHANGED <<statement, code, end, values>>
             /\ IfAt(s, values, pc', tested', entered', held')
  <2>1. /\ UNCHANGED <<statement, code, end, values, entered, held>>
        /\ \/ Testing(s, values, k, pc', tested')
           \/ /\ tested' = TestedUpTo(s, values)[k]
              /\ \/ Holds(s.conditions[k], values) /\ pc' = BodyAt(s, k)
                 \/ ~Holds(s.conditions[k], values) /\ pc' = StartOf(s, k + 1)
    BY <1>2, TestingNext
  <2>2. entered' = <<>> /\ NoneBefore(s, values, k)
    BY <1>2, <2>1 DEF Testing
  <2>3. CASE Testing(s, values, k, pc', tested')
    BY <2>1, <2>2, <2>3 DEF IfAt
  <2>4. CASE tested' = TestedUpTo(s, values)[k] /\ Holds(s.conditions[k], values) /\ pc' = BodyAt(s, k)
    <3>1. Chosen(s, values, k, tested')
      BY <1>1, <2>2, <2>4, WorthIs DEF Chosen
    <3> QED BY <2>1, <2>2, <2>4, <3>1 DEF IfAt
  <2>5. CASE tested' = TestedUpTo(s, values)[k] /\ ~Holds(s.conditions[k], values) /\ pc' = StartOf(s, k + 1)
    <3>1. ~WorthIn(s, values)[k]
      BY <1>1, <2>5, WorthIs
    <3>2. NoneBefore(s, values, k + 1)
      <4>1. \A j \in 1..(k + 1 - 1) : j \in 1..(k - 1) \/ j = k
        OBVIOUS
      <4> QED BY <2>2, <3>1, <4>1 DEF NoneBefore
    <3>3. CASE k = n
      <4>1. NoneHolds(s, values, tested')
        BY <2>5, <3>2, <3>3 DEF NoneHolds
      <4> QED BY <2>1, <2>2, <2>5, <3>3, <4>1 DEF IfAt
    <3>4. CASE k # n
      <4>1. k + 1 \in 1..n /\ k + 1 - 1 = k
        BY <1>1, <3>4
      <4>2. Testing(s, values, k + 1, StartOf(s, k + 1), TestedUpTo(s, values)[k + 1 - 1])
        BY <1>1, <3>2, <4>1, TestingStarts
      <4>3. Testing(s, values, k + 1, pc', tested')
        BY <2>5, <4>1, <4>2
      <4> QED BY <2>1, <2>2, <4>1, <4>3 DEF IfAt
    <3> QED BY <3>3, <3>4
  <2> QED BY <2>1, <2>3, <2>4, <2>5
<1>3. ASSUME NEW k \in 1..n, entered = <<>>, Chosen(s, values, k, tested), pc = BodyAt(s, k)
      PROVE  /\ UNCHANGED <<statement, code, end, values>>
             /\ IfAt(s, values, pc', tested', entered', held')
  <2>1. At(s, pc, Body(k, s.bodies[k]))
    BY <1>1, <1>3 DEF IfPlaced
  <2>2. /\ UNCHANGED <<statement, code, end, tested, values>>
        /\ pc' = pc + s.bodies[k] /\ entered' = Append(entered, k) /\ held' = WorthIn(s, values)
    BY <2>1, BodyNext
  <2>3. entered' = <<k>> /\ pc' = BodyAt(s, k) + s.bodies[k]
    BY <1>3, <2>2
  <2>4. \/ HasNext(s, k) /\ pc' = BodyAt(s, k) + s.bodies[k]
        \/ pc' = End(s)
    BY <1>1, <2>3 DEF IfPlaced
  <2> QED BY <1>3, <2>2, <2>3, <2>4 DEF IfAt
<1>4. ASSUME entered = <<>>, NoneHolds(s, values, tested), pc = StartOf(s, n + 1)
      PROVE  /\ UNCHANGED <<statement, code, end, values>>
             /\ IfAt(s, values, pc', tested', entered', held')
  <2>1. pc # end
    BY NothingAtTheEnd
  <2>2. At(s, pc, Body(n + 1, s.bodies[n + 1])) /\ pc + s.bodies[n + 1] = End(s)
    BY <1>1, <1>4, <2>1 DEF IfPlaced
  <2>3. /\ UNCHANGED <<statement, code, end, tested, values>>
        /\ pc' = End(s) /\ entered' = Append(entered, n + 1) /\ held' = WorthIn(s, values)
    BY <2>2, BodyNext
  <2>4. entered' = <<n + 1>>
    BY <1>4, <2>3
  <2> QED BY <1>4, <2>3, <2>4 DEF IfAt
<1>5. ASSUME NEW k \in 1..n, held = WorthIn(s, values), Chosen(s, values, k, tested), entered = <<k>>,
             HasNext(s, k), pc = BodyAt(s, k) + s.bodies[k]
      PROVE  /\ UNCHANGED <<statement, code, end, values>>
             /\ IfAt(s, values, pc', tested', entered', held')
  <2> DEFINE jump == End(s) - (pc + 3)
  <2>1. At(s, pc, Goto(jump))
    BY <1>1, <1>5 DEF IfPlaced
  <2>2. /\ UNCHANGED <<statement, code, end, values, entered, held, tested>>
        /\ pc' = pc + Offset(jump)
    BY <2>1, GotoNext
  <2>3. Offset(jump) = jump + 3 /\ pc + (jump + 3) = End(s)
    <3>1. End(s) \in Nat /\ BlockOf(s) \in Seq(Instructions)
      BY <1>1, AllPlaced
    <3>2. pc \in Nat /\ pc + 3 <= End(s)
      <4>1. pc \in Nat /\ pc + Goto(jump).size <= End(s)
        BY <1>1, <2>1, <3>1, AtEnds DEF End
      <4> QED BY <4>1 DEF Goto
    <3>3. JumpSpan \div 2 \in Nat
      BY JumpSpanAssumption
    <3>4. jump \in Int /\ jump + 3 < JumpSpan \div 2 /\ -(JumpSpan \div 2) <= jump + 3
      BY <3>1, <3>2, <3>3 DEF Fits
    <3>5. Offset(jump) = jump + 3
      BY <3>4, OffsetExact
    <3> QED BY <3>1, <3>2, <3>5
  <2>4. pc' = End(s)
    BY <2>2, <2>3
  <2> QED BY <1>5, <2>2, <2>4 DEF IfAt
<1>6. pc # End(s)
  BY <1>1, NothingAtTheEnd
<1> QED
  BY <1>2, <1>3, <1>4, <1>5, <1>6 DEF IfAt

(* A loop: in its condition; at the body; at the goto back; at the end.    *)
WhileAt(s, v, p, ts, en, he) ==
    /\ en \in Seq({1}) /\ (en # <<>> => he[1])
    /\ \/ Testing(s, v, 1, p, ts)
       \/ WorthIn(s, v)[1] /\ p = BodyAt(s, 1)
       \/ p = BodyAt(s, 1) + s.bodies[1]
       \/ p = End(s) /\ ts = TestedUpTo(s, v)[1]

LEMMA WhileStep ==
    ASSUME TypeInv, statement.kind = "while", Sound(statement), Fits(statement),
           WhileAt(statement, values, pc, tested, entered, held), Next
    PROVE  /\ UNCHANGED <<statement, code, end>> /\ values' \in Values
           /\ WhileAt(statement, values', pc', tested', entered', held')
<1> DEFINE s == statement
           size == s.bodies[1]
<1>1. s \in Statements /\ values \in Values /\ WhilePlaced(s) /\ end = End(s) /\ Len(s.conditions) = 1
  BY StatementParts, WhileCode DEF TypeInv
<1>2. 1 \in 1..Len(s.conditions)
  BY <1>1
<1>3. entered \in Seq({1}) /\ (entered # <<>> => held[1])
  BY DEF WhileAt
<1>4. CASE Testing(s, values, 1, pc, tested)
  <2>1. /\ UNCHANGED <<statement, code, end, values, entered, held>>
        /\ \/ Testing(s, values, 1, pc', tested')
           \/ /\ tested' = TestedUpTo(s, values)[1]
              /\ \/ Holds(s.conditions[1], values) /\ pc' = BodyAt(s, 1)
                 \/ ~Holds(s.conditions[1], values) /\ pc' = StartOf(s, 1 + 1)
    BY <1>4, TestingNext
  <2>2. StartOf(s, 1 + 1) = End(s)
    <3>1. /\ StartOf(s, 1 + 1) = StartOf(s, 1) + Size(CodeOf(s, 1)) + Skip(s, 1)
          /\ StartOf(s, 1) = 0 /\ Size(CodeOf(s, 1)) \in Nat
      BY <1>1, <1>2, StartsAre, CodeOfIs
    <3>2. Skip(s, 1) = size + 3 /\ size \in Nat
      <4>1. 1 \in 1..Len(s.bodies)
        BY <1>1, StatementParts
      <4> QED BY <1>1, <4>1, StatementParts DEF Skip
    <3>3. BodyAt(s, 1) + size + 3 = End(s)
      BY <1>1 DEF WhilePlaced
    <3> QED BY <3>1, <3>2, <3>3 DEF BodyAt
  <2>3. WorthIn(s, values)[1] <=> Holds(s.conditions[1], values)
    BY <1>1, <1>2, WorthIs
  <2> QED BY <1>1, <1>3, <2>1, <2>2, <2>3 DEF WhileAt
<1>5. CASE WorthIn(s, values)[1] /\ pc = BodyAt(s, 1)
  <2>1. /\ UNCHANGED <<statement, code, end, tested>>
        /\ pc' = pc + size /\ entered' = Append(entered, 1) /\ held' = WorthIn(s, values) /\ values' \in Values
    BY <1>1, <1>5, BodyNext DEF WhilePlaced
  <2>2. entered' \in Seq({1}) /\ held'[1]
    BY <1>3, <1>5, <2>1
  <2> QED BY <1>5, <2>1, <2>2 DEF WhileAt
<1>6. CASE pc = BodyAt(s, 1) + size
  <2> DEFINE jump == -(pc + 3)
  <2>1. At(s, pc, Goto(jump)) /\ pc + 3 = End(s)
    BY <1>1, <1>6 DEF WhilePlaced
  <2>2. /\ UNCHANGED <<statement, code, end, values, entered, held>>
        /\ pc' = pc + Offset(jump) /\ tested' = <<>>
    BY <2>1, GotoNext
  <2>3. pc' = 0
    <3>1. End(s) \in Nat /\ BlockOf(s) \in Seq(Instructions)
      BY <1>1, AllPlaced
    <3>2. pc \in Nat
      BY <1>1, <2>1, <3>1, AtEnds
    <3>3. JumpSpan \div 2 \in Nat
      BY JumpSpanAssumption
    <3>4. jump \in Int /\ jump + 3 < JumpSpan \div 2 /\ -(JumpSpan \div 2) <= jump + 3
      BY <2>1, <3>1, <3>2, <3>3 DEF Fits
    <3>5. Offset(jump) = jump + 3
      BY <3>4, OffsetExact
    <3> QED BY <2>2, <3>2, <3>5
  <2>4. Testing(s, values, 1, StartOf(s, 1), TestedUpTo(s, values)[1 - 1])
    <3>1. NoneBefore(s, values, 1)
      BY DEF NoneBefore
    <3> QED BY <1>1, <1>2, <3>1, TestingStarts
  <2>5. Testing(s, values, 1, 0, <<>>)
    <3>1. StartOf(s, 1) = 0 /\ TestedUpTo(s, values)[0] = <<>> /\ 1 - 1 = 0
      <4>1. StartOf(s, 1) = 0
        BY <1>1, StartsAre
      <4>2. TestedUpTo(s, values)[0] = <<>>
        BY <1>1, TestedUpToIs
      <4> QED BY <4>1, <4>2
    <3> QED BY <2>4, <3>1
  <2> QED BY <1>1, <1>3, <2>2, <2>3, <2>5 DEF WhileAt
<1>7. pc # End(s)
  BY <1>1, NothingAtTheEnd
<1> QED
  BY <1>4, <1>5, <1>6, <1>7 DEF WhileAt

(* A value: in its condition; at the push of 1; at the goto over the push  *)
(* of 0; at that push; at the end.                                         *)
ValueAt(s, v, p, ts) ==
    \/ Testing(s, v, 1, p, ts)
    \/ /\ ts = TestedUpTo(s, v)[1]
       /\ p \in {BodyAt(s, 1), BodyAt(s, 1) + 1, BodyAt(s, 1) + 4, End(s)}

LEMMA ValueStep ==
    ASSUME TypeInv, statement.kind = "value", Sound(statement), Fits(statement),
           ValueAt(statement, values, pc, tested), Next
    PROVE  /\ UNCHANGED <<statement, code, end, values>>
           /\ ValueAt(statement, values, pc', tested')
<1> DEFINE s == statement
<1>1. s \in Statements /\ values \in Values /\ ValuePlaced(s) /\ end = End(s) /\ Len(s.conditions) = 1
  BY StatementParts, ValueCode DEF TypeInv
<1>2. 1 \in 1..Len(s.conditions)
  BY <1>1
<1>3. BodyAt(s, 1) \in Nat /\ BodyAt(s, 1) + 5 = End(s) /\ End(s) \in Nat
  <2>1. BodyAt(s, 1) \in Nat
    BY <1>1, AllPlaced, AtEnds DEF ValuePlaced
  <2> QED BY <1>1, <2>1, AllPlaced DEF ValuePlaced
<1>4. CASE Testing(s, values, 1, pc, tested)
  <2>1. /\ UNCHANGED <<statement, code, end, values, entered, held>>
        /\ \/ Testing(s, values, 1, pc', tested')
           \/ /\ tested' = TestedUpTo(s, values)[1]
              /\ pc' = BodyAt(s, 1) \/ pc' = StartOf(s, 1 + 1)
    BY <1>4, TestingNext
  <2>2. StartOf(s, 1 + 1) = BodyAt(s, 1) + 4
    <3>1. /\ StartOf(s, 1 + 1) = StartOf(s, 1) + Size(CodeOf(s, 1)) + Skip(s, 1)
          /\ StartOf(s, 1) = 0 /\ Size(CodeOf(s, 1)) \in Nat
      BY <1>1, <1>2, StartsAre, CodeOfIs
    <3>2. Skip(s, 1) = 4
      BY DEF Skip
    <3> QED BY <3>1, <3>2 DEF BodyAt
  <2> QED BY <2>1, <2>2 DEF ValueAt
<1>5. CASE tested = TestedUpTo(s, values)[1] /\ pc = BodyAt(s, 1)
  BY <1>1, <1>5, PushNext DEF ValuePlaced, ValueAt
<1>6. CASE tested = TestedUpTo(s, values)[1] /\ pc = BodyAt(s, 1) + 1
  <2>1. /\ UNCHANGED <<statement, code, end, values, entered, held, tested>>
        /\ pc' = pc + Offset(1)
    BY <1>1, <1>6, GotoNext DEF ValuePlaced
  <2>2. Offset(1) = 1 + 3
    <3>1. JumpSpan \div 2 \in Nat
      BY JumpSpanAssumption
    <3>2. 1 + 3 < JumpSpan \div 2 /\ -(JumpSpan \div 2) <= 1 + 3
      BY <1>3, <3>1 DEF Fits
    <3> QED BY <3>2, OffsetExact
  <2>3. pc' = End(s)
    BY <1>3, <1>6, <2>1, <2>2
  <2> QED BY <1>6, <2>1, <2>3 DEF ValueAt
<1>7. CASE tested = TestedUpTo(s, values)[1] /\ pc = BodyAt(s, 1) + 4
  <2>1. UNCHANGED <<statement, code, end, values, tested, held>> /\ pc' = pc + 1
    BY <1>1, <1>7, PushNext DEF ValuePlaced
  <2>2. pc' = End(s)
    BY <1>3, <1>7, <2>1
  <2> QED BY <1>7, <2>1, <2>2 DEF ValueAt
<1>8. pc # End(s)
  BY <1>1, NothingAtTheEnd
<1> QED
  BY <1>4, <1>5, <1>6, <1>7, <1>8 DEF ValueAt

-----------------------------------------------------------------------------
(* The invariant, and what follows from it. *)

IInv ==
    /\ TypeInv
    /\ statement.kind = "if" => IfAt(statement, values, pc, tested, entered, held)
    /\ statement.kind = "while" => WhileAt(statement, values, pc, tested, entered, held)
    /\ statement.kind = "value" => ValueAt(statement, values, pc, tested)

(* Of every statement the compiler is given: its conditions have no        *)
(* disjunction that is built to jump on true, and its code is short enough *)
(* for its jumps.                                                          *)
AllSound == \A s \in Statements : Sound(s) /\ Fits(s)

LEMMA IInvStarts == ASSUME AllSound, Init PROVE IInv
<1> DEFINE s == statement
<1>1. /\ s \in Statements /\ values \in Values /\ Sound(s) /\ pc = 0 /\ tested = <<>> /\ entered = <<>>
      /\ 1 \in 1..Len(s.conditions)
  BY StatementParts DEF Init, AllSound
<1>2. TypeInv
  BY DEF Init, TypeInv, End
<1>3. Testing(s, values, 1, pc, tested)
  <2>1. NoneBefore(s, values, 1)
    BY DEF NoneBefore
  <2>2. Testing(s, values, 1, StartOf(s, 1), TestedUpTo(s, values)[1 - 1])
    BY <1>1, <2>1, TestingStarts
  <2>3. StartOf(s, 1) = 0 /\ TestedUpTo(s, values)[0] = <<>> /\ 1 - 1 = 0
    <3>1. StartOf(s, 1) = 0
      BY <1>1, StartsAre
    <3>2. TestedUpTo(s, values)[0] = <<>>
      BY <1>1, TestedUpToIs
    <3> QED BY <3>1, <3>2
  <2> QED BY <1>1, <2>2, <2>3
<1>4. <<>> \in Seq({1})
  OBVIOUS
<1> QED
  BY <1>1, <1>2, <1>3, <1>4 DEF IInv, IfAt, WhileAt, ValueAt

LEMMA IInvStays == ASSUME AllSound, IInv, [Next]_vars PROVE IInv'
<1>1. CASE Next
  <2>1. TypeInv /\ Sound(statement) /\ Fits(statement)
    BY DEF IInv, TypeInv, AllSound
  <2>2. CASE statement.kind = "if"
    BY <1>1, <2>1, <2>2, IfStep DEF IInv, TypeInv
  <2>3. CASE statement.kind = "while"
    BY <1>1, <2>1, <2>3, WhileStep DEF IInv, TypeInv
  <2>4. CASE statement.kind = "value"
    BY <1>1, <2>1, <2>4, ValueStep DEF IInv, TypeInv
  <2>5. statement.kind \in {"if", "while", "value"}
    BY <2>1, StatementParts DEF TypeInv
  <2> QED BY <2>2, <2>3, <2>4, <2>5
<1>2. CASE UNCHANGED vars
  BY <1>2 DEF vars, IInv, TypeInv
<1> QED
  BY <1>1, <1>2

LEMMA IInvAlways == ASSUME AllSound PROVE Spec => []IInv
<1>1. Init => IInv
  BY IInvStarts
<1>2. IInv /\ [Next]_vars => IInv'
  BY IInvStays
<1> QED
  BY <1>1, <1>2, PTL DEF Spec

(* Where the code is at all, it is at an instruction of the statement or   *)
(* at its end.                                                             *)
LEMMA IInvLands == ASSUME IInv PROVE LandsOnInstruction
<1> DEFINE s == statement
           n == Len(s.conditions)
<1>1. s \in Statements /\ values \in Values /\ code = Emitted(BlockOf(s)) /\ end = End(s) /\ n \in Nat \ {0}
  BY StatementParts DEF IInv, TypeInv
<1>2. ASSUME NEW instruction, At(s, pc, instruction) PROVE pc \in DOMAIN code
  BY <1>1, <1>2 DEF At
<1>3. ASSUME NEW k, Testing(s, values, k, pc, tested) PROVE pc \in DOMAIN code
  BY <1>1, <1>2, <1>3, TestingAt
<1>4. CASE s.kind = "if"
  <2>1. IfPlaced(s)
    BY <1>1, <1>4, IfCode
  <2>2. ASSUME NEW k \in 1..n PROVE pc = BodyAt(s, k) => pc \in DOMAIN code
    BY <1>2, <2>1 DEF IfPlaced
  <2>3. ASSUME NEW k \in 1..n, HasNext(s, k) PROVE pc = BodyAt(s, k) + s.bodies[k] => pc \in DOMAIN code
    BY <1>2, <2>1, <2>3 DEF IfPlaced
  <2>4. pc = StartOf(s, n + 1) => pc \in DOMAIN code \cup {end}
    BY <1>1, <1>2, <2>1 DEF IfPlaced
  <2>5. IfAt(s, values, pc, tested, entered, held)
    BY <1>4 DEF IInv
  <2> QED BY <1>1, <1>3, <2>2, <2>3, <2>4, <2>5 DEF IfAt, LandsOnInstruction
<1>5. CASE s.kind = "while"
  <2>1. WhilePlaced(s) /\ WhileAt(s, values, pc, tested, entered, held)
    BY <1>1, <1>5, WhileCode DEF IInv
  <2>2. pc = BodyAt(s, 1) \/ pc = BodyAt(s, 1) + s.bodies[1] => pc \in DOMAIN code
    BY <1>2, <2>1 DEF WhilePlaced
  <2> QED BY <1>1, <1>3, <2>1, <2>2 DEF WhileAt, LandsOnInstruction
<1>6. CASE s.kind = "value"
  <2>1. ValuePlaced(s) /\ ValueAt(s, values, pc, tested)
    BY <1>1, <1>6, ValueCode DEF IInv
  <2>2. pc \in {BodyAt(s, 1), BodyAt(s, 1) + 1, BodyAt(s, 1) + 4} => pc \in DOMAIN code
    BY <1>2, <2>1 DEF ValuePlaced
  <2> QED BY <1>1, <1>3, <2>1, <2>2 DEF ValueAt, LandsOnInstruction
<1> QED
  BY <1>1, <1>4, <1>5, <1>6, StatementParts

LEMMA IInvHasCondition == ASSUME IInv PROVE BodyHasItsCondition
<1> DEFINE s == statement
           n == Len(s.conditions)
           worth == WorthIn(s, values)
<1>1. s \in Statements /\ values \in Values /\ n \in Nat \ {0} /\ DOMAIN worth = 1..n
  BY StatementParts, WorthIs DEF IInv, TypeInv
<1> SUFFICES ASSUME s.kind # "value", entered # <<>>
             PROVE  /\ entered[Len(entered)] \in DOMAIN held => held[entered[Len(entered)]]
                    /\ \A j \in 1..(entered[Len(entered)] - 1) : ~held[j]
  BY DEF BodyHasItsCondition
<1>2. CASE s.kind = "if"
  <2>1. /\ held = worth
        /\ \/ \E k \in 1..n : Chosen(s, values, k, tested) /\ entered = <<k>>
           \/ NoneHolds(s, values, tested) /\ entered = <<n + 1>>
    BY <1>2 DEF IInv, IfAt
  <2>2. CASE \E k \in 1..n : Chosen(s, values, k, tested) /\ entered = <<k>>
    <3>1. PICK k \in 1..n : Chosen(s, values, k, tested) /\ entered = <<k>>
      BY <2>2
    <3>2. entered[Len(entered)] = k
      BY <3>1
    <3> QED BY <2>1, <3>1, <3>2 DEF Chosen, NoneBefore
  <2>3. CASE NoneHolds(s, values, tested) /\ entered = <<n + 1>>
    <3>1. entered[Len(entered)] = n + 1
      BY <2>3
    <3>2. n + 1 \notin DOMAIN held
      BY <1>1, <2>1
    <3> QED BY <2>1, <2>3, <3>1, <3>2 DEF NoneHolds, NoneBefore
  <2> QED BY <2>1, <2>2, <2>3
<1>3. CASE s.kind = "while"
  <2>1. entered \in Seq({1}) /\ held[1]
    BY <1>3 DEF IInv, WhileAt
  <2>2. entered[Len(entered)] = 1
    BY <2>1
  <2>3. \A j \in 1..(1 - 1) : FALSE
    OBVIOUS
  <2> QED BY <2>1, <2>2, <2>3
<1> QED
  BY <1>1, <1>2, <1>3, StatementParts

LEMMA IInvShortCircuits == ASSUME IInv PROVE ShortCircuits
<1> DEFINE s == statement
           n == Len(s.conditions)
<1>1. /\ s \in Statements /\ values \in Values /\ code = Emitted(BlockOf(s)) /\ end = End(s) /\ n \in Nat \ {0}
      /\ TypeInv
  BY StatementParts DEF IInv, TypeInv
<1> SUFFICES ASSUME pc = end PROVE tested = TestedUpTo(s, values)[n]
  BY DEF ShortCircuits, Ended
<1>2. \A instruction : ~At(s, pc, instruction)
  BY <1>1, NothingAtTheEnd
<1>3. ASSUME NEW k, Testing(s, values, k, pc, tested) PROVE FALSE
  BY <1>1, <1>2, <1>3, TestingAt
<1>4. CASE s.kind = "if"
  <2>1. IfPlaced(s)
    BY <1>1, <1>4, IfCode
  <2>2. \A k \in 1..n : pc # BodyAt(s, k)
    BY <1>2, <2>1 DEF IfPlaced
  <2>3. IfAt(s, values, pc, tested, entered, held)
    BY <1>4 DEF IInv
  <2>4. ASSUME NEW k \in 1..n, Chosen(s, values, k, tested) PROVE tested = TestedUpTo(s, values)[n]
    BY <1>1, <2>4, TestedStays DEF Chosen
  <2> QED BY <1>3, <2>2, <2>3, <2>4 DEF IfAt, NoneHolds
<1>5. CASE s.kind = "while"
  <2>1. WhilePlaced(s) /\ WhileAt(s, values, pc, tested, entered, held) /\ n = 1
    BY <1>1, <1>5, WhileCode, StatementParts DEF IInv
  <2>2. pc # BodyAt(s, 1) /\ pc # BodyAt(s, 1) + s.bodies[1]
    BY <1>2, <2>1 DEF WhilePlaced
  <2> QED BY <1>3, <2>1, <2>2 DEF WhileAt
<1>6. CASE s.kind = "value"
  <2>1. ValueAt(s, values, pc, tested) /\ n = 1
    BY <1>1, <1>6, StatementParts DEF IInv
  <2> QED BY <1>3, <2>1 DEF ValueAt
<1> QED
  BY <1>1, <1>4, <1>5, <1>6, StatementParts

(* Every jump of an if chain, a loop or a boolean value leads to an        *)
(* instruction or to the end, whatever its conditions and their values.    *)
THEOREM JumpsLandOnInstructions == ASSUME AllSound PROVE Spec => []LandsOnInstruction
<1>1. IInv => LandsOnInstruction
  BY IInvLands
<1> QED
  BY <1>1, IInvAlways, PTL

(* A body runs only when its condition holds and those before it do not,   *)
(* an else only when none holds.                                           *)
THEOREM BodiesHaveTheirCondition == ASSUME AllSound PROVE Spec => []BodyHasItsCondition
<1>1. IInv => BodyHasItsCondition
  BY IInvHasCondition
<1> QED
  BY <1>1, IInvAlways, PTL

(* The conditions test the leaves they need to, once each and from left to *)
(* right, and no other.                                                    *)
THEOREM ConditionsShortCircuit == ASSUME AllSound PROVE Spec => []ShortCircuits
<1>1. IInv => ShortCircuits
  BY IInvShortCircuits
<1> QED
  BY <1>1, IInvAlways, PTL

=============================================================================
