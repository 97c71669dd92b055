---------------------- MODULE StatementResolutionProofs ----------------------
(***************************************************************************)
(* Bodies of any length and nesting, over any types and methods: what is   *)
(* left without a meaning is reported, values that were accepted fit where *)
(* they were put, and accepted reads follow their declaration.             *)
(***************************************************************************)
EXTENDS StatementResolution, WellFoundedInduction, NaturalsInduction, SequenceTheorems, TLAPS

-----------------------------------------------------------------------------
(* Recursive functions.  One whose value at c depends on its values at     *)
(* smaller depths only has the values its definition gives.                *)

LEMMA LeastNumber ==
    ASSUME NEW S \in SUBSET Nat, S # {}
    PROVE  \E i \in S : \A j \in S : i <= j
<1> DEFINE R == OpToRel(<, Nat)
<1>1. IsWellFoundedOn(R, Nat)
  BY NatLessThanWellFounded
<1>2. \A i, j \in Nat : i < j => <<i, j>> \in R
  BY DEF OpToRel
<1> HIDE DEF R
<1>3. PICK i \in S : \A j \in S : <<j, i>> \notin R
  BY <1>1, WFMin
<1>4. ASSUME NEW j \in S PROVE i <= j
  <2>1. i \in Nat /\ j \in Nat /\ ~(j < i)
    BY <1>2, <1>3
  <2> QED
    BY <2>1
<1> QED
  BY <1>3, <1>4

(* Induction over the depth: T is what holds of the elements of C. *)
LEMMA DepthInduction ==
    ASSUME NEW C, NEW D \in [C -> Nat], NEW T,
           \A c \in C : (\A d \in C : D[d] < D[c] => d \in T) => c \in T
    PROVE  C \subseteq T
<1> DEFINE Bad == {D[c] : c \in C \ T}
<1>1. ASSUME Bad # {} PROVE FALSE
  <2>1. PICK m \in Bad : \A j \in Bad : m <= j
    <3>1. Bad \in SUBSET Nat
      OBVIOUS
    <3> HIDE DEF Bad
    <3> QED
      BY <1>1, <3>1, LeastNumber
  <2>2. PICK c \in C \ T : D[c] = m
    OBVIOUS
  <2>3. ASSUME NEW d \in C, D[d] < D[c] PROVE d \in T
    <3>1. D[d] \in Nat /\ D[c] \in Nat /\ ~(m <= D[d])
      BY <2>2, <2>3
    <3> QED
      BY <2>1, <3>1
  <2> QED
    BY <2>2, <2>3
<1> QED
  BY <1>1

(* Induction over the positions in a sequence. *)
LEMMA UpToInduction ==
    ASSUME NEW n \in Nat, NEW T, 0 \in T, \A i \in 1..n : i - 1 \in T => i \in T
    PROVE  \A i \in 0..n : i \in T
<1> DEFINE Bad == {i \in 0..n : i \notin T}
<1>1. ASSUME Bad # {} PROVE FALSE
  <2>1. Bad \in SUBSET Nat
    OBVIOUS
  <2>2. PICK m \in Bad : \A j \in Bad : m <= j
    <3> HIDE DEF Bad
    <3> QED BY <1>1, <2>1, LeastNumber
  <2>3. m \in 1..n /\ m - 1 \in 0..n /\ ~(m <= m - 1)
    BY <2>2
  <2>4. m - 1 \in T
    BY <2>2, <2>3
  <2> QED
    BY <2>3, <2>4
<1> QED
  BY <1>1

Solves(f, G, C, D, V, n) == f \in [C -> V] /\ \A c \in C : D[c] < n => f[c] = G[c][f]
Downward(G, C, D, V) ==
    \A c \in C : \A f, g \in [C -> V] :
        (\A d \in C : D[d] < D[c] => f[d] = g[d]) => G[c][f] = G[c][g]

LEMMA SolutionsAgree ==
    ASSUME NEW C, NEW D \in [C -> Nat], NEW V, NEW G, Downward(G, C, D, V),
           NEW n \in Nat, NEW f, NEW g, Solves(f, G, C, D, V, n), Solves(g, G, C, D, V, n)
    PROVE  \A c \in C : D[c] < n => f[c] = g[c]
<1> DEFINE Bad == {D[c] : c \in {d \in C : D[d] < n /\ f[d] # g[d]}}
<1>1. ASSUME Bad # {} PROVE FALSE
  <2>1. Bad \in SUBSET Nat
    OBVIOUS
  <2>2. PICK m \in Bad : \A j \in Bad : m <= j
    <3> HIDE DEF Bad
    <3> QED
      BY <1>1, <2>1, LeastNumber
  <2>3. PICK c \in C : D[c] = m /\ D[c] < n /\ f[c] # g[c]
    OBVIOUS
  <2>4. ASSUME NEW d \in C, D[d] < D[c] PROVE f[d] = g[d]
    <3>1. D[d] \in Nat /\ D[c] \in Nat /\ ~(m <= D[d]) /\ D[d] < n
      BY <2>3, <2>4
    <3>2. D[d] \notin Bad
      BY <2>2, <3>1
    <3> QED
      BY <3>1, <3>2
  <2>5. G[c][f] = G[c][g]
    BY <2>4 DEF Downward, Solves
  <2> QED
    BY <2>3, <2>5 DEF Solves
<1> QED
  BY <1>1

LEMMA SolutionsExist ==
    ASSUME NEW C, NEW D \in [C -> Nat], NEW V, V # {}, NEW G \in [C -> [[C -> V] -> V]],
           Downward(G, C, D, V)
    PROVE  \A n \in Nat : \E f : Solves(f, G, C, D, V, n)
<1> DEFINE Bad == {n \in Nat : ~\E f : Solves(f, G, C, D, V, n)}
<1>1. ASSUME Bad # {} PROVE FALSE
  <2>1. PICK n \in Bad : \A j \in Bad : n <= j
    <3>1. Bad \in SUBSET Nat
      OBVIOUS
    <3> HIDE DEF Bad
    <3> QED
      BY <1>1, <3>1, LeastNumber
  <2>2. CASE n = 0
    <3>1. PICK v \in V : TRUE
      OBVIOUS
    <3>2. \A c \in C : ~(D[c] < 0)
      OBVIOUS
    <3>3. Solves([c \in C |-> v], G, C, D, V, n)
      BY <2>2, <3>2 DEF Solves
    <3> QED
      BY <2>1, <3>3
  <2>3. CASE n # 0
    <3>1. n \in Nat /\ n - 1 \in Nat /\ ~(n <= n - 1)
      BY <2>3
    <3>2. PICK f : Solves(f, G, C, D, V, n - 1)
      BY <2>1, <3>1
    <3> DEFINE g == [c \in C |-> IF D[c] = n - 1 THEN G[c][f] ELSE f[c]]
    <3>3. f \in [C -> V]
      BY <3>2 DEF Solves
    <3>4. g \in [C -> V]
      BY <3>3
    <3>5. ASSUME NEW c \in C, D[c] < n PROVE g[c] = G[c][g]
      <4>1. \A d \in C : D[d] < D[c] => g[d] = f[d]
        <5> SUFFICES ASSUME NEW d \in C, D[d] < D[c] PROVE g[d] = f[d]
          OBVIOUS
        <5>1. D[d] # n - 1
          BY <3>1, <3>5
        <5> QED
          BY <5>1
      <4>2. G[c][g] = G[c][f]
        <5> HIDE DEF g
        <5> QED BY <3>3, <3>4, <4>1 DEF Downward
      <4>3. CASE D[c] = n - 1
        BY <4>2, <4>3
      <4>4. CASE D[c] # n - 1
        <5>1. D[c] < n - 1
          <6>1. \A i, j \in Nat : i < j /\ i # j - 1 => i < j - 1
            OBVIOUS
          <6>2. D[c] \in Nat
            OBVIOUS
          <6> QED
            BY <3>1, <3>5, <4>4, <6>1, <6>2
        <5>2. f[c] = G[c][f]
          BY <3>2, <5>1 DEF Solves
        <5> QED
          BY <4>2, <4>4, <5>2
      <4> QED
        BY <4>3, <4>4
    <3>6. Solves(g, G, C, D, V, n)
      <4> HIDE DEF g
      <4> QED BY <3>4, <3>5 DEF Solves
    <3> QED
      BY <2>1, <3>6
  <2> QED
    BY <2>2, <2>3
<1> QED
  BY <1>1

Recursion(G, C, D, V) ==
    D \in [C -> Nat] /\ V # {} /\ G \in [C -> [[C -> V] -> V]] /\ Downward(G, C, D, V)
HasSolution(G, C, V) == \E f \in [C -> V] : \A c \in C : f[c] = G[c][f]

LEMMA RecursionHolds ==
    ASSUME NEW C, NEW D, NEW V, NEW G, Recursion(G, C, D, V)
    PROVE  HasSolution(G, C, V)
<1>0. D \in [C -> Nat] /\ V # {} /\ G \in [C -> [[C -> V] -> V]] /\ Downward(G, C, D, V)
  BY DEF Recursion
<1> DEFINE F(n) == CHOOSE f : Solves(f, G, C, D, V, n)
           h == [c \in C |-> F(D[c] + 1)[c]]
<1>1. ASSUME NEW n \in Nat PROVE Solves(F(n), G, C, D, V, n)
  BY <1>0, SolutionsExist
<1> HIDE DEF F
<1>2. ASSUME NEW c \in C PROVE F(D[c] + 1) \in [C -> V] /\ F(D[c] + 1)[c] = G[c][F(D[c] + 1)]
  <2>1. D[c] + 1 \in Nat /\ D[c] < D[c] + 1
    BY <1>0
  <2> QED
    BY <1>1, <2>1 DEF Solves
<1>3. h \in [C -> V]
  BY <1>2
<1>4. ASSUME NEW c \in C PROVE h[c] = G[c][h]
  <2>1. ASSUME NEW d \in C, D[d] < D[c] PROVE h[d] = F(D[c] + 1)[d]
    <3>1. D[d] + 1 \in Nat /\ D[c] + 1 \in Nat /\ D[d] < D[d] + 1 /\ D[d] + 1 <= D[c] + 1
      BY <1>0, <2>1
    <3>2. Solves(F(D[c] + 1), G, C, D, V, D[d] + 1)
      <4>1. \A e \in C : D[e] < D[d] + 1 => D[e] < D[c] + 1
        BY <1>0, <3>1
      <4> QED
        BY <1>1, <3>1, <4>1 DEF Solves
    <3>3. Solves(F(D[d] + 1), G, C, D, V, D[d] + 1)
      BY <1>1, <3>1
    <3>4. \A e \in C : D[e] < D[d] + 1 => F(D[d] + 1)[e] = F(D[c] + 1)[e]
      BY <1>0, <3>1, <3>2, <3>3, SolutionsAgree
    <3>5. F(D[d] + 1)[d] = F(D[c] + 1)[d]
      BY <3>1, <3>4
    <3> QED
      BY <3>5
  <2>2. G[c][h] = G[c][F(D[c] + 1)]
    <3> HIDE DEF h
    <3> QED BY <1>0, <1>2, <1>3, <2>1 DEF Downward
  <2> QED
    BY <1>2, <2>2
<1> QED
  <2> HIDE DEF h
  <2> QED BY <1>3, <1>4 DEF HasSolution

-----------------------------------------------------------------------------
(* Results, and what is true of every one of them.                         *)

AllTypes == ValueTypes \cup {Absent, Throws}
Nodes == Values \cup [k : {"let"}, x : STRING]
Messages ==
    {"no such type", "no such symbol", "no such method", "not a variable", "not an array", "not an index",
     "not a condition", "not a collection", "before creation", "arguments mismatch", "operands mismatch",
     "return mismatch", "invalid cast", "non-static call", "undeclared sin", "initialised per object"}
Places ==
    {"receiver", "this", "implicit this", "argument", "index", "assign", "element", "condition", "iterate",
     "return", "initializer", "name"}
Puts == [want : AllTypes, got : AllTypes, how : Places]
Reads == [decl : Seq(Nat), at : Seq(Nat), how : Places]
Results == [ok : BOOLEAN, ty : AllTypes, errs : SUBSET Messages, ended : BOOLEAN,
            holes : SUBSET Nodes, puts : SUBSET Puts, reads : SUBSET Reads]

FitPuts == {p \in Puts : Fits(p.got, p.want) \/ Overlooked(p)}
FollowsDeclaration(d, at) == Before(d, at) \/ d = at \/ Len(d) < Len(at)
FineReads == {x \in Reads : FollowsDeclaration(x.decl, x.at) \/ x.how = "receiver"}

Clean(r) == r.errs = {} /\ r.ended = FALSE
Failing(r) == r.ok = FALSE \/ r.holes # {} \/ r.ended = TRUE

Told(r) == r.errs # {}
Excused(e, r) == e.init = TRUE \/ Told(r)

(***************************************************************************)
(* The index of a statement says which variables of its own scope were     *)
(* declared before it; those of the scopes around it are further out.      *)
(***************************************************************************)
Proper(e) ==
    \A l \in DOMAIN e.chain : \A i \in DOMAIN e.chain[l] :
        /\ Len(e.chain[l][i].at) <= Len(e.at)
        /\ l > 1 => Len(e.chain[l][i].at) < Len(e.at)
        /\ l = 1 => \A n \in {e.idx, SizeMax} :
            (e.chain[l][i].from <= n /\ n <= e.chain[l][i].to)
                => FollowsDeclaration(e.chain[l][i].at, e.at)

Sane(e, r) ==
    /\ r \in Results
    /\ Clean(r) => r.puts \subseteq FitPuts
    /\ Clean(r) /\ Proper(e) => r.reads \subseteq FineReads
    /\ Failing(r) => Excused(e, r)

LEMMA TypesAre ==
    /\ \A t \in Types : t \in AllTypes /\ t.base \notin NoTypes /\ t # Absent /\ t # Throws
    /\ \A t \in AllTypes : t.dims \in Nat /\ t = [base |-> t.base, dims |-> t.dims]
    /\ \A t \in AllTypes : t \in Types \/ t = Absent \/ t = Throws \/ t = Type("null") \/ t = RangeType
    /\ {Absent, Throws, Type("null"), RangeType} \subseteq AllTypes
    /\ Absent # Throws /\ RangeType # Absent /\ RangeType # Throws
    /\ Absent.dims = 0 /\ Throws.dims = 0 /\ Type("null").dims = 0 /\ RangeType.dims = 0
    /\ \A b \in STRING \ NoTypes : Type(b) \in Types
    /\ \A b \in Primitives \cup Class : Type(b) \in Types
    /\ {Type("int"), Type("boolean")} \subseteq Types
    /\ \A b : Type(b).base = b /\ Type(b).dims = 0
<1>1. \A t \in Types : t \in AllTypes /\ t.base \in STRING /\ t.base \notin NoTypes /\ t.dims \in Nat
                        /\ t = [base |-> t.base, dims |-> t.dims]
  BY DEF Types, AllTypes, ValueTypes
<1>2. \A b : Type(b).base = b /\ Type(b).dims = 0 /\ Type(b) = [base |-> Type(b).base, dims |-> Type(b).dims]
  BY DEF Type
<1>3. /\ Absent.base = "absent" /\ Throws.base = "throws" /\ Type("null").base = "null"
      /\ RangeType.base = "range" /\ {"absent", "throws", "null", "range"} = NoTypes
  BY <1>2 DEF Absent, Throws, RangeType, NoTypes
<1>4. \A t \in AllTypes : t \in Types \/ t = Absent \/ t = Throws \/ t = Type("null") \/ t = RangeType
  BY DEF AllTypes, ValueTypes
<1>5. {Absent, Throws, Type("null"), RangeType} \subseteq AllTypes
  BY DEF AllTypes, ValueTypes
<1>6. \A b \in STRING \ NoTypes : Type(b) \in Types
  BY DEF Types, Type
<1>7. \A b \in Primitives \cup Class : Type(b) \in Types
  BY <1>6, WorldAssumption
<1>8. /\ Absent # Throws /\ RangeType # Absent /\ RangeType # Throws
      /\ Absent.dims = 0 /\ Throws.dims = 0 /\ Type("null").dims = 0 /\ RangeType.dims = 0
  BY <1>2, <1>3 DEF Absent, Throws, RangeType
<1>9. \A t \in {Absent, Throws, Type("null"), RangeType} :
        t.dims \in Nat /\ t = [base |-> t.base, dims |-> t.dims]
  BY <1>2, <1>8 DEF Absent, Throws, RangeType
<1>10. \A t \in Types : t # Absent /\ t # Throws
  BY <1>1, <1>3
<1>11. \A t \in AllTypes : t.dims \in Nat /\ t = [base |-> t.base, dims |-> t.dims]
  BY <1>1, <1>4, <1>9
<1>12. {Type("int"), Type("boolean")} \subseteq Types
  BY <1>7, WorldAssumption
<1> QED
  BY <1>1, <1>2, <1>4, <1>5, <1>6, <1>7, <1>8, <1>10, <1>11, <1>12

\* The type of a value that was answered for: one that is resolved, or a range's.
Answered(r) == r.ok = TRUE /\ r.ended = FALSE
Settled(t) == Known(t) \/ t = RangeType

LEMMA KnownAre ==
    /\ KnownTypes \subseteq Types /\ \A t \in KnownTypes : Known(t)
    /\ \A b \in Primitives \cup Class : Known(Type(b)) /\ Type(b) \in KnownTypes
    /\ Known(Type("null")) /\ Known(Type("int")) /\ Known(Type("boolean"))
    /\ \A t, u : t.base = u.base => (Known(t) <=> Known(u))
<1>1. \A b \in Primitives \cup Class : Known(Type(b)) /\ Type(b) \in Types
  BY TypesAre DEF Known, IsPrimitive, IsCustom
<1>2. Known(Type("null"))
  BY TypesAre DEF Known
<1>3. {"int", "boolean"} \subseteq Primitives
  BY WorldAssumption
<1>4. \A t, u : t.base = u.base => (Known(t) <=> Known(u))
  BY DEF Known, IsPrimitive, IsCustom
<1> QED
  BY <1>1, <1>2, <1>3, <1>4 DEF KnownTypes

LEMMA ResultIs ==
    ASSUME NEW e, NEW ty \in AllTypes
    PROVE  Sane(e, Result(ty)) /\ Result(ty).ok /\ Result(ty).ty = ty /\ ~Result(ty).ended
BY DEF Sane, Results, Result, Clean, Failing

LEMMA BothIs ==
    ASSUME NEW e, NEW a, NEW b, Sane(e, a), Sane(e, b)
    PROVE  /\ Sane(e, Both(a, b))
           /\ Excused(e, a) => Excused(e, Both(a, b))
           /\ Excused(e, b) => Excused(e, Both(a, b))
           /\ Both(a, b).ok => a.ok /\ (a.ended \/ b.ok)
           /\ Both(a, b).ended <=> a.ended \/ b.ended
           /\ Answered(Both(a, b)) => Answered(a) /\ Answered(b)
<1>1. CASE a.ended = TRUE
  <2>1. Both(a, b) = a
    BY <1>1 DEF Both
  <2> QED
    BY <1>1, <2>1 DEF Sane, Failing, Answered
<1>2. CASE a.ended = FALSE
  <2> DEFINE r == Both(a, b)
  <2>1. /\ r.ok = (a.ok /\ b.ok) /\ r.ty = b.ty /\ r.errs = a.errs \cup b.errs /\ r.ended = b.ended
        /\ r.holes = a.holes \cup b.holes /\ r.puts = a.puts \cup b.puts /\ r.reads = a.reads \cup b.reads
    BY <1>2 DEF Both
  <2>2. r \in Results
    BY <1>2 DEF Both, Sane, Results
  <2> HIDE DEF r
  <2>3. (Told(a) \/ Told(b)) => Told(r)
    BY <2>1 DEF Told
  <2>4. Clean(r) => Clean(a) /\ Clean(b)
    BY <1>2, <2>1 DEF Clean
  <2>5. a.ok \in BOOLEAN /\ b.ok \in BOOLEAN
    BY DEF Sane, Results
  <2>6. Failing(r) => Failing(a) \/ Failing(b)
    BY <1>2, <2>1, <2>5 DEF Failing
  <2>7. Sane(e, r)
    BY <2>1, <2>2, <2>3, <2>4, <2>6 DEF Sane, Excused
  <2>8. /\ (r.ok => a.ok /\ (a.ended \/ b.ok)) /\ (r.ended <=> a.ended \/ b.ended)
        /\ (Answered(r) => Answered(a) /\ Answered(b))
    BY <1>2, <2>1, <2>5 DEF Answered
  <2> QED
    BY <2>3, <2>7, <2>8 DEF r, Excused
<1> QED
  BY <1>1, <1>2 DEF Sane, Results

LEMMA ReportIs ==
    ASSUME NEW e, NEW r, Sane(e, r), NEW err \in Messages
    PROVE  Sane(e, Report(r, err)) /\ ~Report(r, err).ok /\ Report(r, err).ty = r.ty
           /\ Told(Report(r, err)) /\ Report(r, err).errs # {} /\ ~Answered(Report(r, err))
<1> DEFINE q == Report(r, err)
<1>1. q \in Results /\ q.ok = FALSE /\ q.ty = r.ty /\ q.errs = r.errs \cup {err} /\ q.ended = r.ended
  BY DEF Report, Results, Sane
<1> QED
  <2> HIDE DEF q
  <2>1. Sane(e, q) /\ Told(q) /\ q.errs # {} /\ ~Answered(q)
    BY <1>1 DEF Sane, Clean, Told, Excused, Answered
  <2> QED
    BY <1>1, <2>1 DEF q

LEMMA ReportIfIs ==
    ASSUME NEW e, NEW r, Sane(e, r), NEW err \in Messages, NEW cond
    PROVE  /\ Sane(e, ReportIf(cond, r, err))
           /\ ReportIf(cond, r, err).ty = r.ty
           /\ Excused(e, r) => Excused(e, ReportIf(cond, r, err))
           /\ ReportIf(cond, r, err).ok => r.ok /\ (~r.ended => ~cond)
           /\ Clean(ReportIf(cond, r, err)) => Clean(r) /\ ~cond
           /\ Answered(ReportIf(cond, r, err)) => Answered(r) /\ ~cond
<1>0. r.ended \in BOOLEAN
  BY DEF Sane, Results
<1>1. CASE cond /\ r.ended = FALSE
  <2>1. ReportIf(cond, r, err) = Report(r, err)
    BY <1>1 DEF ReportIf
  <2>2. Report(r, err).errs # {} /\ ~Report(r, err).ok /\ ~Answered(Report(r, err))
    BY ReportIs
  <2> QED
    BY <1>1, <2>1, <2>2, ReportIs DEF Clean, Excused
<1>2. CASE ~(cond /\ r.ended = FALSE)
  <2>1. ReportIf(cond, r, err) = r
    BY <1>0, <1>2 DEF ReportIf
  <2> QED
    BY <1>0, <1>2, <2>1 DEF Clean, Answered
<1> QED
  BY <1>1, <1>2

LEMMA PutIs ==
    ASSUME NEW e, NEW r, Sane(e, r), NEW want \in AllTypes, NEW got \in AllTypes, NEW how \in Places,
           Clean(r) => Fits(got, want) \/ Overlooked([want |-> want, got |-> got, how |-> how])
    PROVE  /\ Sane(e, Put(r, want, got, how))
           /\ Put(r, want, got, how).ty = r.ty /\ (Put(r, want, got, how).ok <=> r.ok)
           /\ Clean(Put(r, want, got, how)) <=> Clean(r)
           /\ Excused(e, r) => Excused(e, Put(r, want, got, how))
           /\ Put(r, want, got, how).ended = r.ended
<1> DEFINE q == Put(r, want, got, how)
           p == [want |-> want, got |-> got, how |-> how]
<1>1. p \in Puts /\ (Clean(r) => p \in FitPuts)
  BY DEF Puts, FitPuts
<1>2. /\ q \in Results /\ q.ok = r.ok /\ q.ty = r.ty /\ q.errs = r.errs /\ q.ended = r.ended
      /\ q.holes = r.holes /\ q.puts = r.puts \cup {p} /\ q.reads = r.reads
  BY <1>1 DEF Put, Results, Sane
<1> QED
  <2> HIDE DEF q, p
  <2>1. Sane(e, q) /\ (Clean(q) <=> Clean(r)) /\ (Told(q) <=> Told(r))
    BY <1>1, <1>2 DEF Sane, Clean, Told, Excused, Failing
  <2> QED
    BY <1>2, <2>1 DEF q, Excused

LEMMA TypedIs ==
    ASSUME NEW e, NEW r, Sane(e, r), NEW ty \in AllTypes
    PROVE  /\ Sane(e, Typed(r, ty)) /\ Typed(r, ty).ty = ty /\ (Typed(r, ty).ok <=> r.ok)
           /\ Excused(e, r) => Excused(e, Typed(r, ty))
           /\ Answered(Typed(r, ty)) <=> Answered(r)
<1> DEFINE q == Typed(r, ty)
<1>1. /\ q \in Results /\ q.ok = r.ok /\ q.ty = ty /\ q.errs = r.errs /\ q.ended = r.ended
      /\ q.holes = r.holes /\ q.puts = r.puts /\ q.reads = r.reads
  BY DEF Typed, Results, Sane
<1> QED
  <2> HIDE DEF q
  <2>1. Sane(e, q) /\ (Told(q) <=> Told(r)) /\ (Answered(q) <=> Answered(r))
    BY <1>1 DEF Sane, Clean, Told, Excused, Failing, Answered
  <2> QED
    BY <1>1, <2>1 DEF q, Excused

LEMMA HoleIs ==
    ASSUME NEW e, NEW r, Sane(e, r), NEW ty \in AllTypes, NEW v \in Nodes, Excused(e, r)
    PROVE  /\ Sane(e, Hole(v, r, ty)) /\ ~Hole(v, r, ty).ok
           /\ Hole(v, r, ty).ty = ty /\ Excused(e, Hole(v, r, ty)) /\ ~Answered(Hole(v, r, ty))
<1> DEFINE q == Hole(v, r, ty)
<1>1. /\ q \in Results /\ q.ok = FALSE /\ q.ty = ty /\ q.errs = r.errs /\ q.ended = r.ended
      /\ q.holes = r.holes \cup {v} /\ q.puts = r.puts /\ q.reads = r.reads
  BY DEF Hole, Results, Sane
<1> QED
  <2> HIDE DEF q
  <2>1. Excused(e, q)
    BY <1>1 DEF Told, Excused
  <2>2. Sane(e, q) /\ ~Answered(q)
    BY <1>1, <2>1 DEF Sane, Clean, Answered
  <2> QED
    BY <1>1, <2>1, <2>2 DEF q

-----------------------------------------------------------------------------
(* Names *)

LEMMA MinIs ==
    ASSUME NEW S \in SUBSET Nat, S # {}
    PROVE  Min(S) \in S
BY LeastNumber DEF Min

LEMMA EnvironmentIs ==
    ASSUME NEW e \in Environments
    PROVE  /\ e.m.cls \in Class /\ e.m.returns \in Types /\ Known(e.m.returns) /\ e.m.static \in BOOLEAN
           /\ e.m.reversed \in BOOLEAN /\ e.init \in BOOLEAN
           /\ e.chain \in Seq(Seq(Variables)) /\ e.idx \in Nat /\ e.at \in Seq(Nat)
BY KnownAre DEF Environments, Contexts

LEMMA ClassIs ==
    ASSUME NEW c \in Class
    PROVE  /\ \A x \in DOMAIN World[c].fields : World[c].fields[x].type \in Types
           /\ \A x \in DOMAIN World[c].methods : World[c].methods[x] \in Seq(Methods)
           /\ World[c].super \in Class \cup {None}
BY WorldAssumption, KnownAre

LEMMA LocalIs ==
    ASSUME NEW e \in Environments, NEW x, LevelOf(e.chain, x) # 0
    PROVE  /\ LevelOf(e.chain, x) \in DOMAIN e.chain
           /\ \E i \in DOMAIN e.chain[LevelOf(e.chain, x)] :
                FirstOf(e.chain[LevelOf(e.chain, x)], x) = e.chain[LevelOf(e.chain, x)][i]
           /\ FirstOf(e.chain[LevelOf(e.chain, x)], x) \in Variables
<1> DEFINE named == {l \in DOMAIN e.chain : \E i \in DOMAIN e.chain[l] : e.chain[l][i].name = x}
           level == LevelOf(e.chain, x)
           here == {i \in DOMAIN e.chain[level] : e.chain[level][i].name = x}
<1>0. e.chain \in Seq(Seq(Variables))
  BY EnvironmentIs
<1>1. level = Min(named) /\ named # {} /\ named \in SUBSET Nat
  BY <1>0 DEF LevelOf
<1>2. level \in named
  <2> HIDE DEF named, level
  <2> QED BY <1>1, MinIs
<1>3. level \in DOMAIN e.chain /\ e.chain[level] \in Seq(Variables)
  <2> HIDE DEF level
  <2> QED BY <1>0, <1>2
<1>4. here # {} /\ here \in SUBSET Nat
  <2> HIDE DEF level
  <2> QED BY <1>2, <1>3
<1>5. Min(here) \in here
  <2> HIDE DEF here
  <2> QED BY <1>4, MinIs
<1>6. FirstOf(e.chain[level], x) = e.chain[level][Min(here)]
  BY DEF FirstOf
<1> HIDE DEF level
<1>7. Min(here) \in DOMAIN e.chain[level]
  BY <1>5
<1> HIDE DEF here
<1> QED
  BY <1>3, <1>6, <1>7 DEF level

LEMMA VariableIs ==
    ASSUME NEW e, NEW ty \in Types
    PROVE  /\ Sane(e, Variable(ty)) /\ Variable(ty).ty = ty
           /\ Variable(ty).holes = {} /\ Variable(ty).puts = {} /\ ~Variable(ty).ended
           /\ (Variable(ty).ok <=> Known(ty))
           /\ Variable(ty).errs = IF Known(ty) THEN {} ELSE {"no such type"}
<1>1. ty \in AllTypes /\ "no such type" \in Messages
  BY TypesAre DEF Messages
<1>2. Sane(e, Result(ty)) /\ Result(ty) \in Results
  BY <1>1, ResultIs DEF Sane
<1>3. Known(ty) \in BOOLEAN
  BY DEF Known
<1>4. CASE Known(ty)
  <2>1. Variable(ty) = Result(ty)
    BY <1>4 DEF Variable, ReportIf
  <2> QED
    BY <1>2, <1>3, <1>4, <2>1 DEF Result
<1>5. CASE ~Known(ty)
  <2> DEFINE a == Result(ty)
             q == Report(a, "no such type")
  <2>1. Variable(ty) = q
    BY <1>5 DEF Variable, ReportIf, Result
  <2>2. Sane(e, q)
    BY <1>1, <1>2, ReportIs
  <2>3. a.ok = TRUE /\ a.ty = ty /\ a.errs = {} /\ a.ended = FALSE /\ a.holes = {} /\ a.puts = {}
    BY DEF Result
  <2> HIDE DEF a
  <2>4. q.ok = FALSE /\ q.ty = ty /\ q.errs = {"no such type"} /\ q.ended = FALSE /\ q.holes = {} /\ q.puts = {}
    BY <1>2, <2>3 DEF Report, Results, a
  <2> HIDE DEF q
  <2> QED
    BY <1>3, <1>5, <2>1, <2>2, <2>4
<1> QED
  BY <1>4, <1>5

LEMMA LocalVariableIs ==
    ASSUME NEW e \in Environments, NEW x, LevelOf(e.chain, x) # 0
    PROVE  /\ Sane(e, LocalVariable(x, LevelOf(e.chain, x), e))
           /\ LocalVariable(x, LevelOf(e.chain, x), e).ty \in Types
           /\ LocalVariable(x, LevelOf(e.chain, x), e).ok => Known(LocalVariable(x, LevelOf(e.chain, x), e).ty)
<1> DEFINE level == LevelOf(e.chain, x)
           local == FirstOf(e.chain[level], x)
           known == Known(local.type)
           q == LocalVariable(x, level, e)
           read == [decl |-> local.at, at |-> e.at, how |-> "name"]
<1>1. local \in Variables /\ level \in DOMAIN e.chain /\ \E i \in DOMAIN e.chain[level] : local = e.chain[level][i]
  BY LocalIs
<1>2. local.type \in Types /\ local.type \in AllTypes /\ local.at \in Seq(Nat)
  BY <1>1, TypesAre DEF Variables
<1>3. e.at \in Seq(Nat) /\ e.chain \in Seq(Seq(Variables)) /\ e.idx \in Nat
  BY EnvironmentIs
<1>4. read \in Reads /\ "before creation" \in Messages /\ "no such type" \in Messages
  BY <1>2, <1>3 DEF Reads, Places, Messages
<1> DEFINE a == [Variable(local.type) EXCEPT !.reads = {read}]
<1>5. /\ a \in Results /\ a.ok = known /\ a.ty = local.type /\ a.ended = FALSE /\ a.holes = {} /\ a.puts = {}
      /\ a.reads = {read} /\ a.errs = IF known THEN {} ELSE {"no such type"}
  <2> HIDE DEF local, read
  <2>1. Variable(local.type) \in Results
    BY <1>2, VariableIs DEF Sane
  <2>2. PICK b : b = Variable(local.type)
    OBVIOUS
  <2>3. /\ b \in Results /\ (b.ok <=> known) /\ b.ty = local.type /\ ~b.ended /\ b.holes = {} /\ b.puts = {}
        /\ b.errs = IF known THEN {} ELSE {"no such type"}
    BY <1>2, <2>1, <2>2, VariableIs DEF known
  <2>4. known \in BOOLEAN
    BY DEF known, Known
  <2>5. b.ok = known /\ b.ended = FALSE
    BY <2>3, <2>4 DEF Results
  <2> HIDE DEF known
  <2> QED
    BY <1>2, <1>4, <2>2, <2>3, <2>5 DEF Results
<1>6. /\ q \in Results /\ q.ok = known /\ q.ty = local.type /\ q.ended = FALSE /\ q.holes = {} /\ q.puts = {}
      /\ q.reads = {read}
      /\ q.errs = IF known THEN IF IsAccessible(local, level, e.idx) THEN {} ELSE {"before creation"}
                  ELSE {"no such type"}
  <2>1. q = IF a.ok /\ ~IsAccessible(local, level, e.idx) THEN [a EXCEPT !.errs = {"before creation"}] ELSE a
    BY DEF LocalVariable, Read
  <2> HIDE DEF a, q, local, level, read, known
  <2> QED
    BY <1>4, <1>5, <2>1 DEF Results
<1>9. q.ok => Known(q.ty)
  <2> HIDE DEF q, local
  <2> QED BY <1>6
<1> HIDE DEF q
<1>7. Clean(q) /\ Proper(e) => FollowsDeclaration(local.at, e.at)
  <2> SUFFICES ASSUME Clean(q), Proper(e) PROVE FollowsDeclaration(local.at, e.at)
    OBVIOUS
  <2>1. IsAccessible(local, level, e.idx)
    <3> HIDE DEF level, local
    <3> QED BY <1>6 DEF Clean
  <2>2. PICK i \in DOMAIN e.chain[level] : local = e.chain[level][i]
    BY <1>1
  <2> HIDE DEF local
  <2>3. CASE level = 1
    BY <1>1, <2>1, <2>2, <2>3 DEF IsAccessible, Proper
  <2>4. CASE level # 1
    <3>1. level > 1
      BY <1>1, <1>3, <2>4
    <3> HIDE DEF level
    <3> QED BY <1>1, <2>2, <3>1 DEF Proper, FollowsDeclaration
  <2> QED
    BY <2>3, <2>4
<1>8. Sane(e, q)
  <2> HIDE DEF level, local, known
  <2>0. read.decl = local.at /\ read.at = e.at
    OBVIOUS
  <2> HIDE DEF read
  <2>1. Clean(q) /\ Proper(e) => q.reads \subseteq FineReads
    BY <1>4, <1>6, <1>7, <2>0 DEF FineReads
  <2>2. Failing(q) => Told(q)
    BY <1>6 DEF Failing, Told
  <2> QED
    BY <1>6, <2>1, <2>2 DEF Sane, Excused
<1> QED
  BY <1>2, <1>6, <1>8, <1>9 DEF q

LEMMA MissingIs ==
    ASSUME NEW e, NEW v \in Nodes, NEW err \in Messages
    PROVE  LET q == Report(Hole(v, Result(Throws), Throws), err)
           IN  Sane(e, q) /\ ~q.ok /\ q.ty = Throws /\ Told(q)
<1> DEFINE h == Hole(v, Result(Throws), Throws)
           q == Report(h, err)
<1>1. Result(Throws) \in Results /\ Throws \in AllTypes
  BY ResultIs, TypesAre DEF Sane
<1>2. /\ h \in Results /\ h.ok = FALSE /\ h.ty = Throws /\ h.errs = {} /\ h.ended = FALSE
      /\ h.holes = {v} /\ h.puts = {} /\ h.reads = {}
  BY <1>1 DEF Hole, Result, Results
<1> HIDE DEF h
<1>3. /\ q \in Results /\ q.ok = FALSE /\ q.ty = Throws /\ q.errs = {err} /\ q.ended = FALSE
      /\ q.holes = {v} /\ q.puts = {} /\ q.reads = {}
  BY <1>2 DEF Report, Results
<1> HIDE DEF q
<1>4. Sane(e, q) /\ Told(q)
  BY <1>3 DEF Sane, Clean, Told, Excused
<1> QED
  BY <1>3, <1>4 DEF q, h

LEMMA SilentIs ==
    ASSUME NEW e, NEW v \in Nodes, e.init = TRUE, NEW a, a = Result(Throws)
    PROVE  /\ Sane(e, Hole(v, a, Throws)) /\ ~Hole(v, a, Throws).ok
           /\ Hole(v, a, Throws).ty = Throws
<1>1. Throws \in AllTypes
  BY TypesAre
<1>2. Sane(e, a) /\ Excused(e, a)
  BY <1>1, ResultIs DEF Excused
<1>3. PICK q : q = Hole(v, a, Throws)
  OBVIOUS
<1>4. Sane(e, q) /\ q.ok = FALSE /\ q.ty = Throws
  BY <1>1, <1>2, <1>3, HoleIs
<1> QED
  BY <1>3, <1>4

\* What is known of a value in its place.
Resolved(v, e, r) ==
    /\ Sane(e, r)
    /\ r.ty \in {Absent, Throws} => Excused(e, r)
    /\ v.k \in {"name", "access"} /\ r.ok = TRUE => r.ty \in Types
    /\ Answered(r) => Settled(r.ty)

LEMMA SuperFieldIs ==
    ASSUME NEW v \in Nodes, NEW x, NEW e,
           Resolved(v, e, Report(Hole(v, Result(Throws), Throws), "no such symbol")),
           \A ty \in KnownTypes : Resolved(v, e, Variable(ty))
    PROVE  Resolved(v, e, SuperFieldVariable(v, x, e))
<1> DEFINE above == World[e.m.cls].super
           having == {c \in Class : x \in DOMAIN World[c].fields}
           found == IF above = None THEN {} ELSE having \cap Climbed(above, having)
           c == CHOOSE b \in found : TRUE
<1>1. \A b \in found : b \in Class /\ x \in DOMAIN World[b].fields
  OBVIOUS
<1>2. SuperFieldVariable(v, x, e) =
        IF found # {} THEN Variable(World[c].fields[x].type)
        ELSE Report(Hole(v, Result(Throws), Throws), "no such symbol")
  BY DEF SuperFieldVariable
<1>3. found # {} => c \in found
  <2> HIDE DEF found
  <2> QED OBVIOUS
<1> HIDE DEF found, c
<1>4. found # {} => World[c].fields[x].type \in KnownTypes
  BY <1>1, <1>3, WorldAssumption
<1> QED
  BY <1>2, <1>4

LEMMA NameIs ==
    ASSUME NEW v \in Values, v.k = "name", NEW e \in Environments
    PROVE  Resolved(v, e, NameValue(v, e))
<1>0. /\ v.parts \in Seq(STRING) /\ v.parts # <<>> /\ v \in Nodes
      /\ v.assoc = None \/ v.assoc = "this" \/ v.assoc = "super"
  BY SyntaxAssumption DEF IsValue, Nodes
<1>1. Len(v.parts) > 1 \/ Len(v.parts) = 1
  <2>1. Len(v.parts) \in Nat /\ Len(v.parts) # 0
    BY <1>0
  <2>2. \A n \in Nat : n # 0 => n > 1 \/ n = 1
    OBVIOUS
  <2> QED
    BY <2>1, <2>2
<1>2. e.m.cls \in Class /\ e.init \in BOOLEAN
  BY EnvironmentIs
<1>3. \A err \in Messages : Resolved(v, e, Report(Hole(v, Result(Throws), Throws), err))
  BY <1>0, MissingIs, TypesAre DEF Resolved, Excused, Answered
<1>4. \A ty \in KnownTypes : Resolved(v, e, Variable(ty))
  BY VariableIs, TypesAre, KnownAre DEF Resolved, Settled
<1>5. {"no such symbol", "not a variable"} \subseteq Messages
  BY DEF Messages
<1>6. \A x : Resolved(v, e, FieldVariable(v, x, e))
  BY <1>2, <1>3, <1>4, <1>5, WorldAssumption DEF FieldVariable
<1>7. \A x : Resolved(v, e, SingleName(v, x, e))
  <2> TAKE x
  <2> DEFINE level == LevelOf(e.chain, x)
  <2>1. level # 0 => Resolved(v, e, LocalVariable(x, level, e))
    BY LocalVariableIs, TypesAre DEF Resolved, Answered, Settled
  <2> HIDE DEF level
  <2>2. SingleName(v, x, e) = CASE level # 0 -> LocalVariable(x, level, e)
          [] level = 0 /\ x \in DOMAIN World[e.m.cls].fields -> FieldVariable(v, x, e)
          [] OTHER -> Report(Hole(v, Result(Throws), Throws),
                IF x \in DOMAIN World[e.m.cls].methods \cup Class
                THEN "not a variable" ELSE "no such symbol")
    BY DEF SingleName, level
  <2> QED
    BY <1>3, <1>5, <1>6, <2>1, <2>2
<1>8. Resolved(v, e, QualifiedName(v))
  BY <1>3, <1>4, <1>5, WorldAssumption DEF QualifiedName
<1>9. e.init = TRUE => Resolved(v, e, Hole(v, Result(Throws), Throws))
  BY <1>0, SilentIs, TypesAre DEF Resolved, Excused, Answered
<1>10. Resolved(v, e, SuperFieldVariable(v, Last(v.parts), e))
  BY <1>0, <1>3, <1>4, <1>5, SuperFieldIs
<1>11. None # "this" /\ None # "super"
  BY DEF None
<1> DEFINE single == v.assoc = None /\ Len(v.parts) = 1 /\ ~e.init
           qualified == v.assoc = None /\ Len(v.parts) > 1
<1>12. single => ~qualified
  BY <1>1
<1>13. NameValue(v, e) =
            CASE v.assoc = "this" /\ ~e.init -> FieldVariable(v, Last(v.parts), e)
              [] v.assoc = "super" /\ ~e.init -> SuperFieldVariable(v, Last(v.parts), e)
              [] qualified -> QualifiedName(v)
              [] single -> SingleName(v, Head(v.parts), e)
              [] OTHER -> Hole(v, Result(Throws), Throws)
  BY DEF NameValue
<1>14. e.init = TRUE \/ e.init = FALSE
  BY <1>2
<1>15. CASE v.assoc = "this" /\ e.init = FALSE
  <2>1. ~single /\ ~qualified
    BY <1>11, <1>15
  <2> HIDE DEF single, qualified
  <2> QED BY <1>6, <1>13, <1>15, <2>1
<1>16. CASE v.assoc = "super" /\ e.init = FALSE
  <2>1. ~single /\ ~qualified
    BY <1>11, <1>16
  <2> HIDE DEF single, qualified
  <2> QED BY <1>10, <1>13, <1>16, <2>1
<1>17. CASE qualified
  <2>1. v.assoc # "this" /\ v.assoc # "super"
    BY <1>11, <1>17
  <2> HIDE DEF single, qualified
  <2> QED BY <1>8, <1>12, <1>13, <1>17, <2>1
<1>18. CASE single
  <2>1. v.assoc # "this" /\ v.assoc # "super"
    BY <1>11, <1>18
  <2> HIDE DEF single, qualified
  <2> QED BY <1>7, <1>12, <1>13, <1>18, <2>1
<1>19. CASE e.init = TRUE /\ ~qualified
  <2>1. ~single
    BY <1>19
  <2> HIDE DEF single, qualified
  <2> QED BY <1>9, <1>13, <1>19, <2>1
<1> QED
  BY <1>0, <1>1, <1>14, <1>15, <1>16, <1>17, <1>18, <1>19

-----------------------------------------------------------------------------
(* Values whose operands are given *)

\* resolve_value looks for values without a type: what was answered for has one.
LEMMA WithTypeIs ==
    ASSUME NEW v \in Values, NEW e, NEW r, Resolved(v, e, r)
    PROVE  Resolved(v, e, WithType(v, r))
<1>0. r.ok \in BOOLEAN /\ r.ended \in BOOLEAN
  BY DEF Resolved, Sane, Results
<1>1. ~(r.ok /\ ~r.ended /\ r.ty = Absent)
  <2>1. ~Known(Absent) /\ Absent # RangeType
    BY WorldAssumption, TypesAre DEF Known, IsPrimitive, IsCustom, Absent, NoTypes
  <2>2. Answered(r) => r.ty # Absent
    BY <2>1 DEF Resolved, Settled
  <2> QED
    BY <1>0, <2>2 DEF Answered
<1>2. WithType(v, r) = r
  BY <1>1 DEF WithType
<1> QED
  BY <1>2

LEMMA UnindexedIs ==
    ASSUME NEW e \in Environments
    PROVE  /\ Unindexed(e) \in Environments
           /\ \A r : Sane(Unindexed(e), r) => Sane(e, r)
           /\ \A v, r : Resolved(v, Unindexed(e), r) => Resolved(v, e, r)
<1>1. PICK f : f = Unindexed(e)
  OBVIOUS
<1>2. f \in Environments /\ f.chain = e.chain /\ f.at = e.at /\ f.init = e.init /\ f.idx = SizeMax
  BY <1>1, WorldAssumption DEF Unindexed, Environments
<1>3. Proper(e) => Proper(f)
  BY <1>2 DEF Proper
<1>4. \A r : Excused(f, r) => Excused(e, r)
  BY <1>2 DEF Excused
<1>5. \A r : Sane(f, r) => Sane(e, r)
  BY <1>3, <1>4 DEF Sane
<1>6. \A v, r : Resolved(v, f, r) => Resolved(v, e, r)
  BY <1>4, <1>5 DEF Resolved
<1> QED
  BY <1>1, <1>2, <1>5, <1>6

LEMMA WrappedIs ==
    ASSUME NEW t, NEW other
    PROVE  Wrapped(t, other) = t \/ (Wrapped(t, other) \in Types /\ Known(Wrapped(t, other)))
<1>1. Widens(t, other) => Type(other.base) \in Types /\ Known(Type(other.base))
  BY WorldAssumption, TypesAre, KnownAre DEF Widens
<1> QED
  BY <1>1 DEF Wrapped

LEMMA CompatibleFits ==
    ASSUME NEW got \in AllTypes, NEW want \in AllTypes, Compatible(got, want)
    PROVE  Fits(got, want) \/ ArrayOverlooked(got, want) \/ (~Known(want) /\ ~Known(got))
<1>1. got.dims \in Nat /\ want.dims \in Nat
  BY TypesAre
<1>2. CASE TypesMatch(got, want)
  BY <1>2 DEF TypesMatch, Fits
<1>3. CASE Widens(got, want) \/ PolyCasts(got, want)
  <2>1. CASE got.dims = 0 /\ want.dims = 0
    BY <1>3, <2>1 DEF Fits
  <2>2. CASE ~(got.dims = 0 /\ want.dims = 0)
    <3>1. got.dims + want.dims > 0
      BY <1>1, <2>2
    <3> QED
      BY <1>3, <3>1 DEF ArrayOverlooked
  <2> QED
    BY <2>1, <2>2
<1> QED
  BY <1>2, <1>3 DEF Compatible

LEMMA SameBaseFits ==
    ASSUME NEW got \in AllTypes, NEW want \in AllTypes, got.base = want.base
    PROVE  Fits(got, want) \/ ArrayOverlooked(got, want)
<1>1. got.dims \in Nat /\ want.dims \in Nat
  BY TypesAre
<1>2. CASE got.dims = 0 /\ want.dims = 0
  <2>1. got = want
    BY <1>2, TypesAre
  <2> QED
    BY <2>1 DEF Fits
<1>3. CASE ~(got.dims = 0 /\ want.dims = 0)
  <2>1. got.dims + want.dims > 0
    BY <1>1, <1>3
  <2> QED
    BY <2>1 DEF ArrayOverlooked
<1> QED
  BY <1>2, <1>3

LEMMA MessagesAre ==
    /\ "no such type" \in Messages /\ "no such symbol" \in Messages /\ "no such method" \in Messages
    /\ "not an array" \in Messages /\ "not an index" \in Messages /\ "not a condition" \in Messages
    /\ "not a collection" \in Messages /\ "arguments mismatch" \in Messages
    /\ "operands mismatch" \in Messages /\ "return mismatch" \in Messages /\ "invalid cast" \in Messages
    /\ "non-static call" \in Messages /\ "undeclared sin" \in Messages
    /\ "initialised per object" \in Messages
BY DEF Messages

LEMMA PlacesAre ==
    /\ "receiver" \in Places /\ "this" \in Places /\ "implicit this" \in Places /\ "argument" \in Places
    /\ "index" \in Places /\ "assign" \in Places /\ "element" \in Places /\ "condition" \in Places
    /\ "iterate" \in Places /\ "return" \in Places /\ "initializer" \in Places
BY DEF Places

LEMMA OverlookedIs ==
    ASSUME NEW want, NEW got, NEW how, NEW p, p = [want |-> want, got |-> got, how |-> how]
    PROVE  Overlooked(p) <=> \/ ArrayOverlooked(got, want)
                             \/ how \in {"initializer", "iterate", "implicit this"}
                             \/ how = "element" /\ Widens(want, got)
                             \/ how = "assign" /\ ~Known(want) /\ ~Known(got)
BY DEF Overlooked

LEMMA BinaryIs ==
    ASSUME NEW v \in Values, v.k = "binary", NEW e, NEW l, NEW r, Resolved(v.l, e, l), Resolved(v.r, e, r)
    PROVE  Resolved(v, e, BinaryValue(v, l, r))
<1>0. /\ Sane(e, l) /\ Sane(e, r) /\ l.ty \in AllTypes
      /\ (Answered(l) => Settled(l.ty)) /\ (l.ty \in {Absent, Throws} => Excused(e, l))
  BY DEF Resolved, Sane, Results
<1> DEFINE left == Wrapped(l.ty, r.ty)
           right == WrappedRight(r.ty, l.ty)
<1>1. PICK both : both = Both(l, r)
  OBVIOUS
<1>2. Sane(e, both) /\ (Excused(e, l) => Excused(e, both)) /\ (Answered(both) => Answered(l))
  BY <1>0, <1>1, BothIs
<1> DEFINE cond == both.ok /\ ~TypesMatch(left, right)
           ty == IF v.op = "boolean" THEN Type("boolean") ELSE IF both.ok THEN left ELSE l.ty
<1>3. PICK a : a = ReportIf(cond, both, "operands mismatch")
  OBVIOUS
<1>4. Sane(e, a) /\ (Excused(e, both) => Excused(e, a)) /\ (Answered(a) => Answered(both))
  <2> HIDE DEF cond
  <2> QED BY <1>2, <1>3, ReportIfIs, MessagesAre
<1>5. ty \in AllTypes /\ (ty = l.ty \/ (ty \notin {Throws, Absent} /\ Known(ty)))
  <2>1. left = l.ty \/ (left \in Types /\ Known(left))
    BY WrappedIs
  <2> HIDE DEF left
  <2> QED
    BY <1>0, <2>1, TypesAre, KnownAre
<1>6. PICK q : q = Typed(a, ty)
  OBVIOUS
<1>7. BinaryValue(v, l, r) = q
  BY <1>1, <1>3, <1>6 DEF BinaryValue
<1> HIDE DEF ty
<1>8. Sane(e, q) /\ q.ty = ty /\ (Excused(e, a) => Excused(e, q)) /\ (Answered(q) => Answered(a))
  BY <1>4, <1>5, <1>6, TypedIs
<1>9. /\ q.ty \in {Absent, Throws} => Excused(e, q)
      /\ Answered(q) => Settled(q.ty)
  BY <1>0, <1>2, <1>4, <1>5, <1>8 DEF Settled
<1>10. Resolved(v, e, q)
  BY <1>8, <1>9 DEF Resolved
<1> QED
  BY <1>7, <1>10

LEMMA TypedResolved ==
    ASSUME NEW v, NEW e, NEW r, Sane(e, r), NEW ty \in Types, Answered(r) => Known(ty)
    PROVE  Resolved(v, e, Typed(r, ty))
<1>1. PICK q : q = Typed(r, ty)
  OBVIOUS
<1>2. ty \in AllTypes /\ ty # Absent /\ ty # Throws
  BY TypesAre
<1>3. Sane(e, q) /\ q.ty = ty /\ (Answered(q) => Known(ty))
  BY <1>1, <1>2, TypedIs
<1>4. Resolved(v, e, q)
  BY <1>2, <1>3 DEF Resolved, Settled
<1> QED
  BY <1>1, <1>4

LEMMA LengthIs ==
    ASSUME NEW v, NEW e, NEW c, Sane(e, c)
    PROVE  Resolved(v, e, LengthValue(c))
<1>1. PICK a : a = ReportIf(c.ok /\ c.ty.dims = 0, c, "not an array")
  OBVIOUS
<1>2. Sane(e, a)
  BY <1>1, ReportIfIs, MessagesAre
<1>3. Type("int") \in Types /\ Known(Type("int"))
  BY TypesAre, KnownAre
<1> QED
  BY <1>1, <1>2, <1>3, TypedResolved DEF LengthValue

LEMMA IndexIs ==
    ASSUME NEW e, NEW i, Sane(e, i)
    PROVE  Sane(e, IndexValue(i)) /\ (Excused(e, i) => Excused(e, IndexValue(i)))
<1>0. i.ok \in BOOLEAN /\ i.ty \in AllTypes
  BY DEF Sane, Results
<1>1. CASE i.ok
  <2> DEFINE cond == i.ty.base # "int"
  <2>1. PICK a : a = ReportIf(cond, i, "not an index")
    OBVIOUS
  <2>2. Sane(e, a) /\ (Excused(e, i) => Excused(e, a)) /\ (Clean(a) => ~cond)
    <3> HIDE DEF cond
    <3> QED BY <2>1, ReportIfIs, MessagesAre
  <2>3. PICK int : int = Type("int")
    OBVIOUS
  <2>4. int \in AllTypes /\ int.base = "int"
    BY <2>3, TypesAre
  <2>5. ~cond => Fits(i.ty, int) \/ ArrayOverlooked(i.ty, int)
    BY <1>0, <2>4, SameBaseFits
  <2>6. Clean(a) => Fits(i.ty, int) \/ Overlooked([want |-> int, got |-> i.ty, how |-> "index"])
    BY <2>2, <2>5, OverlookedIs
  <2>7. PICK q : q = Put(a, int, i.ty, "index")
    OBVIOUS
  <2>8. Sane(e, q) /\ (Excused(e, a) => Excused(e, q))
    BY <1>0, <2>2, <2>4, <2>6, <2>7, PutIs, PlacesAre
  <2>9. IndexValue(i) = q
    BY <1>1, <2>1, <2>3, <2>7 DEF IndexValue
  <2> QED
    BY <2>2, <2>8, <2>9
<1>2. CASE ~i.ok
  BY <1>2 DEF IndexValue
<1> QED
  BY <1>1, <1>2


LEMMA AccessIs ==
    ASSUME NEW v \in Values, v.k = "access", NEW e, NEW a, NEW i, Resolved(v.a, e, a), Sane(e, i)
    PROVE  Resolved(v, e, AccessValue(v, a, i))
<1>0. /\ Sane(e, a) /\ (Answered(a) => Settled(a.ty))
      /\ a.ok \in BOOLEAN /\ a.ended \in BOOLEAN /\ a.ty \in AllTypes /\ v \in Nodes
  BY DEF Resolved, Sane, Results, Nodes
<1>1. CASE a.ok /\ a.ty.dims > 0
  <2>1. PICK c : c = IndexValue(i)
    OBVIOUS
  <2>2. PICK both : both = Both(a, c)
    OBVIOUS
  <2>3. Sane(e, both) /\ (Answered(both) => Answered(a))
    BY <1>0, <2>1, <2>2, IndexIs, BothIs
  <2>4. PICK ty : ty = [a.ty EXCEPT !.dims = @ - 1]
    OBVIOUS
  <2>5. a.ty \in Types /\ a.ty.dims \in Nat /\ a.ty.dims > 0 /\ a.ty # RangeType
    BY <1>0, <1>1, TypesAre
  <2>6. \A n \in Nat : n > 0 => n - 1 \in Nat
    OBVIOUS
  <2>7. ty \in Types /\ ty.base = a.ty.base
    BY <2>4, <2>5, <2>6 DEF Types
  <2>8. Answered(both) => Known(ty)
    BY <1>0, <2>3, <2>5, <2>7, KnownAre DEF Settled
  <2>9. AccessValue(v, a, i) = Typed(both, ty)
    BY <1>1, <2>1, <2>2, <2>4 DEF AccessValue
  <2> QED
    BY <2>3, <2>7, <2>8, <2>9, TypedResolved
<1>2. CASE ~(a.ok /\ a.ty.dims > 0)
  <2>1. PICK b : b = ReportIf(a.ok, a, "not an array")
    OBVIOUS
  <2>2. Sane(e, b) /\ (Excused(e, a) => Excused(e, b)) /\ (b.ok => a.ok /\ (~a.ended => ~a.ok))
    BY <1>0, <2>1, ReportIfIs, MessagesAre
  <2>3. Excused(e, b)
    <3>1. CASE ~a.ok \/ a.ended
      BY <1>0, <2>2, <3>1 DEF Sane, Failing
    <3>2. CASE a.ok /\ ~a.ended
      <4>1. ~b.ok
        BY <2>2, <3>2
      <4> QED
        BY <2>2, <4>1 DEF Sane, Failing, Results
    <3> QED
      BY <3>1, <3>2
  <2>4. PICK both : both = Both(b, i)
    OBVIOUS
  <2>5. Sane(e, both) /\ Excused(e, both)
    BY <2>2, <2>3, <2>4, BothIs
  <2>6. PICK q : q = Hole(v, both, Absent)
    OBVIOUS
  <2>7. Sane(e, q) /\ ~q.ok /\ Excused(e, q) /\ ~Answered(q)
    BY <1>0, <2>5, <2>6, HoleIs, TypesAre
  <2>8. AccessValue(v, a, i) = q
    BY <1>2, <2>1, <2>4, <2>6 DEF AccessValue
  <2>9. Resolved(v, e, q)
    BY <2>7 DEF Resolved
  <2> QED
    BY <2>8, <2>9
<1> QED
  BY <1>1, <1>2

LEMMA CastIs ==
    ASSUME NEW v, v.t \in Types, NEW e, NEW c, Sane(e, c)
    PROVE  Resolved(v, e, CastValue(v, c))
<1>0. c.ok \in BOOLEAN
  BY DEF Sane, Results
<1> DEFINE unrelated == /\ IsCustom(c.ty) /\ IsCustom(v.t)
                        /\ ~Subtype(c.ty.base, v.t.base)
                        /\ ~Subtype(v.t.base, c.ty.base)
                        /\ {c.ty.base, v.t.base} \cap Interfaces = {}
           cond == IsPrimitive(c.ty) # IsPrimitive(v.t) \/ unrelated
<1>1. PICK a : a = IF ~c.ok THEN c
                   ELSE IF ~Known(v.t) THEN Report(c, "no such type")
                   ELSE ReportIf(cond, c, "invalid cast")
  OBVIOUS
<1>2. Sane(e, a) /\ (Answered(a) => Known(v.t))
  <2>1. ~c.ok => ~Answered(c)
    BY DEF Answered
  <2> HIDE DEF cond
  <2> QED BY <1>1, <2>1, ReportIs, ReportIfIs, MessagesAre
<1>3. CastValue(v, c) = Typed(a, v.t)
  BY <1>1 DEF CastValue
<1> QED
  BY <1>2, <1>3, TypedResolved

LEMMA NewArrayIs ==
    ASSUME NEW v, v.t \in Types, NEW e, NEW d, Sane(e, d)
    PROVE  Resolved(v, e, NewArrayValue(v, d))
<1>1. PICK i : i = IndexValue(d)
  OBVIOUS
<1>2. Sane(e, i)
  BY <1>1, IndexIs
<1> DEFINE cond == ~Known(Type(v.t.base))
<1>3. PICK a : a = ReportIf(cond, i, "no such type")
  OBVIOUS
<1>4. Sane(e, a) /\ (Answered(a) => ~cond)
  <2> HIDE DEF cond
  <2> QED BY <1>2, <1>3, ReportIfIs, MessagesAre
<1>5. Answered(a) => Known(v.t)
  <2>1. Type(v.t.base).base = v.t.base
    BY TypesAre
  <2> QED
    BY <1>4, <2>1, KnownAre
<1>6. NewArrayValue(v, d) = Typed(a, v.t)
  BY <1>1, <1>3 DEF NewArrayValue
<1> QED
  BY <1>4, <1>5, <1>6, TypedResolved

LEMMA RangeIs ==
    ASSUME NEW v, v.k = "range", NEW e, NEW l, NEW r, NEW s, Sane(e, l), Sane(e, r), Sane(e, s)
    PROVE  Resolved(v, e, Typed(Both(Both(l, r), s), RangeType))
<1>1. PICK a : a = Both(l, r)
  OBVIOUS
<1>2. PICK b : b = Both(a, s)
  OBVIOUS
<1>3. Sane(e, b)
  BY <1>1, <1>2, BothIs
<1>4. PICK q : q = Typed(b, RangeType)
  OBVIOUS
<1>5. Sane(e, q) /\ q.ty = RangeType
  BY <1>3, <1>4, TypedIs, TypesAre
<1>6. Resolved(v, e, q)
  BY <1>5, TypesAre DEF Resolved, Settled
<1> QED
  BY <1>1, <1>2, <1>4, <1>6

LEMMA LiteralIs ==
    ASSUME NEW v, v.k = "literal", v.t \in KnownTypes \cup {Type("null")}, NEW e
    PROVE  Resolved(v, e, Result(v.t))
<1>1. v.t \in AllTypes /\ Known(v.t)
  BY TypesAre, KnownAre
<1>2. v.t # Absent /\ v.t # Throws
  <2>1. Type("null") # Absent /\ Type("null") # Throws
    BY TypesAre DEF Absent, Throws
  <2> QED
    BY <2>1, TypesAre, KnownAre
<1>3. PICK q : q = Result(v.t)
  OBVIOUS
<1>4. Sane(e, q) /\ q.ty = v.t
  BY <1>1, <1>3, ResultIs
<1>5. Resolved(v, e, q)
  BY <1>1, <1>2, <1>4 DEF Resolved, Settled
<1> QED
  BY <1>3, <1>5

LEMMA UnaryIs ==
    ASSUME NEW v, v.k = "unary", NEW w, NEW e, NEW c, Resolved(w, e, c)
    PROVE  Resolved(v, e, c)
BY DEF Resolved

-----------------------------------------------------------------------------
(* One result after another *)

LEMMA InTurnUnfolds ==
    ASSUME NEW rs, NEW n \in Nat, n = Len(rs), \A i \in 1..n : rs[i] \in Results
    PROVE  \E upTo \in [0..n -> Results] :
              /\ \A i \in 0..n : upTo[i] = IF i = 0 THEN Result(Absent) ELSE Both(upTo[i - 1], rs[i])
              /\ InTurn(rs) = upTo[n]
<1> DEFINE Step(f, i) == IF i = 0 THEN Result(Absent) ELSE Both(f[i - 1], rs[i])
           F(f) == [i \in 0..n |-> Step(f, i)]
           V == Results
           C == 0..n
           D == [i \in C |-> i]
           G == [i \in C |-> [f \in [C -> V] |-> Step(f, i)]]
<1>1. Result(Absent) \in V
  BY ResultIs, TypesAre DEF Sane
<1>2. \A a, b \in V : Both(a, b) \in V
  BY DEF Both, Results
<1>3. \A i \in C : i # 0 => i - 1 \in C /\ i \in 1..n /\ i - 1 < i
  OBVIOUS
<1>4. \A f \in [C -> V], i \in C : Step(f, i) \in V
  <2> HIDE DEF V
  <2> QED BY <1>1, <1>2, <1>3
<1>5. Recursion(G, C, D, V)
  <2>1. D \in [C -> Nat] /\ V # {}
    BY <1>1
  <2>2. G \in [C -> [[C -> V] -> V]]
    <3> HIDE DEF Step, C, V
    <3> QED BY <1>4
  <2>3. Downward(G, C, D, V)
    <3> SUFFICES ASSUME NEW c \in C, NEW f \in [C -> V], NEW g \in [C -> V],
                        \A d \in C : D[d] < D[c] => f[d] = g[d]
                 PROVE  G[c][f] = G[c][g]
      BY DEF Downward
    <3>1. c # 0 => f[c - 1] = g[c - 1]
      <4> HIDE DEF V
      <4> QED BY <1>3
    <3>2. Step(f, c) = Step(g, c)
      BY <3>1
    <3> HIDE DEF Step, C, V
    <3> QED BY <3>2
  <2> HIDE DEF G, C, D, V
  <2> QED BY <2>1, <2>2, <2>3 DEF Recursion
<1>6. \E f \in [C -> V] : f = F(f)
  <2>1. HasSolution(G, C, V)
    <3> HIDE DEF G, C, D, V
    <3> QED BY <1>5, RecursionHolds
  <2>2. PICK f \in [C -> V] : \A c \in C : f[c] = G[c][f]
    <3> HIDE DEF G, C, V
    <3> QED BY <2>1 DEF HasSolution
  <2>3. \A c \in C : f[c] = Step(f, c)
    <3> HIDE DEF Step, C, V
    <3> QED BY <2>2
  <2>4. f = F(f)
    <3> HIDE DEF Step, V
    <3> QED BY <2>3
  <2> HIDE DEF F, C, V
  <2> QED BY <2>4
<1>7. PICK u : u = CHOOSE f : f = F(f)
  OBVIOUS
<1>8. u = F(u)
  <2> HIDE DEF F
  <2> QED BY <1>6, <1>7
<1>9. InTurn(rs) = u[n]
  BY <1>7 DEF InTurn
<1>10. \A i \in C : u[i] = Step(u, i)
  <2> HIDE DEF Step
  <2> QED BY <1>8
<1>11. \A i \in C : u[i] \in V
  <2> DEFINE T == {i \in C : u[i] \in V}
  <2>1. 0 \in T
    BY <1>1, <1>10
  <2>2. \A i \in 1..n : i - 1 \in T => i \in T
    <3> SUFFICES ASSUME NEW i \in 1..n, i - 1 \in T PROVE i \in T
      OBVIOUS
    <3>1. i \in C /\ u[i] = Both(u[i - 1], rs[i])
      BY <1>10
    <3>2. rs[i] \in V /\ u[i - 1] \in V
      OBVIOUS
    <3> HIDE DEF V
    <3> QED BY <1>2, <3>1, <3>2
  <2>3. \A i \in 0..n : i \in T
    <3> HIDE DEF T
    <3> QED BY <2>1, <2>2, UpToInduction
  <2> QED
    BY <2>3
<1>12. u \in [C -> V]
  <2>1. u = [i \in C |-> u[i]]
    <3> HIDE DEF Step
    <3> QED BY <1>8, <1>10
  <2> HIDE DEF C, V
  <2> QED BY <1>11, <2>1
<1> QED
  BY <1>9, <1>10, <1>12

LEMMA InTurnIs ==
    ASSUME NEW e, NEW rs, NEW n \in Nat, n = Len(rs), \A i \in 1..n : Sane(e, rs[i])
    PROVE  /\ Sane(e, InTurn(rs))
           /\ (\E i \in 1..n : Excused(e, rs[i])) => Excused(e, InTurn(rs))
<1>1. PICK upTo \in [0..n -> Results] :
              /\ \A i \in 0..n : upTo[i] = IF i = 0 THEN Result(Absent) ELSE Both(upTo[i - 1], rs[i])
              /\ InTurn(rs) = upTo[n]
  BY InTurnUnfolds DEF Sane
<1> DEFINE T == {i \in 0..n : /\ Sane(e, upTo[i])
                              /\ \A j \in 1..i : Excused(e, rs[j]) => Excused(e, upTo[i])}
<1>2. 0 \in T
  BY <1>1, ResultIs, TypesAre
<1>3. ASSUME NEW i \in 1..n, i - 1 \in T PROVE i \in T
  <2>1. i \in 0..n /\ upTo[i] = Both(upTo[i - 1], rs[i])
    BY <1>1
  <2>2. Sane(e, upTo[i - 1]) /\ Sane(e, rs[i])
    BY <1>3
  <2>3. /\ Sane(e, upTo[i]) /\ (Excused(e, upTo[i - 1]) => Excused(e, upTo[i]))
        /\ (Excused(e, rs[i]) => Excused(e, upTo[i]))
    BY <2>1, <2>2, BothIs
  <2>4. ASSUME NEW j \in 1..i, Excused(e, rs[j]) PROVE Excused(e, upTo[i])
    <3>1. j = i \/ j \in 1..(i - 1)
      OBVIOUS
    <3> QED
      BY <1>3, <2>3, <2>4, <3>1
  <2> QED
    BY <2>1, <2>3, <2>4
<1>4. n \in T
  <2>1. \A i \in 0..n : i \in T
    <3> HIDE DEF T
    <3> QED BY <1>2, <1>3, UpToInduction
  <2> HIDE DEF T
  <2> QED BY <2>1
<1> QED
  BY <1>1, <1>4


-----------------------------------------------------------------------------
(* Calls *)

\* What holds of a result that counts on an earlier one for a report.
Sound(e, r) ==
    /\ r \in Results
    /\ Clean(r) => r.puts \subseteq FitPuts
    /\ Clean(r) /\ Proper(e) => r.reads \subseteq FineReads

LEMMA BothSound ==
    ASSUME NEW e, NEW a, NEW b, Sane(e, a), Sound(e, b), Failing(b) => Excused(e, a) \/ Excused(e, b)
    PROVE  /\ Sane(e, Both(a, b))
           /\ Excused(e, a) => Excused(e, Both(a, b))
           /\ Excused(e, b) => Excused(e, Both(a, b))
<1>0. a.ended \in BOOLEAN /\ a.ok \in BOOLEAN /\ b.ok \in BOOLEAN
  BY DEF Sane, Sound, Results
<1>1. CASE a.ended = TRUE
  <2>1. Both(a, b) = a
    BY <1>1 DEF Both
  <2> QED
    BY <1>1, <2>1 DEF Sane, Failing
<1>2. CASE a.ended = FALSE
  <2>1. PICK r : r = Both(a, b)
    OBVIOUS
  <2>2. /\ r.ok = (a.ok /\ b.ok) /\ r.ty = b.ty /\ r.errs = a.errs \cup b.errs /\ r.ended = b.ended
        /\ r.holes = a.holes \cup b.holes /\ r.puts = a.puts \cup b.puts /\ r.reads = a.reads \cup b.reads
    BY <1>2, <2>1 DEF Both
  <2>3. r \in Results
    BY <1>2, <2>1 DEF Both, Sane, Sound, Results
  <2>4. (Told(a) \/ Told(b)) => Told(r)
    BY <2>2 DEF Told
  <2>5. Clean(r) => Clean(a) /\ Clean(b)
    BY <1>2, <2>2 DEF Clean
  <2>6. Failing(r) => Failing(a) \/ Failing(b)
    BY <1>0, <1>2, <2>2 DEF Failing
  <2>7. (Excused(e, a) \/ Excused(e, b)) => Excused(e, r)
    BY <2>4 DEF Excused
  <2>8. Sane(e, r)
    BY <2>2, <2>3, <2>5, <2>6, <2>7 DEF Sane, Sound
  <2> QED
    BY <2>1, <2>7, <2>8
<1> QED
  BY <1>0, <1>1, <1>2

LEMMA ArgumentsIs ==
    ASSUME NEW resolved, NEW v \in Values, v.k \in {"call", "new"}, v.args \in Seq(Values), NEW e,
           \A n \in DOMAIN v.args : Resolved(v.args[n], e, resolved[v.args[n]][e]),
           NEW args, args = ResolveEach(resolved, v.args, e)
    PROVE  /\ Sane(e, args.r) /\ args.tys \in Seq(AllTypes)
           /\ Absent \in Range(args.tys) => Excused(e, args.r)
<1>1. PICK rs : rs = [n \in DOMAIN v.args |-> resolved[v.args[n]][e]]
  OBVIOUS
<1>2. PICK n : n = Len(v.args)
  OBVIOUS
<1>3. n \in Nat /\ DOMAIN v.args = 1..n /\ DOMAIN rs = 1..n /\ n = Len(rs)
  BY <1>1, <1>2
<1>4. \A i \in 1..n : Resolved(v.args[i], e, rs[i])
  BY <1>1, <1>3
<1>5. \A i \in 1..n : Sane(e, rs[i])
  BY <1>4 DEF Resolved
<1>6. args.r = InTurn(rs) /\ args.tys = [i \in 1..n |-> rs[i].ty]
  <2>1. args.r = InTurn(rs) /\ args.tys = [i \in DOMAIN v.args |-> resolved[v.args[i]][e].ty]
    BY <1>1 DEF ResolveEach
  <2>2. [i \in DOMAIN v.args |-> resolved[v.args[i]][e].ty] = [i \in 1..n |-> rs[i].ty]
    BY <1>1, <1>3
  <2> QED
    BY <2>1, <2>2
<1>7. PICK r : r = InTurn(rs)
  OBVIOUS
<1>8. Sane(e, r) /\ ((\E i \in 1..n : Excused(e, rs[i])) => Excused(e, r))
  BY <1>3, <1>5, <1>7, InTurnIs
<1>9. args.tys \in Seq(AllTypes)
  <2>1. \A i \in 1..n : rs[i].ty \in AllTypes
    BY <1>5 DEF Sane, Results
  <2> QED
    BY <1>3, <1>6, <2>1
<1>10. ASSUME Absent \in Range(args.tys) PROVE Excused(e, r)
  <2>1. PICK i \in 1..n : rs[i].ty = Absent
    BY <1>6, <1>10 DEF Range
  <2>2. Excused(e, rs[i])
    BY <1>4, <2>1 DEF Resolved
  <2> QED
    BY <1>8, <2>2
<1> QED
  BY <1>6, <1>7, <1>8, <1>9, <1>10

LEMMA UndefinedIs ==
    ASSUME NEW e, NEW r, Sane(e, r), Excused(e, r)
    PROVE  Sane(e, Undefined(r, e)) /\ Excused(e, Undefined(r, e)) /\ Undefined(r, e).ty = r.ty
<1>1. CASE e.m.ub = "ends"
  <2>1. PICK q : q = [r EXCEPT !.ended = TRUE]
    OBVIOUS
  <2>2. /\ q \in Results /\ q.ok = r.ok /\ q.ty = r.ty /\ q.errs = r.errs /\ q.ended = TRUE
        /\ q.holes = r.holes /\ q.puts = r.puts /\ q.reads = r.reads
    BY <2>1 DEF Sane, Results
  <2>3. Excused(e, q)
    BY <2>2 DEF Excused, Told
  <2>4. Sane(e, q)
    BY <2>2, <2>3 DEF Sane, Clean
  <2>5. Undefined(r, e) = q
    BY <1>1, <2>1 DEF Undefined
  <2> QED
    BY <2>2, <2>3, <2>4, <2>5
<1>2. CASE e.m.ub # "ends"
  BY <1>2 DEF Undefined
<1> QED
  BY <1>1, <1>2

\* The type a call is looked up in, for a receiver that left rcv.
FoundIn(v, rcv, e, p) ==
    /\ p.cls \in Class \cup {None}
    /\ Sound(e, p.r)
    /\ Failing(p.r) \/ p.cls = None => Excused(e, rcv) \/ Excused(e, p.r)
    /\ v.k = "call" /\ v.assoc \in {"this", "super"} /\ p.cls # None =>
          p.cls = e.m.cls \/ Subtype(e.m.cls, p.cls)

LEMMA PlainParent ==
    ASSUME NEW v, NEW rcv, NEW e, NEW c \in Class,
           v.k = "call" /\ v.assoc \in {"this", "super"} => c = e.m.cls \/ Subtype(e.m.cls, c)
    PROVE  FoundIn(v, rcv, e, Parent(c))
<1>1. PICK p : p = Parent(c)
  OBVIOUS
<1>2. PICK r : r = Result(Absent)
  OBVIOUS
<1>3. p.cls = c /\ p.r = r
  BY <1>1, <1>2 DEF Parent
<1>4. Sane(e, r)
  BY <1>2, ResultIs, TypesAre
<1>5. Sound(e, r) /\ ~Failing(r)
  BY <1>2, <1>4 DEF Sane, Sound, Failing, Result
<1>6. c # None
  BY WorldAssumption
<1>7. FoundIn(v, rcv, e, p)
  BY <1>3, <1>5, <1>6 DEF FoundIn
<1> QED
  BY <1>1, <1>7

LEMMA WithoutParent ==
    ASSUME NEW v, NEW rcv, NEW e, NEW r, Sound(e, r), Excused(e, rcv) \/ Excused(e, r)
    PROVE  FoundIn(v, rcv, e, NoParent(r))
<1>1. PICK p : p = NoParent(r)
  OBVIOUS
<1>2. p.cls = None /\ p.r = r
  BY <1>1 DEF NoParent
<1>3. FoundIn(v, rcv, e, p)
  BY <1>2 DEF FoundIn
<1> QED
  BY <1>1, <1>3

LEMMA NotFound ==
    ASSUME NEW v, NEW rcv, NEW e
    PROVE  FoundIn(v, rcv, e, NoSuchType)
<1>1. PICK a : a = Result(Absent)
  OBVIOUS
<1>2. Sane(e, a)
  BY <1>1, ResultIs, TypesAre
<1>3. PICK r : r = Report(a, "no such type")
  OBVIOUS
<1>4. Sane(e, r) /\ Told(r)
  BY <1>2, <1>3, ReportIs, MessagesAre
<1>5. Sound(e, r) /\ Excused(e, r)
  BY <1>4 DEF Sane, Sound, Excused
<1>6. NoSuchType = NoParent(r)
  BY <1>1, <1>3 DEF NoSuchType
<1> QED
  BY <1>5, <1>6, WithoutParent

\* A receiver of a class's type is put where `this' is.
LEMMA ReceiverPut ==
    ASSUME NEW e, NEW a, Sane(e, a), ~Failing(a), NEW ty \in AllTypes, ty.base \in Class
    PROVE  /\ Sane(e, Put(a, Type(ty.base), ty, "receiver"))
           /\ ~Failing(Put(a, Type(ty.base), ty, "receiver"))
<1>1. PICK want : want = Type(ty.base)
  OBVIOUS
<1>2. want \in AllTypes /\ want.base = ty.base
  BY <1>1, TypesAre
<1>3. Fits(ty, want) \/ Overlooked([want |-> want, got |-> ty, how |-> "receiver"])
  BY <1>2, SameBaseFits, OverlookedIs
<1>4. PICK q : q = Put(a, want, ty, "receiver")
  OBVIOUS
<1>5. Sane(e, q)
  BY <1>2, <1>3, <1>4, PutIs, PlacesAre
<1>6. a \in Results
  BY DEF Sane
<1>7. q.ok = a.ok /\ q.ended = a.ended /\ q.holes = a.holes
  BY <1>4, <1>6 DEF Put, Results
<1>8. ~Failing(q)
  BY <1>7 DEF Failing
<1> QED
  BY <1>1, <1>4, <1>5, <1>8


LEMMA ExpressionParentIs ==
    ASSUME NEW v, v.assoc = "expr", NEW e, NEW rcv, Resolved(v.recv, e, rcv)
    PROVE  FoundIn(v, rcv, e, ExpressionParent(v, rcv, e))
<1>0. Sane(e, rcv) /\ rcv.ty \in AllTypes
  BY DEF Resolved, Sane, Results
<1>1. PICK a : a = Result(Absent)
  OBVIOUS
<1>2. Sane(e, a)
  BY <1>1, ResultIs, TypesAre
<1>3. ~Failing(a) /\ Sound(e, a)
  BY <1>1, <1>2 DEF Failing, Result, Sane, Sound
<1>4. CASE v.recv \in rcv.holes /\ v.recv.k \in {"name", "call", "new"}
  <2>1. Excused(e, rcv)
    BY <1>0, <1>4 DEF Sane, Failing
  <2>2. ExpressionParent(v, rcv, e) = NoParent(a)
    BY <1>1, <1>4 DEF ExpressionParent
  <2> QED
    BY <1>3, <2>1, <2>2, WithoutParent
<1>5. CASE ~(v.recv \in rcv.holes /\ v.recv.k \in {"name", "call", "new"}) /\ IsCustom(rcv.ty)
  <2>1. PICK q : q = Put(a, Type(rcv.ty.base), rcv.ty, "receiver")
    OBVIOUS
  <2>2. rcv.ty.base \in Class
    BY <1>5 DEF IsCustom
  <2>3. Sane(e, q) /\ ~Failing(q)
    BY <1>0, <1>2, <1>3, <2>1, <2>2, ReceiverPut
  <2>4. PICK p : p = [Parent(rcv.ty.base) EXCEPT !.r = q]
    OBVIOUS
  <2>5. p.cls = rcv.ty.base /\ p.r = q
    BY <2>4 DEF Parent
  <2>6. ExpressionParent(v, rcv, e) = p
    BY <1>1, <1>5, <2>1, <2>4 DEF ExpressionParent, Parent
  <2>7. None \notin Class
    BY WorldAssumption
  <2>8. FoundIn(v, rcv, e, p)
    BY <2>2, <2>3, <2>5, <2>7 DEF FoundIn, Sane, Sound
  <2> QED
    BY <2>6, <2>8
<1>6. CASE /\ ~(v.recv \in rcv.holes /\ v.recv.k \in {"name", "call", "new"}) /\ ~IsCustom(rcv.ty)
           /\ rcv.ty = Throws
  <2>1. PICK r : r = [a EXCEPT !.ended = TRUE]
    OBVIOUS
  <2>2. /\ r \in Results /\ r.errs = a.errs /\ r.ended = TRUE /\ r.holes = a.holes
        /\ r.puts = a.puts /\ r.reads = a.reads
    BY <1>3, <2>1 DEF Sound, Results
  <2>3. Sound(e, r)
    BY <1>3, <2>2 DEF Sound, Clean
  <2>4. Excused(e, rcv)
    BY <1>6 DEF Resolved
  <2>5. ExpressionParent(v, rcv, e) = NoParent(r)
    BY <1>1, <1>6, <2>1 DEF ExpressionParent
  <2> QED
    BY <2>3, <2>4, <2>5, WithoutParent
<1>7. CASE /\ ~(v.recv \in rcv.holes /\ v.recv.k \in {"name", "call", "new"}) /\ ~IsCustom(rcv.ty)
           /\ rcv.ty # Throws /\ rcv.ty = Absent
  <2>1. PICK r : r = Report(a, "no such type")
    OBVIOUS
  <2>2. Sane(e, r) /\ Excused(e, r)
    BY <1>2, <2>1, ReportIs, MessagesAre DEF Excused
  <2>3. PICK q : q = Undefined(r, e)
    OBVIOUS
  <2>4. Sane(e, q) /\ Excused(e, q)
    BY <2>2, <2>3, UndefinedIs
  <2>5. ExpressionParent(v, rcv, e) = NoParent(q)
    BY <1>1, <1>7, <2>1, <2>3 DEF ExpressionParent
  <2>6. Sound(e, q)
    BY <2>4 DEF Sane, Sound
  <2> QED
    BY <2>4, <2>5, <2>6, WithoutParent
<1>8. CASE /\ ~(v.recv \in rcv.holes /\ v.recv.k \in {"name", "call", "new"}) /\ ~IsCustom(rcv.ty)
           /\ rcv.ty # Throws /\ rcv.ty # Absent
  <2>1. ExpressionParent(v, rcv, e) = NoSuchType
    BY <1>8 DEF ExpressionParent
  <2> QED
    BY <2>1, NotFound
<1> QED
  BY <1>4, <1>5, <1>6, <1>7, <1>8

LEMMA ReceiverVariableIs ==
    ASSUME NEW x, NEW e \in Environments
    PROVE  Sane(e, ReceiverVariable(x, e)) /\ ~Failing(ReceiverVariable(x, e))
<1>0. e.init \in BOOLEAN /\ e.m.cls \in Class /\ e.at \in Seq(Nat)
  BY EnvironmentIs
<1>1. PICK a : a = Result(Absent)
  OBVIOUS
<1>2. Sane(e, a) /\ ~Failing(a)
  BY <1>1, ResultIs, TypesAre DEF Failing, Result
<1> DEFINE level == LevelOf(e.chain, x)
           fields == World[e.m.cls].fields
<1>3. CASE e.init
  BY <1>1, <1>2, <1>3 DEF ReceiverVariable
<1>4. CASE ~e.init /\ level # 0
  <2>1. PICK local : local = FirstOf(e.chain[level], x)
    OBVIOUS
  <2>2. local \in Variables
    BY <1>4, <2>1, LocalIs
  <2>3. local.type \in AllTypes /\ local.at \in Seq(Nat)
    BY <2>2, TypesAre DEF Variables
  <2>4. PICK b : b = Result(local.type)
    OBVIOUS
  <2>5. b \in Results
    BY <2>3, <2>4, ResultIs DEF Sane
  <2>6. PICK read : read = [decl |-> local.at, at |-> e.at, how |-> "receiver"]
    OBVIOUS
  <2>7. read \in FineReads
    BY <1>0, <2>3, <2>6, PlacesAre DEF FineReads, Reads
  <2>8. PICK q : q = [b EXCEPT !.reads = {read}]
    OBVIOUS
  <2>9. /\ q \in Results /\ q.ok = TRUE /\ q.errs = {} /\ q.ended = FALSE /\ q.holes = {} /\ q.puts = {}
        /\ q.reads = {read}
    <3>1. b.ok = TRUE /\ b.errs = {} /\ b.ended = FALSE /\ b.holes = {} /\ b.puts = {}
      BY <2>4 DEF Result
    <3>2. {read} \subseteq Reads
      BY <2>7 DEF FineReads
    <3> QED
      BY <2>5, <2>8, <3>1, <3>2 DEF Results
  <2>10. Sane(e, q) /\ ~Failing(q)
    BY <2>7, <2>9 DEF Sane, Failing
  <2>11. ReceiverVariable(x, e) = q
    BY <1>4, <2>1, <2>4, <2>6, <2>8 DEF ReceiverVariable, Read
  <2> QED
    BY <2>10, <2>11
<1>5. CASE ~e.init /\ level = 0 /\ x \in DOMAIN fields
  <2>1. PICK ty : ty = fields[x].type
    OBVIOUS
  <2>2. ty \in AllTypes
    BY <1>0, <1>5, <2>1, ClassIs, TypesAre
  <2>3. PICK b : b = Result(ty)
    OBVIOUS
  <2>4. Sane(e, b) /\ ~Failing(b)
    BY <2>2, <2>3, ResultIs DEF Failing, Result
  <2>5. ReceiverVariable(x, e) = b
    BY <1>5, <2>1, <2>3 DEF ReceiverVariable
  <2> QED
    BY <2>4, <2>5
<1>6. CASE ~e.init /\ level = 0 /\ x \notin DOMAIN fields
  BY <1>1, <1>2, <1>6 DEF ReceiverVariable
<1> QED
  BY <1>3, <1>4, <1>5, <1>6

LEMMA QualifiedParentIs ==
    ASSUME NEW v, v.assoc \notin {"this", "super"}, NEW e \in Environments, NEW before
    PROVE  FoundIn(v, before, e, QualifiedParent(v, e))
<1>1. PICK rcv : rcv = ReceiverVariable(Head(v.parts), e)
  OBVIOUS
<1>2. Sane(e, rcv) /\ ~Failing(rcv)
  BY <1>1, ReceiverVariableIs
<1>3. rcv.ty \in AllTypes
  BY <1>2 DEF Sane, Results
<1>4. CASE IsCustom(rcv.ty)
  <2>1. PICK q : q = Put(rcv, Type(rcv.ty.base), rcv.ty, "receiver")
    OBVIOUS
  <2>2. rcv.ty.base \in Class
    BY <1>4 DEF IsCustom
  <2>3. Sane(e, q) /\ ~Failing(q)
    BY <1>2, <1>3, <2>1, <2>2, ReceiverPut
  <2>4. PICK p : p = [cls |-> rcv.ty.base, var |-> TRUE, r |-> q]
    OBVIOUS
  <2>5. p.cls = rcv.ty.base /\ p.r = q
    BY <2>4
  <2>6. QualifiedParent(v, e) = p
    BY <1>1, <1>4, <2>1, <2>4 DEF QualifiedParent
  <2>7. None \notin Class
    BY WorldAssumption
  <2>8. FoundIn(v, before, e, p)
    BY <2>2, <2>3, <2>5, <2>7 DEF FoundIn, Sane, Sound
  <2> QED
    BY <2>6, <2>8
<1>5. CASE ~IsCustom(rcv.ty) /\ Front(v.parts) \notin DOMAIN Imported
  <2>1. QualifiedParent(v, e) = NoSuchType
    BY <1>1, <1>5 DEF QualifiedParent
  <2> QED
    BY <2>1, NotFound
<1>6. CASE ~IsCustom(rcv.ty) /\ Front(v.parts) \in DOMAIN Imported
  <2>1. PICK found : found = Imported[Front(v.parts)]
    OBVIOUS
  <2>2. CASE ~IsCustom(found.type)
    <3>1. QualifiedParent(v, e) = NoSuchType
      BY <1>1, <1>6, <2>1, <2>2 DEF QualifiedParent
    <3> QED
      BY <3>1, NotFound
  <2>3. CASE IsCustom(found.type)
    <3>1. PICK c \in Class : c = found.type.base
      BY <2>3 DEF IsCustom
    <3>2. PICK o : o = Parent(c)
      OBVIOUS
    <3>3. FoundIn(v, before, e, o)
      BY <3>2, PlainParent
    <3>4. PICK p : p = [o EXCEPT !.var = found.kind = "field"]
      OBVIOUS
    <3>5. p.cls = o.cls /\ p.r = o.r
      BY <3>2, <3>4 DEF Parent
    <3>6. FoundIn(v, before, e, p)
      BY <3>3, <3>5 DEF FoundIn
    <3>7. QualifiedParent(v, e) = p
      BY <1>1, <1>6, <2>1, <2>3, <3>1, <3>2, <3>4 DEF QualifiedParent
    <3> QED
      BY <3>6, <3>7
  <2> QED
    BY <2>2, <2>3
<1> QED
  BY <1>4, <1>5, <1>6

LEMMA SuperIsAbove ==
    ASSUME NEW c \in Class, World[c].super # None
    PROVE  World[c].super \in Class /\ Subtype(c, World[c].super)
<1>1. World[c].super \in Class
  BY ClassIs
<1>2. World[c].super \in SuperTypes(c)
  BY DEF SuperTypes
<1>3. Subtype(c, World[c].super)
  BY <1>2 DEF Subtype
<1> QED
  BY <1>1, <1>3


LEMMA ParentTypeIs ==
    ASSUME NEW v, v.k \in {"call", "new"}, NEW e \in Environments, NEW rcv,
           v.k = "call" /\ v.assoc = "expr" => Resolved(v.recv, e, rcv)
    PROVE  FoundIn(v, rcv, e, ParentType(v, rcv, e))
<1>0. e.init \in BOOLEAN /\ e.m.cls \in Class
  BY EnvironmentIs
<1>1. PICK a : a = Result(Absent)
  OBVIOUS
<1>2. Sane(e, a)
  BY <1>1, ResultIs, TypesAre
<1>3. e.init = TRUE => FoundIn(v, rcv, e, NoParent(a))
  <2>1. Sound(e, a)
    BY <1>2 DEF Sane, Sound
  <2> QED
    BY <2>1, WithoutParent DEF Excused
<1>4. CASE v.k = "new"
  <2>1. ParentType(v, rcv, e) = IF v.cls \in Class THEN Parent(v.cls) ELSE NoSuchType
    BY <1>4 DEF ParentType
  <2> QED
    BY <1>4, <2>1, NotFound, PlainParent
<1>5. CASE v.k = "call" /\ v.assoc = "expr"
  <2>1. ParentType(v, rcv, e) = ExpressionParent(v, rcv, e)
    BY <1>5 DEF ParentType
  <2> QED
    BY <1>5, <2>1, ExpressionParentIs
<1>6. CASE v.k = "call" /\ v.assoc = "super"
  <2>1. ParentType(v, rcv, e) =
            IF e.init THEN NoParent(a)
            ELSE IF World[e.m.cls].super = None THEN NoSuchType
            ELSE Parent(World[e.m.cls].super)
    BY <1>1, <1>6 DEF ParentType
  <2>2. CASE e.init
    BY <1>0, <1>3, <2>1, <2>2
  <2>3. CASE ~e.init /\ World[e.m.cls].super = None
    BY <2>1, <2>3, NotFound
  <2>4. CASE ~e.init /\ World[e.m.cls].super # None
    <3>1. PICK c : c = World[e.m.cls].super
      OBVIOUS
    <3>2. c \in Class /\ Subtype(e.m.cls, c)
      BY <1>0, <2>4, <3>1, SuperIsAbove
    <3>3. FoundIn(v, rcv, e, Parent(c))
      BY <3>2, PlainParent
    <3> QED
      BY <2>1, <2>4, <3>1, <3>3
  <2> QED
    BY <2>2, <2>3, <2>4
<1> DEFINE near == (v.assoc = "this" \/ Len(v.parts) = 1) /\ v.assoc \notin {"expr", "super"}
<1>7. CASE v.k = "call" /\ near
  <2>1. ParentType(v, rcv, e) = IF e.init THEN NoParent(a) ELSE Parent(e.m.cls)
    BY <1>1, <1>7 DEF ParentType
  <2>2. FoundIn(v, rcv, e, Parent(e.m.cls))
    BY <1>0, PlainParent
  <2> QED
    BY <1>0, <1>3, <2>1, <2>2
<1>8. CASE v.k = "call" /\ v.assoc \notin {"expr", "super"} /\ ~near
  <2>1. ParentType(v, rcv, e) = QualifiedParent(v, e)
    BY <1>8 DEF ParentType
  <2>2. v.assoc \notin {"this", "super"}
    BY <1>8
  <2> QED
    BY <2>1, <2>2, QualifiedParentIs
<1>9. v.k = "call" \/ v.k = "new"
  OBVIOUS
<1> HIDE DEF near
<1> QED
  BY <1>4, <1>5, <1>6, <1>7, <1>8, <1>9

LEMMA OverloadsAre ==
    ASSUME NEW c, NEW name
    PROVE  Overloads(c, name) \in Seq(Methods)
<1> DEFINE found == {d \in Searched(c, name) : Has(d, name)}
           d == CHOOSE b \in found : TRUE
<1>1. \A b \in found : b \in Class /\ name \in DOMAIN World[b].methods
  BY DEF Searched, Climbed, Has
<1>2. \A b \in found : World[b].methods[name] \in Seq(Methods)
  <2> HIDE DEF found
  <2> QED BY <1>1, ClassIs
<1>3. Overloads(c, name) = IF found = {} THEN <<>> ELSE World[d].methods[name]
  BY DEF Overloads
<1>4. found # {} => d \in found
  <2> HIDE DEF found
  <2> QED OBVIOUS
<1> HIDE DEF found, d
<1> QED
  BY <1>2, <1>3, <1>4

LEMMA InOrderIs ==
    ASSUME NEW e, NEW s \in Seq(Methods)
    PROVE  InOrder(s, e) \in Seq(Methods)
<1>1. Reverse(s) \in Seq(Methods)
  <2>1. \A i \in 1..Len(s) : Len(s) - i + 1 \in 1..Len(s)
    OBVIOUS
  <2>2. \A i \in 1..Len(s) : s[Len(s) - i + 1] \in Methods
    BY <2>1
  <2> QED
    BY <2>2 DEF Reverse
<1> QED
  BY <1>1 DEF InOrder

LEMMA ChosenIs ==
    ASSUME NEW overloads \in Seq(Methods), NEW tys, NEW n, n = ChosenOverload(overloads, tys), n # 0
    PROVE  n \in DOMAIN overloads /\ ArgsMatch(tys, overloads[n].params, TRUE)
<1> DEFINE takes(w) == {i \in DOMAIN overloads : ArgsMatch(tys, overloads[i].params, w)}
<1>1. n = IF takes(FALSE) # {} THEN Min(takes(FALSE))
          ELSE IF takes(TRUE) # {} THEN Min(takes(TRUE)) ELSE 0
  BY DEF ChosenOverload
<1>2. \A w : takes(w) \in SUBSET Nat
  OBVIOUS
<1>3. n \in takes(FALSE) \/ n \in takes(TRUE)
  <2> HIDE DEF takes
  <2> QED BY <1>1, <1>2, MinIs
<1> QED
  BY <1>3 DEF ArgsMatch

LEMMA ArgumentFits ==
    ASSUME NEW tys \in Seq(AllTypes), NEW params \in Seq(KnownTypes), ArgsMatch(tys, params, TRUE),
           NEW i \in DOMAIN tys
    PROVE  [want |-> params[i], got |-> tys[i], how |-> "argument"] \in FitPuts
<1>1. i \in DOMAIN params
  BY DEF ArgsMatch
<1>2. tys[i] \in AllTypes /\ params[i] \in AllTypes /\ Known(params[i])
  BY <1>1, TypesAre, KnownAre
<1>3. Compatible(tys[i], params[i])
  BY DEF ArgsMatch, Compatible
<1>4. Fits(tys[i], params[i]) \/ ArrayOverlooked(tys[i], params[i])
  BY <1>2, <1>3, CompatibleFits
<1>5. PICK p : p = [want |-> params[i], got |-> tys[i], how |-> "argument"]
  OBVIOUS
<1>6. p \in Puts
  BY <1>2, <1>5, PlacesAre DEF Puts
<1>7. Fits(p.got, p.want) \/ Overlooked(p)
  <2>1. ArrayOverlooked(tys[i], params[i]) => Overlooked(p)
    BY <1>5, OverlookedIs
  <2>2. p.got = tys[i] /\ p.want = params[i]
    BY <1>5
  <2> QED
    BY <1>4, <2>1, <2>2
<1> QED
  BY <1>5, <1>6, <1>7 DEF FitPuts

LEMMA ImplicitThisIs ==
    ASSUME NEW v \in Nodes, v.k = "call", v.assoc # "expr", v.assoc \in {None, "this", "super", "expr"},
           NEW e \in Environments, NEW r, Sane(e, r), NEW parent,
           parent.cls \in Class,
           v.assoc \in {"this", "super"} => parent.cls = e.m.cls \/ Subtype(e.m.cls, parent.cls)
    PROVE  Sane(e, ImplicitThis(v, r, parent, e)) /\ ImplicitThis(v, r, parent, e).ty = r.ty
<1>0. e.init \in BOOLEAN /\ e.m.cls \in Class /\ e.m.static \in BOOLEAN
  BY EnvironmentIs
<1>1. CASE e.init
  <2>1. PICK a : a = [r EXCEPT !.holes = {v}]
    OBVIOUS
  <2>2. /\ a \in Results /\ a.ok = r.ok /\ a.ty = r.ty /\ a.errs = r.errs /\ a.ended = r.ended
        /\ a.puts = r.puts /\ a.reads = r.reads
    BY <2>1 DEF Sane, Results
  <2>3. Excused(e, a)
    BY <1>0, <1>1 DEF Excused
  <2>4. Sane(e, a)
    BY <2>2, <2>3 DEF Sane, Clean
  <2>5. PICK q : q = Undefined(a, e)
    OBVIOUS
  <2>6. Sane(e, q) /\ q.ty = a.ty
    BY <2>3, <2>4, <2>5, UndefinedIs
  <2>7. ImplicitThis(v, r, parent, e) = q
    BY <1>1, <2>1, <2>5 DEF ImplicitThis
  <2> QED
    BY <2>2, <2>6, <2>7
<1>2. CASE ~e.init /\ e.m.static
  <2>1. PICK q : q = Report(r, "non-static call")
    OBVIOUS
  <2>2. Sane(e, q) /\ q.ty = r.ty
    BY <2>1, ReportIs, MessagesAre
  <2>3. ImplicitThis(v, r, parent, e) = q
    BY <1>2, <2>1 DEF ImplicitThis
  <2> QED
    BY <2>2, <2>3
<1>3. CASE ~e.init /\ ~e.m.static
  <2>1. PICK want : want = Type(parent.cls)
    OBVIOUS
  <2>2. PICK got : got = Type(e.m.cls)
    OBVIOUS
  <2>3. want \in AllTypes /\ want.base = parent.cls /\ want.dims = 0
    BY <2>1, TypesAre
  <2>4. got \in AllTypes /\ got.base = e.m.cls /\ got.dims = 0
    BY <1>0, <2>2, TypesAre
  <2>5. PICK how : how = IF v.assoc = None THEN "implicit this" ELSE "this"
    OBVIOUS
  <2>6. how \in Places
    BY <2>5, PlacesAre
  <2>7. v.assoc # None => Fits(got, want)
    <3> SUFFICES ASSUME v.assoc # None PROVE Fits(got, want)
      OBVIOUS
    <3>1. parent.cls = e.m.cls \/ Subtype(e.m.cls, parent.cls)
      OBVIOUS
    <3>2. CASE parent.cls = e.m.cls
      BY <2>1, <2>2, <3>2 DEF Fits
    <3>3. CASE Subtype(e.m.cls, parent.cls)
      <4>1. PolyCasts(got, want)
        BY <1>0, <2>3, <2>4, <3>3 DEF PolyCasts, IsCustom
      <4> QED
        BY <2>3, <2>4, <4>1 DEF Fits
    <3> QED
      BY <3>1, <3>2, <3>3
  <2>8. Fits(got, want) \/ Overlooked([want |-> want, got |-> got, how |-> how])
    BY <2>5, <2>7, OverlookedIs
  <2>9. PICK q : q = Put(r, want, got, how)
    OBVIOUS
  <2>10. Sane(e, q) /\ q.ty = r.ty
    BY <2>3, <2>4, <2>6, <2>8, <2>9, PutIs
  <2>11. ImplicitThis(v, r, parent, e) = q
    BY <1>3, <2>1, <2>2, <2>5, <2>9 DEF ImplicitThis
  <2> QED
    BY <2>10, <2>11
<1> QED
  BY <1>1, <1>2, <1>3


LEMMA SinsAre ==
    ASSUME NEW e, NEW r, Sane(e, r), NEW m
    PROVE  Sane(e, SinsDeclared(m, r, e)) /\ SinsDeclared(m, r, e).ty = r.ty
<1> DEFINE cond == ~e.init /\ ~(m.sins \subseteq e.m.sins)
<1>0. PICK err \in Messages : err = "undeclared sin"
  BY MessagesAre
<1>1. PICK s : s = ReportIf(cond, r, err)
  OBVIOUS
<1>2. Sane(e, s) /\ s.ty = r.ty
  <2> HIDE DEF cond
  <2> QED BY <1>1, ReportIfIs
<1>3. SinsDeclared(m, r, e) = s
  BY <1>0, <1>1 DEF SinsDeclared
<1> QED
  BY <1>2, <1>3

LEMMA PostResolveIs ==
    ASSUME NEW v \in Nodes, v.k \in {"call", "new"},
           v.k = "call" => v.assoc \in {None, "this", "super", "expr"},
           v.k = "new" => Type(v.cls) \in KnownTypes,
           NEW e \in Environments, NEW parent, parent.cls \in Class,
           v.k = "call" /\ v.assoc \in {"this", "super"} =>
                parent.cls = e.m.cls \/ Subtype(e.m.cls, parent.cls),
           NEW m \in Methods, NEW tys \in Seq(AllTypes), ArgsMatch(tys, m.params, TRUE)
    PROVE  /\ Sane(e, PostResolve(v, m, parent, tys, e))
           /\ PostResolve(v, m, parent, tys, e).ty \in KnownTypes
<1>0. m.params \in Seq(KnownTypes) /\ m.returns \in KnownTypes
  BY DEF Methods
<1>1. PICK puts : puts = [n \in DOMAIN tys |-> [want |-> m.params[n], got |-> tys[n], how |-> "argument"]]
  OBVIOUS
<1>2. \A n \in DOMAIN tys : puts[n] \in FitPuts
  BY <1>0, <1>1, ArgumentFits
<1>3. Range(puts) \subseteq FitPuts
  BY <1>1, <1>2 DEF Range
<1>4. PICK ty : ty = IF v.k = "new" THEN Type(v.cls) ELSE m.returns
  OBVIOUS
<1>5. ty \in KnownTypes
  BY <1>0, <1>4
<1>6. PICK a : a = Result(ty)
  OBVIOUS
<1>7. a \in Results /\ a.ok = TRUE /\ a.ty = ty /\ a.errs = {} /\ a.ended = FALSE /\ a.holes = {} /\ a.reads = {}
  BY <1>5, <1>6, ResultIs, TypesAre, KnownAre DEF Sane, Result
<1>8. PICK bound : bound = [a EXCEPT !.puts = Range(puts)]
  OBVIOUS
<1>9. /\ bound \in Results /\ bound.ok = TRUE /\ bound.ty = ty /\ bound.errs = {} /\ bound.ended = FALSE
      /\ bound.holes = {} /\ bound.reads = {} /\ bound.puts = Range(puts)
  <2>1. Range(puts) \subseteq Puts
    BY <1>3 DEF FitPuts
  <2> QED
    BY <1>7, <1>8, <2>1 DEF Results
<1>10. Sane(e, bound)
  BY <1>3, <1>9 DEF Sane, Failing
<1>11. PICK self : self = IF NeedsThis(v, m, parent) THEN ImplicitThis(v, bound, parent, e) ELSE bound
  OBVIOUS
<1>12. Sane(e, self) /\ self.ty = ty
  <2>1. CASE NeedsThis(v, m, parent)
    <3>1. v.k = "call" /\ v.assoc # "expr"
      BY <2>1 DEF NeedsThis
    <3>2. PICK q : q = ImplicitThis(v, bound, parent, e)
      OBVIOUS
    <3>3. Sane(e, q) /\ q.ty = bound.ty
      BY <1>10, <3>1, <3>2, ImplicitThisIs
    <3> QED
      BY <1>9, <1>11, <2>1, <3>2, <3>3
  <2>2. CASE ~NeedsThis(v, m, parent)
    BY <1>9, <1>10, <1>11, <2>2
  <2> QED
    BY <2>1, <2>2
<1>13. PICK q : q = IF self.ok THEN SinsDeclared(m, self, e) ELSE self
  OBVIOUS
<1>14. Sane(e, q) /\ q.ty = ty
  <2>1. PICK s : s = SinsDeclared(m, self, e)
    OBVIOUS
  <2>2. Sane(e, s) /\ s.ty = self.ty
    BY <1>12, <2>1, SinsAre
  <2> QED
    BY <1>12, <1>13, <2>1, <2>2
<1>15. PostResolve(v, m, parent, tys, e) = q
  BY <1>1, <1>4, <1>6, <1>8, <1>11, <1>13 DEF PostResolve
<1> QED
  BY <1>5, <1>14, <1>15

LEMMA AfterIs ==
    ASSUME NEW e, NEW a, NEW b, Sane(e, a), Sane(e, b)
    PROVE  Sane(e, After(a, b)) /\ (~a.ended => After(a, b).ty = b.ty)
<1>1. PICK c : c = Both(a, b)
  OBVIOUS
<1>2. Sane(e, c) /\ (Excused(e, b) => Excused(e, c))
  BY <1>1, BothIs
<1>3. PICK q : q = [c EXCEPT !.ok = b.ok]
  OBVIOUS
<1>4. /\ q \in Results /\ q.ok = b.ok /\ q.ty = c.ty /\ q.errs = c.errs /\ q.ended = c.ended
      /\ q.holes = c.holes /\ q.puts = c.puts /\ q.reads = c.reads
  BY <1>2, <1>3 DEF Sane, Results
<1>5. Failing(q) => Failing(b) \/ Failing(c)
  BY <1>4 DEF Failing
<1>6. Sane(e, q)
  BY <1>2, <1>4, <1>5 DEF Sane, Clean, Excused, Told
<1>7. ~a.ended => q.ty = b.ty
  BY <1>1, <1>4 DEF Both
<1>8. After(a, b) = q
  BY <1>1, <1>3 DEF After
<1> QED
  BY <1>6, <1>7, <1>8

LEMMA UnboundIs ==
    ASSUME NEW v \in Nodes, v.k \in {"call", "new"}, NEW e, NEW r, Sane(e, r),
           Excused(e, r), NEW ty \in AllTypes
    PROVE  Resolved(v, e, Hole(v, r, ty))
<1>1. PICK q : q = Hole(v, r, ty)
  OBVIOUS
<1>2. Sane(e, q) /\ ~q.ok /\ Excused(e, q) /\ ~Answered(q)
  BY <1>1, HoleIs
<1>3. Resolved(v, e, q)
  BY <1>2 DEF Resolved
<1> QED
  BY <1>1, <1>3

LEMMA CallIs ==
    ASSUME NEW v \in Values, v.k \in {"call", "new"}, NEW e \in Environments, NEW args, NEW rcv,
           Sane(e, args.r), args.tys \in Seq(AllTypes),
           Absent \in Range(args.tys) => Excused(e, args.r),
           Sane(e, rcv), v.k = "call" /\ v.assoc = "expr" => Resolved(v.recv, e, rcv)
    PROVE  Resolved(v, e, CallValue(v, args, rcv, e))
<1>0. /\ v \in Nodes /\ (v.k = "call" => v.assoc \in {None, "this", "super", "expr"})
      /\ (v.k = "new" => Type(v.cls) \in Types)
  <2>1. IsValue(v)
    BY SyntaxAssumption
  <2>2. v.k = "new" => v.cls \in STRING \ NoTypes
    BY <2>1 DEF IsValue
  <2> QED
    BY <2>1, <2>2, TypesAre DEF IsValue, Nodes
<1>1. PICK unbound : unbound = IF v.k = "new" THEN Type(v.cls) ELSE Throws
  OBVIOUS
<1>2. unbound \in AllTypes
  BY <1>0, <1>1, TypesAre
<1>3. PICK a : a = args.r
  OBVIOUS
<1>4. Sane(e, a) /\ a.ok \in BOOLEAN /\ a.ended \in BOOLEAN
  BY <1>3 DEF Sane, Results
<1>5. CASE a.ended
  <2>1. Excused(e, a)
    BY <1>4, <1>5 DEF Sane, Failing
  <2>2. CallValue(v, args, rcv, e) = a
    BY <1>3, <1>5 DEF CallValue
  <2>3. Resolved(v, e, a)
    BY <1>4, <1>5, <2>1 DEF Resolved, Answered
  <2> QED
    BY <2>2, <2>3
<1>6. CASE ~a.ended /\ (~a.ok \/ Absent \in Range(args.tys))
  <2>1. Excused(e, a)
    BY <1>3, <1>4, <1>6 DEF Sane, Failing
  <2>2. CallValue(v, args, rcv, e) = Hole(v, a, unbound)
    BY <1>1, <1>3, <1>6 DEF CallValue
  <2> QED
    BY <1>0, <1>2, <1>4, <2>1, <2>2, UnboundIs
<1>7. CASE ~a.ended /\ ~(~a.ok \/ Absent \in Range(args.tys))
  <2>1. PICK parent : parent = ParentType(v, rcv, e)
    OBVIOUS
  <2>2. FoundIn(v, rcv, e, parent)
    BY <2>1, ParentTypeIs
  <2>3. PICK b : b = Both(a, rcv)
    OBVIOUS
  <2>4. Sane(e, b) /\ (Excused(e, rcv) => Excused(e, b))
    BY <1>4, <2>3, BothIs
  <2>5. PICK p : p = parent.r
    OBVIOUS
  <2>6. Sound(e, p) /\ (Failing(p) \/ parent.cls = None => Excused(e, b) \/ Excused(e, p))
    BY <2>2, <2>4, <2>5 DEF FoundIn
  <2>7. PICK before : before = Both(b, p)
    OBVIOUS
  <2>8. /\ Sane(e, before) /\ (Excused(e, b) => Excused(e, before))
        /\ (Excused(e, p) => Excused(e, before))
    BY <2>4, <2>6, <2>7, BothSound
  <2>9. before.ended \in BOOLEAN
    BY <2>8 DEF Sane, Results
  <2>10. CallValue(v, args, rcv, e) = FoundParent(v, before, parent, args.tys, unbound, e)
    BY <1>1, <1>3, <1>7, <2>1, <2>3, <2>5, <2>7 DEF CallValue
  <2>11. CASE before.ended \/ parent.cls = None
    <3>1. Excused(e, before)
      BY <2>6, <2>8, <2>9, <2>11 DEF Sane, Failing
    <3>2. CallValue(v, args, rcv, e) = Hole(v, before, unbound)
      BY <2>10, <2>11 DEF FoundParent
    <3> QED
      BY <1>0, <1>2, <2>8, <3>1, <3>2, UnboundIs
  <2>12. CASE ~(before.ended \/ parent.cls = None)
    <3>1. PICK overloads : overloads = InOrder(Overloads(parent.cls, CalledName(v)), e)
      OBVIOUS
    <3>2. overloads \in Seq(Methods)
      BY <3>1, OverloadsAre, InOrderIs
    <3>3. PICK chosen : chosen = ChosenOverload(overloads, args.tys)
      OBVIOUS
    <3>4. CallValue(v, args, rcv, e) =
            IF overloads = <<>> THEN Hole(v, Report(before, "no such method"), unbound)
            ELSE IF chosen = 0 THEN Hole(v, Report(before, "arguments mismatch"), unbound)
            ELSE After(before, PostResolve(v, overloads[chosen], parent, args.tys, e))
      BY <2>10, <2>12, <3>1, <3>3 DEF FoundParent, BoundCall
    <3>5. ASSUME NEW err \in Messages PROVE Resolved(v, e, Hole(v, Report(before, err), unbound))
      <4>1. PICK q : q = Report(before, err)
        OBVIOUS
      <4>2. Sane(e, q) /\ Excused(e, q)
        BY <2>8, <4>1, ReportIs DEF Excused
      <4> QED
        BY <1>0, <1>2, <4>1, <4>2, UnboundIs
    <3>6. CASE overloads = <<>> \/ chosen = 0
      BY <3>4, <3>5, <3>6, MessagesAre
    <3>7. CASE overloads # <<>> /\ chosen # 0
      <4>1. chosen \in DOMAIN overloads /\ ArgsMatch(args.tys, overloads[chosen].params, TRUE)
        BY <3>2, <3>3, <3>7, ChosenIs
      <4>2. PICK m : m = overloads[chosen]
        OBVIOUS
      <4>3. m \in Methods
        BY <3>2, <4>1, <4>2
      <4>4. PICK q : q = PostResolve(v, m, parent, args.tys, e)
        OBVIOUS
      <4>5. Sane(e, q) /\ q.ty \in KnownTypes
        <5>1. parent.cls \in Class /\ (v.k = "new" => Type(v.cls) \in KnownTypes)
          <6>1. parent.cls \in Class
            BY <2>2, <2>12 DEF FoundIn
          <6>2. v.k = "new" => v.cls \in Class
            BY <2>1, <2>12 DEF ParentType, NoSuchType, NoParent
          <6> QED
            BY <6>1, <6>2, KnownAre
        <5>2. v.k = "call" /\ v.assoc \in {"this", "super"} =>
                parent.cls = e.m.cls \/ Subtype(e.m.cls, parent.cls)
          BY <2>2, <2>12 DEF FoundIn
        <5>3. ArgsMatch(args.tys, m.params, TRUE)
          BY <4>1, <4>2
        <5> QED
          BY <1>0, <4>3, <4>4, <5>1, <5>2, <5>3, PostResolveIs
      <4>6. PICK r : r = After(before, q)
        OBVIOUS
      <4>7. Sane(e, r) /\ r.ty = q.ty
        BY <2>8, <2>12, <4>5, <4>6, AfterIs
      <4>8. CallValue(v, args, rcv, e) = r
        BY <3>4, <3>7, <4>2, <4>4, <4>6
      <4>9. Resolved(v, e, r)
        BY <4>5, <4>7, TypesAre, KnownAre DEF Resolved, Settled
      <4> QED
        BY <4>8, <4>9
    <3> QED
      BY <3>6, <3>7
  <2> QED
    BY <2>11, <2>12
<1> QED
  BY <1>5, <1>6, <1>7


-----------------------------------------------------------------------------
(* Values of any depth *)

\* What resolving the values nested in v leaves, in any environment.
OperandsResolved(f, v) ==
    \A w \in Values : Depth[w] < Depth[v] => \A e \in Environments : Resolved(w, e, f[w][e])

LEMMA OperandIs ==
    ASSUME NEW f, NEW v \in Values, OperandsResolved(f, v), NEW w \in Values, Depth[w] < Depth[v],
           NEW e \in Environments
    PROVE  /\ Resolved(w, e, f[w][e])
           /\ Resolved(w, e, WithType(w, f[w][e])) /\ Sane(e, WithType(w, f[w][e]))
           /\ Resolved(w, e, WithType(w, f[w][Unindexed(e)])) /\ Sane(e, WithType(w, f[w][Unindexed(e)]))
<1>1. \A d \in Environments : Resolved(w, d, f[w][d])
  BY DEF OperandsResolved
<1>2. \A d \in Environments : Resolved(w, d, WithType(w, f[w][d]))
  BY <1>1, WithTypeIs
<1>3. PICK u : u = Unindexed(e)
  OBVIOUS
<1>4. u \in Environments /\ \A x, r : Resolved(x, u, r) => Resolved(x, e, r)
  BY <1>3, UnindexedIs
<1>5. Resolved(w, e, WithType(w, f[w][u]))
  BY <1>2, <1>4
<1>6. Resolved(w, e, WithType(w, f[w][e]))
  BY <1>2
<1>7. \A r : Resolved(w, e, r) => Sane(e, r)
  BY DEF Resolved
<1> QED
  BY <1>1, <1>3, <1>5, <1>6, <1>7

LEMMA ResolveFromIs ==
    ASSUME NEW f, NEW v \in Values, OperandsResolved(f, v), NEW e \in Environments
    PROVE  Resolved(v, e, ResolveFrom(f, v, e))
<1>0. IsValue(v)
  BY SyntaxAssumption
<1> DEFINE Of(w) == WithType(w, f[w][e])
           Off(w) == WithType(w, f[w][Unindexed(e)])
<1>1. \A w \in Values : Depth[w] < Depth[v] =>
        /\ Resolved(w, e, f[w][e])
        /\ Resolved(w, e, Of(w)) /\ Sane(e, Of(w)) /\ Resolved(w, e, Off(w)) /\ Sane(e, Off(w))
  BY OperandIs
<1>2. CASE v.k = "name"
  <2>1. ResolveFrom(f, v, e) = NameValue(v, e)
    BY <1>2 DEF ResolveFrom
  <2> QED
    BY <1>2, <2>1, NameIs
<1>3. CASE v.k \in {"call", "new"}
  <2>1. PICK args : args = ResolveEach(f, v.args, e)
    OBVIOUS
  <2>2. v.args \in Seq(Values) /\ Deeper(v, Range(v.args))
    BY <1>0, <1>3 DEF IsValue
  <2>3. \A n \in DOMAIN v.args : Resolved(v.args[n], e, f[v.args[n]][e])
    <3>1. \A n \in DOMAIN v.args : v.args[n] \in Values /\ Depth[v.args[n]] < Depth[v]
      BY <2>2 DEF Deeper, Range
    <3> HIDE DEF Of, Off
    <3> QED BY <1>1, <3>1
  <2>4. /\ Sane(e, args.r) /\ args.tys \in Seq(AllTypes)
        /\ Absent \in Range(args.tys) => Excused(e, args.r)
    BY <1>3, <2>1, <2>2, <2>3, ArgumentsIs
  <2>5. PICK rcv : rcv = IF v.k = "call" /\ v.assoc = "expr" THEN f[v.recv][e] ELSE Result(Absent)
    OBVIOUS
  <2>6. v.k = "call" /\ v.assoc = "expr" => Resolved(v.recv, e, rcv)
    <3>1. v.k = "call" /\ v.assoc = "expr" => v.recv \in Values /\ Deeper(v, {v.recv})
      BY <1>0 DEF IsValue
    <3>2. v.k = "call" /\ v.assoc = "expr" => Depth[v.recv] < Depth[v]
      BY <3>1 DEF Deeper
    <3> HIDE DEF Of, Off
    <3> QED BY <1>1, <2>5, <3>1, <3>2
  <2>7. Sane(e, rcv)
    <3>1. \A r : Resolved(v.recv, e, r) => Sane(e, r)
      BY DEF Resolved
    <3>2. Sane(e, Result(Absent))
      BY ResultIs, TypesAre
    <3> QED
      BY <2>5, <2>6, <3>1, <3>2
  <2>8. ResolveFrom(f, v, e) = CallValue(v, args, rcv, e)
    BY <1>3, <2>1, <2>5 DEF ResolveFrom
  <2>9. Resolved(v, e, CallValue(v, args, rcv, e))
    BY <1>3, <2>4, <2>6, <2>7, CallIs
  <2> QED
    BY <2>8, <2>9
<1>4. CASE v.k = "binary"
  <2>1. v.l \in Values /\ v.r \in Values /\ Depth[v.l] < Depth[v] /\ Depth[v.r] < Depth[v]
    BY <1>0, <1>4 DEF IsValue, Deeper
  <2>2. ResolveFrom(f, v, e) = BinaryValue(v, Of(v.l), Of(v.r))
    BY <1>4 DEF ResolveFrom
  <2> HIDE DEF Of, Off
  <2> QED
    BY <1>1, <1>4, <2>1, <2>2, BinaryIs
<1>5. CASE v.k \in {"unary", "length"}
  <2>1. v.c \in Values /\ Depth[v.c] < Depth[v]
    BY <1>0, <1>5 DEF IsValue, Deeper
  <2>2. v.k = "unary" => ResolveFrom(f, v, e) = Of(v.c)
    BY DEF ResolveFrom
  <2>3. v.k = "length" => ResolveFrom(f, v, e) = LengthValue(Of(v.c))
    BY DEF ResolveFrom
  <2> HIDE DEF Of, Off
  <2> QED
    BY <1>1, <1>5, <2>1, <2>2, <2>3, UnaryIs, LengthIs
<1>6. CASE v.k = "access"
  <2>1. v.a \in Values /\ v.i \in Values /\ Depth[v.a] < Depth[v] /\ Depth[v.i] < Depth[v]
    BY <1>0, <1>6 DEF IsValue, Deeper
  <2>2. ResolveFrom(f, v, e) = AccessValue(v, Of(v.a), Of(v.i))
    BY <1>6 DEF ResolveFrom
  <2> HIDE DEF Of, Off
  <2> QED
    BY <1>1, <1>6, <2>1, <2>2, AccessIs
<1>7. CASE v.k = "cast"
  <2>1. v.c \in Values /\ Depth[v.c] < Depth[v] /\ v.t \in Types
    BY <1>0, <1>7 DEF IsValue, Deeper
  <2>2. ResolveFrom(f, v, e) = CastValue(v, Off(v.c))
    BY <1>7 DEF ResolveFrom
  <2> HIDE DEF Of, Off
  <2> QED
    BY <1>1, <2>1, <2>2, CastIs
<1>8. CASE v.k = "newarray"
  <2>1. v.d \in Values /\ Depth[v.d] < Depth[v] /\ v.t \in Types
    BY <1>0, <1>8 DEF IsValue, Deeper
  <2>2. ResolveFrom(f, v, e) = NewArrayValue(v, Off(v.d))
    BY <1>8 DEF ResolveFrom
  <2> HIDE DEF Of, Off
  <2> QED
    BY <1>1, <2>1, <2>2, NewArrayIs
<1>9. CASE v.k = "range"
  <2>1. /\ v.l \in Values /\ v.r \in Values /\ v.s \in Values
        /\ Depth[v.l] < Depth[v] /\ Depth[v.r] < Depth[v] /\ Depth[v.s] < Depth[v]
    BY <1>0, <1>9 DEF IsValue, Deeper
  <2>2. ResolveFrom(f, v, e) = Typed(Both(Both(Of(v.l), Of(v.r)), Of(v.s)), RangeType)
    BY <1>9 DEF ResolveFrom
  <2> HIDE DEF Of, Off
  <2> QED
    BY <1>1, <1>9, <2>1, <2>2, RangeIs
<1>10. CASE v.k = "literal"
  <2>1. v.t \in KnownTypes \cup {Type("null")}
    BY <1>0, <1>10 DEF IsValue
  <2>2. ResolveFrom(f, v, e) = Result(v.t)
    BY <1>10 DEF ResolveFrom
  <2> QED
    BY <1>10, <2>1, <2>2, LiteralIs
<1>11. \/ v.k = "name" \/ v.k \in {"call", "new"} \/ v.k = "binary" \/ v.k \in {"unary", "length"}
       \/ v.k = "access" \/ v.k = "cast" \/ v.k = "newarray" \/ v.k = "range" \/ v.k = "literal"
  BY <1>0 DEF IsValue
<1> HIDE DEF Of, Off
<1> QED
  BY <1>2, <1>3, <1>4, <1>5, <1>6, <1>7, <1>8, <1>9, <1>10, <1>11

LEMMA ResolveFromAgrees ==
    ASSUME NEW f, NEW g, NEW v \in Values, NEW e \in Environments,
           \A w \in Values : Depth[w] < Depth[v] => f[w] = g[w]
    PROVE  ResolveFrom(f, v, e) = ResolveFrom(g, v, e)
<1>0. IsValue(v)
  BY SyntaxAssumption
<1>1. CASE v.k \in {"call", "new"}
  <2>1. v.args \in Seq(Values) /\ \A n \in DOMAIN v.args : v.args[n] \in Values /\ Depth[v.args[n]] < Depth[v]
    BY <1>0, <1>1 DEF IsValue, Deeper, Range
  <2>2. \A n \in DOMAIN v.args : f[v.args[n]] = g[v.args[n]]
    BY <2>1
  <2>3. /\ [n \in DOMAIN v.args |-> f[v.args[n]][e]] = [n \in DOMAIN v.args |-> g[v.args[n]][e]]
        /\ [n \in DOMAIN v.args |-> f[v.args[n]][e].ty] = [n \in DOMAIN v.args |-> g[v.args[n]][e].ty]
    BY <2>2
  <2>4. ResolveEach(f, v.args, e) = ResolveEach(g, v.args, e)
    BY <2>3 DEF ResolveEach
  <2>5. v.k = "call" /\ v.assoc = "expr" => f[v.recv] = g[v.recv]
    BY <1>0 DEF IsValue, Deeper
  <2> QED
    BY <1>1, <2>4, <2>5 DEF ResolveFrom
<1>2. CASE v.k \in {"binary", "range"}
  <2>1. f[v.l] = g[v.l] /\ f[v.r] = g[v.r] /\ (v.k = "range" => f[v.s] = g[v.s])
    BY <1>0, <1>2 DEF IsValue, Deeper
  <2> QED
    BY <1>2, <2>1 DEF ResolveFrom
<1>3. CASE v.k \in {"unary", "length", "cast"}
  <2>1. f[v.c] = g[v.c]
    BY <1>0, <1>3 DEF IsValue, Deeper
  <2> QED
    BY <1>3, <2>1 DEF ResolveFrom
<1>4. CASE v.k = "access"
  <2>1. f[v.a] = g[v.a] /\ f[v.i] = g[v.i]
    BY <1>0, <1>4 DEF IsValue, Deeper
  <2> QED
    BY <1>4, <2>1 DEF ResolveFrom
<1>5. CASE v.k = "newarray"
  <2>1. f[v.d] = g[v.d]
    BY <1>0, <1>5 DEF IsValue, Deeper
  <2> QED
    BY <1>5, <2>1 DEF ResolveFrom
<1>6. CASE v.k \in {"name", "literal"}
  BY <1>6 DEF ResolveFrom
<1>7. \/ v.k \in {"call", "new"} \/ v.k \in {"binary", "range"} \/ v.k \in {"unary", "length", "cast"}
      \/ v.k = "access" \/ v.k = "newarray" \/ v.k \in {"name", "literal"}
  BY <1>0 DEF IsValue
<1> QED
  BY <1>1, <1>2, <1>3, <1>4, <1>5, <1>6, <1>7


\* A recursion whose values are good as long as those they are made from are.
Keeps(G, C, D, V, Good) ==
    /\ \A c \in C : Good[c] \subseteq V
    /\ \A c \in C : \A f \in [C -> V] :
            (\A d \in C : D[d] < D[c] => f[d] \in Good[d]) => G[c][f] \in Good[c]

LEMMA GoodSolution ==
    ASSUME NEW C, NEW D \in [C -> Nat], NEW V, V # {}, NEW G, Downward(G, C, D, V),
           NEW Good, Keeps(G, C, D, V, Good)
    PROVE  \E f \in [C -> V] : \A c \in C : f[c] = G[c][f] /\ f[c] \in Good[c]
<1>0. /\ \A c \in C : Good[c] \subseteq V
      /\ \A c \in C : \A f \in [C -> V] :
            (\A d \in C : D[d] < D[c] => f[d] \in Good[d]) => G[c][f] \in Good[c]
  BY DEF Keeps
<1> DEFINE H == [c \in C |-> [f \in [C -> V] |-> IF G[c][f] \in V THEN G[c][f] ELSE CHOOSE w \in V : TRUE]]
<1>1. \A c \in C, f \in [C -> V] : H[c][f] \in V /\ (G[c][f] \in V => H[c][f] = G[c][f])
  OBVIOUS
<1>2. H \in [C -> [[C -> V] -> V]]
  OBVIOUS
<1>3. Downward(H, C, D, V)
  BY DEF Downward
<1> HIDE DEF H
<1>4. HasSolution(H, C, V)
  BY <1>2, <1>3, RecursionHolds DEF Recursion
<1>5. PICK f \in [C -> V] : \A c \in C : f[c] = H[c][f]
  BY <1>4 DEF HasSolution
<1>6. C \subseteq {c \in C : f[c] \in Good[c]}
  <2> DEFINE T == {c \in C : f[c] \in Good[c]}
  <2>1. ASSUME NEW c \in C, \A d \in C : D[d] < D[c] => d \in T PROVE c \in T
    <3>1. G[c][f] \in Good[c]
      BY <1>0, <2>1
    <3>2. f[c] = G[c][f]
      BY <1>0, <1>1, <1>5, <3>1
    <3> QED
      BY <3>1, <3>2
  <2> HIDE DEF T
  <2> QED BY <2>1, DepthInduction DEF T
<1>7. \A c \in C : f[c] \in Good[c] /\ f[c] \in V
  BY <1>6
<1>8. \A c \in C : G[c][f] \in Good[c]
  BY <1>0, <1>7
<1>9. \A c \in C : f[c] = G[c][f]
  BY <1>0, <1>1, <1>5, <1>8
<1> QED
  BY <1>7, <1>9

LEMMA DepthIs ==
    /\ [v \in Values |-> Depth[v]] \in [Values -> Nat]
    /\ [s \in Statements |-> Depth[s]] \in [Statements -> Nat]
BY SyntaxAssumption

LEMMA ResolveUnfolds ==
    \A v \in Values : \A e \in Environments : Resolved(v, e, Resolve[v][e])
<1> DEFINE V == [Environments -> Results]
           D == [v \in Values |-> Depth[v]]
           Body(f, v) == [e \in Environments |-> ResolveFrom(f, v, e)]
           G == [v \in Values |-> [f \in [Values -> V] |-> Body(f, v)]]
           Good == [v \in Values |-> {h \in V : \A e \in Environments : Resolved(v, e, h[e])}]
<1>1. V # {}
  <2>1. Result(Absent) \in Results
    BY ResultIs, TypesAre DEF Sane
  <2>2. [e \in Environments |-> Result(Absent)] \in V
    BY <2>1
  <2> QED
    BY <2>2
<1>2. \A v \in Values : Good[v] \subseteq V
  OBVIOUS
<1>3. Downward(G, Values, D, V)
  <2> SUFFICES ASSUME NEW v \in Values, NEW f \in [Values -> V], NEW g \in [Values -> V],
                      \A w \in Values : D[w] < D[v] => f[w] = g[w]
               PROVE  G[v][f] = G[v][g]
    BY DEF Downward
  <2>1. \A w \in Values : Depth[w] < Depth[v] => f[w] = g[w]
    OBVIOUS
  <2>2. \A e \in Environments : ResolveFrom(f, v, e) = ResolveFrom(g, v, e)
    <3> HIDE DEF V, D
    <3> QED BY <2>1, ResolveFromAgrees
  <2>3. Body(f, v) = Body(g, v)
    BY <2>2
  <2> HIDE DEF Body, V
  <2> QED BY <2>3
<1>4. ASSUME NEW v \in Values, NEW f \in [Values -> V],
             \A w \in Values : D[w] < D[v] => f[w] \in Good[w]
      PROVE  G[v][f] \in Good[v]
  <2>1. \A w \in Values : Depth[w] < Depth[v] => \A e \in Environments : Resolved(w, e, f[w][e])
    BY <1>4
  <2>2. OperandsResolved(f, v)
    BY <2>1 DEF OperandsResolved
  <2>3. \A e \in Environments : Resolved(v, e, ResolveFrom(f, v, e))
    BY <2>2, ResolveFromIs
  <2>4. PICK b : b = Body(f, v)
    OBVIOUS
  <2>5. \A e \in Environments : Resolved(v, e, b[e])
    BY <2>3, <2>4
  <2>6. \A e \in Environments : b[e] \in Results
    BY <2>5 DEF Resolved, Sane
  <2>7. b \in V
    BY <2>4, <2>6
  <2>8. G[v][f] = b
    BY <2>4
  <2> QED
    BY <2>5, <2>7, <2>8
<1>5. D \in [Values -> Nat]
  BY DepthIs
<1>6. \E f \in [Values -> V] : \A v \in Values : f[v] = G[v][f] /\ f[v] \in Good[v]
  <2> HIDE DEF V, D, G, Good
  <2>1. Keeps(G, Values, D, V, Good)
    BY <1>2, <1>4 DEF Keeps
  <2> QED BY <1>1, <1>3, <1>5, <2>1, GoodSolution
<1>7. PICK f \in [Values -> V] : \A v \in Values : f[v] = G[v][f] /\ f[v] \in Good[v]
  BY <1>6
<1>8. \A v \in Values : f[v] = Body(f, v)
  <2> HIDE DEF Body, V
  <2> QED BY <1>7
<1>9. f = [v \in Values |-> Body(f, v)]
  <2> HIDE DEF Body, V
  <2> QED BY <1>8
<1>10. Resolve = CHOOSE g : g = [v \in Values |-> Body(g, v)]
  BY DEF Resolve
<1>11. Resolve = [v \in Values |-> Body(Resolve, v)]
  <2> HIDE DEF Body
  <2> QED BY <1>9, <1>10
<1>12. \A v \in Values : Resolve[v] = Body(Resolve, v)
  <2> HIDE DEF Body
  <2> QED BY <1>11
<1>13. \A v \in Values : \A e \in Environments : Resolve[v][e] = ResolveFrom(Resolve, v, e)
  BY <1>12
<1> DEFINE T == {v \in Values : \A e \in Environments : Resolved(v, e, Resolve[v][e])}
<1>14. ASSUME NEW v \in Values, \A w \in Values : D[w] < D[v] => w \in T PROVE v \in T
  <2>1. OperandsResolved(Resolve, v)
    BY <1>14 DEF OperandsResolved
  <2>2. \A e \in Environments : Resolved(v, e, ResolveFrom(Resolve, v, e))
    BY <2>1, ResolveFromIs
  <2> QED
    BY <1>13, <2>2
<1>15. Values \subseteq T
  <2> HIDE DEF T, D
  <2> QED BY <1>5, <1>14, DepthInduction
<1> QED
  BY <1>15

LEMMA ValueIs ==
    ASSUME NEW v \in Values, NEW e \in Environments
    PROVE  Resolved(v, e, Value(v, e))
BY ResolveUnfolds, WithTypeIs DEF Value


-----------------------------------------------------------------------------
(* Statements.  The success of one is not looked at: only what was left    *)
(* without a meaning has to be accounted for.                              *)

\* Nothing but a second variable of its name, or in an initialiser.
OnlyLets(r) == \A h \in r.holes : h.k = "let"
Kept(e, r) == Sound(e, r) /\ (r.errs = {} => e.init = TRUE \/ OnlyLets(r))

LEMMA SaneIsKept ==
    ASSUME NEW e, NEW r, Sane(e, r)
    PROVE  Kept(e, r)
BY DEF Sane, Kept, Sound, Failing, Excused, Told, OnlyLets

LEMMA BothKept ==
    ASSUME NEW e, NEW a, NEW b, Kept(e, a), Kept(e, b)
    PROVE  Kept(e, Both(a, b)) /\ (Clean(Both(a, b)) => Clean(a) /\ Clean(b))
<1>0. a.ended \in BOOLEAN
  BY DEF Kept, Sound, Results
<1>1. CASE a.ended = TRUE
  <2>1. Both(a, b) = a
    BY <1>1 DEF Both
  <2> QED
    BY <1>1, <2>1 DEF Clean
<1>2. CASE a.ended = FALSE
  <2>1. PICK r : r = Both(a, b)
    OBVIOUS
  <2>2. /\ r.errs = a.errs \cup b.errs /\ r.ended = b.ended
        /\ r.holes = a.holes \cup b.holes /\ r.puts = a.puts \cup b.puts /\ r.reads = a.reads \cup b.reads
    BY <1>2, <2>1 DEF Both
  <2>3. r \in Results
    BY <1>2, <2>1 DEF Both, Kept, Sound, Results
  <2>4. r.errs = {} => a.errs = {} /\ b.errs = {}
    BY <2>2
  <2>5. Clean(r) => Clean(a) /\ Clean(b)
    BY <1>2, <2>2 DEF Clean
  <2>6. OnlyLets(a) /\ OnlyLets(b) => OnlyLets(r)
    BY <2>2 DEF OnlyLets
  <2>7. Sound(e, r)
    BY <2>2, <2>3, <2>5 DEF Kept, Sound
  <2>8. Kept(e, r)
    BY <2>4, <2>6, <2>7 DEF Kept
  <2> QED
    BY <2>1, <2>5, <2>8
<1> QED
  BY <1>0, <1>1, <1>2

LEMMA NothingKept ==
    ASSUME NEW e
    PROVE  Kept(e, Result(Absent))
BY ResultIs, TypesAre, SaneIsKept

LEMMA InTurnKept ==
    ASSUME NEW e, NEW rs, NEW n \in Nat, n = Len(rs), \A i \in 1..n : Kept(e, rs[i])
    PROVE  Kept(e, InTurn(rs))
<1>1. PICK upTo \in [0..n -> Results] :
              /\ \A i \in 0..n : upTo[i] = IF i = 0 THEN Result(Absent) ELSE Both(upTo[i - 1], rs[i])
              /\ InTurn(rs) = upTo[n]
  BY InTurnUnfolds DEF Kept, Sound
<1> DEFINE T == {i \in 0..n : Kept(e, upTo[i])}
<1>2. 0 \in T
  BY <1>1, NothingKept
<1>3. ASSUME NEW i \in 1..n, i - 1 \in T PROVE i \in T
  <2>1. i \in 0..n /\ upTo[i] = Both(upTo[i - 1], rs[i])
    BY <1>1
  <2> QED
    BY <1>3, <2>1, BothKept
<1>4. n \in T
  <2>1. \A i \in 0..n : i \in T
    <3> HIDE DEF T
    <3> QED BY <1>2, <1>3, UpToInduction
  <2> HIDE DEF T
  <2> QED BY <2>1
<1> QED
  BY <1>1, <1>4

LEMMA ReportKept ==
    ASSUME NEW e, NEW r, Kept(e, r), NEW err \in Messages
    PROVE  Kept(e, Report(r, err))
<1>1. PICK q : q = Report(r, err)
  OBVIOUS
<1>2. q \in Results /\ q.errs = r.errs \cup {err}
  BY <1>1 DEF Report, Results, Kept, Sound
<1>3. q.errs # {} /\ ~Clean(q)
  BY <1>2 DEF Clean
<1>4. Kept(e, q)
  BY <1>2, <1>3 DEF Kept, Sound
<1> QED
  BY <1>1, <1>4

LEMMA ReportIfKept ==
    ASSUME NEW e, NEW r, Kept(e, r), NEW err \in Messages, NEW cond
    PROVE  Kept(e, ReportIf(cond, r, err))
BY ReportKept DEF ReportIf

\* A value is put somewhere and, if it does not fit, reported.
LEMMA PutKept ==
    ASSUME NEW e, NEW r, Kept(e, r), NEW want \in AllTypes, NEW got \in AllTypes, NEW how \in Places,
           NEW err \in Messages, NEW cond,
           Clean(r) /\ ~cond => Fits(got, want) \/ Overlooked([want |-> want, got |-> got, how |-> how])
    PROVE  Kept(e, ReportIf(cond, Put(r, want, got, how), err))
<1>1. PICK x : x = [want |-> want, got |-> got, how |-> how]
  OBVIOUS
<1>2. x \in Puts /\ x.got = got /\ x.want = want
  BY <1>1 DEF Puts
<1>3. Clean(r) /\ ~cond => x \in FitPuts
  BY <1>1, <1>2 DEF FitPuts
<1>4. r \in Results
  BY DEF Kept, Sound
<1>5. PICK p : p = Put(r, want, got, how)
  OBVIOUS
<1>6. /\ p \in Results /\ p.errs = r.errs /\ p.ended = r.ended /\ p.holes = r.holes
      /\ p.puts = r.puts \cup {x} /\ p.reads = r.reads
  BY <1>1, <1>2, <1>4, <1>5 DEF Put, Results
<1>7. CASE cond /\ p.ended = FALSE
  <2>1. PICK q : q = Report(p, err)
    OBVIOUS
  <2>2. q \in Results /\ q.errs = p.errs \cup {err}
    BY <1>6, <2>1 DEF Report, Results
  <2>3. q.errs # {} /\ ~Clean(q)
    BY <2>2 DEF Clean
  <2>4. Kept(e, q)
    BY <2>2, <2>3 DEF Kept, Sound
  <2>5. ReportIf(cond, p, err) = q
    BY <1>7, <2>1 DEF ReportIf
  <2> QED
    BY <1>5, <2>4, <2>5
<1>8. CASE ~(cond /\ p.ended = FALSE)
  <2>1. p.ended \in BOOLEAN
    BY <1>6 DEF Results
  <2>2. ReportIf(cond, p, err) = p
    BY <1>8, <2>1 DEF ReportIf
  <2>3. Clean(p) => Clean(r) /\ x \in FitPuts
    BY <1>3, <1>6, <1>8 DEF Clean
  <2>4. OnlyLets(r) => OnlyLets(p)
    BY <1>6 DEF OnlyLets
  <2>5. Kept(e, p)
    BY <1>6, <2>3, <2>4 DEF Kept, Sound
  <2> QED
    BY <1>5, <2>2, <2>5
<1> QED
  BY <1>7, <1>8

LEMMA KeptMoves ==
    ASSUME NEW e, NEW f, f.init = e.init, Proper(e) => Proper(f), NEW r, Kept(f, r)
    PROVE  Kept(e, r)
BY DEF Kept, Sound

LEMMA DeclaredVariableIs ==
    ASSUME NEW s, s.x \in STRING, s.t \in Types, NEW e
    PROVE  Kept(e, DeclaredVariable(s, e)) /\ DeclaredVariable(s, e).ty \in Types
<1>1. PICK a : a = Result(s.t)
  OBVIOUS
<1>2. Sane(e, a) /\ a.ty = s.t /\ a.puts = {} /\ a.reads = {}
  BY <1>1, ResultIs, TypesAre DEF Result
<1>3. PICK h : h = [k |-> "let", x |-> s.x]
  OBVIOUS
<1>4. h \in Nodes /\ h.k = "let"
  BY <1>3 DEF Nodes
<1>5. PICK b : b = [a EXCEPT !.holes = {h}]
  OBVIOUS
<1>6. /\ b \in Results /\ b.ty = a.ty /\ b.holes = {h} /\ b.puts = {} /\ b.reads = {}
  BY <1>2, <1>4, <1>5 DEF Sane, Results
<1>7. PICK q : q = Undefined(b, e)
  OBVIOUS
<1>8. q \in Results /\ q.ty = b.ty /\ q.holes = {h} /\ q.puts = {} /\ q.reads = {}
  <2>1. q = b \/ q = [b EXCEPT !.ended = TRUE]
    BY <1>7 DEF Undefined
  <2> QED
    BY <1>6, <2>1 DEF Results
<1>9. Kept(e, q)
  BY <1>4, <1>8 DEF Kept, Sound, OnlyLets
<1>10. DeclaredVariable(s, e) = IF FirstOf(e.chain[1], s.x).at = e.at THEN a ELSE q
  BY <1>1, <1>3, <1>5, <1>7 DEF DeclaredVariable
<1> QED
  BY <1>2, <1>6, <1>8, <1>9, <1>10, SaneIsKept

\* What the two sides of an assignment were compared for.
LEMMA AssignedFits ==
    ASSUME NEW want \in Types, NEW got \in AllTypes,
           \/ TypesMatch(want, WrappedRight(got, want))
           \/ PolyCasts(WrappedRight(got, want), want)
    PROVE  Fits(got, want) \/ ArrayOverlooked(got, want) \/ (~Known(want) /\ ~Known(got))
<1>1. want \in AllTypes /\ want.base \notin NoTypes
  BY TypesAre
<1>2. TypesMatch(want, WrappedRight(got, want)) =>
        want = WrappedRight(got, want) \/ (~Known(want) /\ ~Known(WrappedRight(got, want)))
  BY <1>1 DEF TypesMatch, NoTypes
<1>3. CASE Widens(got, want)
  BY <1>1, <1>3, CompatibleFits DEF Compatible
<1>4. CASE ~Widens(got, want)
  <2>1. WrappedRight(got, want) = got
    BY <1>4 DEF WrappedRight, Wrapped
  <2>2. want = got \/ (~Known(want) /\ ~Known(got)) \/ PolyCasts(got, want)
    BY <1>2, <2>1
  <2>3. PolyCasts(got, want) => Compatible(got, want)
    BY DEF Compatible
  <2>4. want = got => Fits(got, want)
    BY DEF Fits
  <2> QED
    BY <1>1, <2>2, <2>3, <2>4, CompatibleFits
<1> QED
  BY <1>3, <1>4

LEMMA AssignedIs ==
    ASSUME NEW e, NEW l, NEW r, Kept(e, l), l.ok = TRUE => l.ty \in Types, Sane(e, r)
    PROVE  /\ Kept(e, AssignVariable(l, r))
           /\ (Answered(l) => Known(l.ty)) => Kept(e, AssignElement(l, r))
<1>0. l.ok \in BOOLEAN /\ l.ended \in BOOLEAN /\ r.ty \in AllTypes
  BY DEF Kept, Sound, Sane, Results
<1>1. PICK both : both = Both(l, r)
  OBVIOUS
<1>2. (both.ok => l.ok) /\ (both.ok /\ Clean(both) => Answered(l))
  <2>1. (l.ended => both = l) /\ (~l.ended => both.ok = (l.ok /\ r.ok))
    BY <1>1 DEF Both
  <2>2. r.ok \in BOOLEAN
    BY DEF Sane, Results
  <2> QED
    BY <1>0, <2>1, <2>2 DEF Clean, Answered
<1>3. Kept(e, both)
  BY <1>1, SaneIsKept, BothKept
<1>4. PICK right : right = WrappedRight(r.ty, l.ty)
  OBVIOUS
<1>5. ASSUME NEW left, NEW how \in {"assign", "element"},
             left = l.ty \/ (how = "element" /\ Widens(l.ty, r.ty)),
             how = "element" => (Answered(l) => Known(l.ty))
      PROVE  Kept(e, Assigned(l, r, left, how))
  <2> DEFINE cond == ~TypesMatch(left, right) /\ ~PolyCasts(right, left)
  <2>1. CASE both.ok
    <3>1. l.ty \in Types /\ l.ty \in AllTypes
      BY <1>0, <1>2, <2>1, TypesAre
    <3>2. left = l.ty /\ ~cond =>
            Fits(r.ty, l.ty) \/ ArrayOverlooked(r.ty, l.ty) \/ (~Known(l.ty) /\ ~Known(r.ty))
      BY <1>0, <1>4, <3>1, AssignedFits
    <3>3. Clean(both) /\ ~cond => Fits(r.ty, l.ty) \/ Overlooked([want |-> l.ty, got |-> r.ty, how |-> how])
      <4>1. PICK p : p = [want |-> l.ty, got |-> r.ty, how |-> how]
        OBVIOUS
      <4>2. how = "element" /\ Widens(l.ty, r.ty) => Overlooked(p)
        BY <4>1, OverlookedIs
      <4>3. ArrayOverlooked(r.ty, l.ty) => Overlooked(p)
        BY <4>1, OverlookedIs
      <4>4. ~Known(l.ty) /\ ~Known(r.ty) /\ how = "assign" => Overlooked(p)
        BY <4>1, OverlookedIs DEF Known
      <4>5. Clean(both) /\ how = "element" => Known(l.ty)
        BY <1>2, <1>5, <2>1
      <4> HIDE DEF cond
      <4> QED BY <1>5, <3>2, <4>1, <4>2, <4>3, <4>4, <4>5
    <3>4. how \in Places
      BY PlacesAre
    <3>5. PICK q : q = ReportIf(cond, Put(both, l.ty, r.ty, how), "operands mismatch")
      OBVIOUS
    <3>6. Assigned(l, r, left, how) = q
      BY <1>1, <1>4, <2>1, <3>5 DEF Assigned
    <3>7. Kept(e, q)
      <4>1. "operands mismatch" \in Messages
        BY MessagesAre
      <4> HIDE DEF cond
      <4> QED BY <1>0, <1>3, <3>1, <3>3, <3>4, <3>5, <4>1, PutKept
    <3> QED
      BY <3>6, <3>7
  <2>2. CASE ~both.ok
    <3>1. Assigned(l, r, left, how) = both
      BY <1>1, <2>2 DEF Assigned
    <3> QED
      BY <1>3, <3>1
  <2> QED
    BY <2>1, <2>2
<1>6. Kept(e, AssignVariable(l, r))
  BY <1>5 DEF AssignVariable, LeftVariable
<1>7. ASSUME Answered(l) => Known(l.ty) PROVE Kept(e, AssignElement(l, r))
  <2>1. LeftElement(l.ty, r.ty) = l.ty \/ Widens(l.ty, r.ty)
    BY DEF LeftElement, Wrapped
  <2> QED
    BY <1>5, <1>7, <2>1 DEF AssignElement
<1> QED
  BY <1>6, <1>7


LEMMA ConditionedIs ==
    ASSUME NEW e, NEW v, NEW c, Resolved(v, e, c), NEW inner, Kept(e, inner)
    PROVE  Kept(e, Conditioned(c, inner))
<1>0. Sane(e, c) /\ c.ty \in AllTypes
  BY DEF Resolved, Sane, Results
<1>1. PICK both : both = Both(c, inner)
  OBVIOUS
<1>2. Kept(e, both)
  BY <1>0, <1>1, SaneIsKept, BothKept
<1>3. CASE c.ty = Throws
  <2>1. PICK q : q = [both EXCEPT !.ended = TRUE]
    OBVIOUS
  <2>2. /\ q \in Results /\ q.errs = both.errs /\ q.ended = TRUE /\ q.holes = both.holes
    BY <1>2, <2>1 DEF Kept, Sound, Results
  <2>3. OnlyLets(both) => OnlyLets(q)
    BY <2>2 DEF OnlyLets
  <2>4. Kept(e, q)
    BY <1>2, <2>2, <2>3 DEF Kept, Sound, Clean
  <2>5. Conditioned(c, inner) = q
    BY <1>1, <1>3, <2>1 DEF Conditioned
  <2> QED
    BY <2>4, <2>5
<1>4. CASE c.ty # Throws
  <2> DEFINE cond == c.ty.base # "boolean"
  <2>1. PICK bool : bool = Type("boolean")
    OBVIOUS
  <2>2. bool \in AllTypes /\ bool.base = "boolean"
    BY <2>1, TypesAre
  <2>3. ~cond => Fits(c.ty, bool) \/ ArrayOverlooked(c.ty, bool)
    BY <1>0, <2>2, SameBaseFits
  <2>4. ~cond => Fits(c.ty, bool) \/ Overlooked([want |-> bool, got |-> c.ty, how |-> "condition"])
    BY <2>3, OverlookedIs
  <2>5. "not a condition" \in Messages /\ "condition" \in Places
    BY MessagesAre, PlacesAre
  <2>6. Conditioned(c, inner) =
            ReportIf(cond, IF c.ok THEN Put(both, bool, c.ty, "condition") ELSE both, "not a condition")
    BY <1>1, <1>4, <2>1 DEF Conditioned
  <2>7. Kept(e, ReportIf(cond, Put(both, bool, c.ty, "condition"), "not a condition"))
    <3> HIDE DEF cond
    <3> QED BY <1>0, <1>2, <2>2, <2>4, <2>5, PutKept
  <2>8. Kept(e, ReportIf(cond, both, "not a condition"))
    <3> HIDE DEF cond
    <3> QED BY <1>2, <2>5, ReportIfKept
  <2> HIDE DEF cond
  <2> QED
    BY <2>6, <2>7, <2>8
<1> QED
  BY <1>3, <1>4

LEMMA ForIs ==
    ASSUME NEW e, NEW s, s.t \in Types, NEW coll, Kept(e, coll), NEW first \in AllTypes,
           NEW inner, Kept(e, inner)
    PROVE  Kept(e, ForValue(s, coll, first, inner))
<1>1. CASE s.coll.k = "range"
  <2>1. PICK both : both = Both(coll, inner)
    OBVIOUS
  <2>2. Kept(e, both)
    BY <2>1, BothKept
  <2>3. PICK q : q = ReportIf(FALSE, Put(both, s.t, first, "iterate"), "not a collection")
    OBVIOUS
  <2>4. Kept(e, q)
    <3>1. Overlooked([want |-> s.t, got |-> first, how |-> "iterate"])
      BY OverlookedIs
    <3>2. s.t \in AllTypes /\ "iterate" \in Places /\ "not a collection" \in Messages
      BY MessagesAre, PlacesAre, TypesAre
    <3> QED
      BY <2>2, <2>3, <3>1, <3>2, PutKept
  <2>5. ForValue(s, coll, first, inner) = q
    BY <1>1, <2>1, <2>3 DEF ForValue, ReportIf
  <2> QED
    BY <2>4, <2>5
<1>2. CASE s.coll.k # "range"
  <2>1. PICK both : both = Both(coll, inner)
    OBVIOUS
  <2>2. Kept(e, both)
    BY <2>1, BothKept
  <2>3. ForValue(s, coll, first, inner) = Report(both, "not a collection")
    BY <1>2, <2>1 DEF ForValue
  <2> QED
    BY <2>2, <2>3, ReportKept, MessagesAre
<1> QED
  BY <1>1, <1>2

LEMMA ReturnIs ==
    ASSUME NEW e \in Environments, NEW v, Sane(e, v)
    PROVE  Kept(e, ReturnValue(v, e))
<1>0. Kept(e, v) /\ v.ok \in BOOLEAN /\ v.ty \in AllTypes
  BY SaneIsKept DEF Sane, Results
<1>1. PICK want : want = e.m.returns
  OBVIOUS
<1>2. want \in AllTypes /\ Known(want)
  BY <1>1, EnvironmentIs, TypesAre
<1> DEFINE cond == ~Compatible(v.ty, want)
<1>3. ~cond => Fits(v.ty, want) \/ ArrayOverlooked(v.ty, want)
  BY <1>0, <1>2, CompatibleFits
<1>4. ~cond => Fits(v.ty, want) \/ Overlooked([want |-> want, got |-> v.ty, how |-> "return"])
  BY <1>3, OverlookedIs
<1>5. PICK q : q = ReportIf(cond, Put(v, want, v.ty, "return"), "return mismatch")
  OBVIOUS
<1>6. Kept(e, q)
  <2>1. "return" \in Places /\ "return mismatch" \in Messages
    BY MessagesAre, PlacesAre
  <2> HIDE DEF cond
  <2> QED BY <1>0, <1>2, <1>4, <1>5, <2>1, PutKept
<1>7. ReturnValue(v, e) = IF ~v.ok THEN v ELSE q
  BY <1>1, <1>5 DEF ReturnValue
<1> QED
  BY <1>0, <1>6, <1>7

-----------------------------------------------------------------------------
(* The scope of a list of statements *)

\* The variable a let at the j-th place adds.
IsLocal(l, stmts, path) ==
    \E j \in 1..Len(stmts) : l.from = j - 1 /\ l.to = Len(stmts) - 1 /\ l.at = Append(path, j)
ScopeLocals(stmts, path) == {l \in Variables : IsLocal(l, stmts, path)}

LEMMA DeclaredIs ==
    ASSUME NEW stmts \in Seq(Statements), NEW path \in Seq(Nat), NEW n \in 1..Len(stmts)
    PROVE  Declared(stmts, n, path) \in Seq(ScopeLocals(stmts, path))
<1>1. CASE stmts[n].k # "let"
  BY <1>1 DEF Declared
<1>2. CASE stmts[n].k = "let"
  <2>1. stmts[n] \in Statements
    OBVIOUS
  <2>2. IsStatement(stmts[n])
    BY <2>1, SyntaxAssumption
  <2>3. stmts[n].x \in STRING /\ stmts[n].t \in Types
    BY <1>2, <2>2 DEF IsStatement
  <2>4. PICK at : at = Append(path, n)
    OBVIOUS
  <2>5. at \in Seq(Nat)
    BY <2>4
  <2>6. PICK l : l = [name |-> stmts[n].x, type |-> stmts[n].t,
                      from |-> n - 1, to |-> Len(stmts) - 1, at |-> at]
    OBVIOUS
  <2>7. n - 1 \in Nat /\ Len(stmts) - 1 \in Nat
    OBVIOUS
  <2>8. l \in Variables
    BY <2>3, <2>5, <2>6, <2>7 DEF Variables
  <2>9. IsLocal(l, stmts, path)
    BY <2>4, <2>6 DEF IsLocal
  <2>10. l \in ScopeLocals(stmts, path)
    BY <2>8, <2>9 DEF ScopeLocals
  <2>11. Declared(stmts, n, path) = <<l>>
    BY <1>2, <2>4, <2>6 DEF Declared
  <2> QED
    BY <2>10, <2>11
<1> QED
  BY <1>1, <1>2

LEMMA LocalsAre ==
    ASSUME NEW stmts \in Seq(Statements), NEW path \in Seq(Nat)
    PROVE  LocalsOf(stmts, path) \in Seq(ScopeLocals(stmts, path))
<1>0. PICK n \in Nat : n = Len(stmts)
  OBVIOUS
<1> DEFINE V == Seq(ScopeLocals(stmts, path))
           Step(f, i) == IF i = 0 THEN <<>> ELSE f[i - 1] \o Declared(stmts, i, path)
           F(f) == [i \in 0..n |-> Step(f, i)]
           C == 0..n
           D == [i \in C |-> i]
           G == [i \in C |-> [f \in [C -> V] |-> Step(f, i)]]
<1>1. <<>> \in V
  OBVIOUS
<1>2. \A a \in V, i \in 1..n : a \o Declared(stmts, i, path) \in V
  <2>1. \A i \in 1..n : Declared(stmts, i, path) \in V
    BY <1>0, DeclaredIs
  <2>2. \A a, b \in V : a \o b \in V
    OBVIOUS
  <2> HIDE DEF V
  <2> QED BY <2>1, <2>2
<1>3. \A i \in C : i # 0 => i - 1 \in C /\ i \in 1..n /\ i - 1 < i
  OBVIOUS
<1>4. \A f \in [C -> V], i \in C : Step(f, i) \in V
  <2> HIDE DEF V
  <2> QED BY <1>1, <1>2, <1>3
<1>5. Recursion(G, C, D, V)
  <2>1. D \in [C -> Nat] /\ V # {}
    <3> HIDE DEF V
    <3> QED BY <1>1
  <2>2. G \in [C -> [[C -> V] -> V]]
    <3> HIDE DEF Step, C, V
    <3> QED BY <1>4
  <2>3. Downward(G, C, D, V)
    <3> SUFFICES ASSUME NEW c \in C, NEW f \in [C -> V], NEW g \in [C -> V],
                        \A d \in C : D[d] < D[c] => f[d] = g[d]
                 PROVE  G[c][f] = G[c][g]
      BY DEF Downward
    <3>1. c # 0 => f[c - 1] = g[c - 1]
      <4> HIDE DEF V
      <4> QED BY <1>3
    <3>2. Step(f, c) = Step(g, c)
      BY <3>1
    <3> HIDE DEF Step, C, V
    <3> QED BY <3>2
  <2> HIDE DEF G, C, D, V
  <2> QED BY <2>1, <2>2, <2>3 DEF Recursion
<1>6. \E f \in [C -> V] : f = F(f)
  <2>1. HasSolution(G, C, V)
    <3> HIDE DEF G, C, D, V
    <3> QED BY <1>5, RecursionHolds
  <2>2. PICK f \in [C -> V] : \A c \in C : f[c] = G[c][f]
    <3> HIDE DEF G, C, V
    <3> QED BY <2>1 DEF HasSolution
  <2>3. \A c \in C : f[c] = Step(f, c)
    <3> HIDE DEF Step, C, V
    <3> QED BY <2>2
  <2>4. f = F(f)
    <3> HIDE DEF Step, V
    <3> QED BY <2>3
  <2> HIDE DEF F, C, V
  <2> QED BY <2>4
<1>7. PICK u : u = CHOOSE f : f = F(f)
  OBVIOUS
<1>8. u = F(u)
  <2> HIDE DEF F
  <2> QED BY <1>6, <1>7
<1>9. LocalsOf(stmts, path) = u[n]
  BY <1>0, <1>7 DEF LocalsOf
<1>10. \A i \in C : u[i] = Step(u, i)
  <2> HIDE DEF Step
  <2> QED BY <1>8
<1> DEFINE T == {i \in C : u[i] \in V}
<1>11. 0 \in T
  <2>1. 0 \in C /\ u[0] = <<>>
    <3> HIDE DEF V
    <3> QED BY <1>10
  <2> HIDE DEF V
  <2> QED BY <1>1, <2>1
<1>12. \A i \in 1..n : i - 1 \in T => i \in T
  <2> HIDE DEF V
  <2> SUFFICES ASSUME NEW i \in 1..n, i - 1 \in T PROVE i \in T
    OBVIOUS
  <2>1. i \in C /\ u[i] = u[i - 1] \o Declared(stmts, i, path)
    <3>1. i \in C /\ i # 0
      OBVIOUS
    <3>2. u[i] = Step(u, i)
      <4> HIDE DEF Step, T
      <4> QED BY <1>10, <3>1
    <3> QED
      BY <3>1, <3>2
  <2> QED BY <1>2, <2>1
<1>13. n \in T
  <2>1. \A i \in 0..n : i \in T
    <3> HIDE DEF T
    <3> QED BY <1>11, <1>12, UpToInduction
  <2> HIDE DEF T
  <2> QED BY <2>1
<1> QED
  BY <1>9, <1>13


LEMMA SiblingsFollow ==
    ASSUME NEW path \in Seq(Nat), NEW j \in Nat, NEW i \in Nat, j <= i
    PROVE  FollowsDeclaration(Append(path, j), Append(path, i))
<1>1. CASE j = i
  BY <1>1 DEF FollowsDeclaration
<1>2. CASE j # i
  <2>1. j < i
    BY <1>2
  <2>2. PICK p : p = Append(path, j)
    OBVIOUS
  <2>3. PICK q : q = Append(path, i)
    OBVIOUS
  <2>4. PICK n : n = Len(path) + 1
    OBVIOUS
  <2>5. n \in DOMAIN p /\ n \in DOMAIN q /\ p[n] = j /\ q[n] = i
    BY <2>2, <2>3, <2>4
  <2>6. \A k \in 1..(n - 1) : p[k] = q[k]
    BY <2>2, <2>3, <2>4
  <2>7. Before(p, q)
    BY <2>1, <2>5, <2>6 DEF Before
  <2> QED
    BY <2>2, <2>3, <2>7 DEF FollowsDeclaration
<1> QED
  BY <1>1, <1>2

\* Nothing in the scopes is nested deeper than the statement.
Outer(e) ==
    \A l \in DOMAIN e.chain : \A i \in DOMAIN e.chain[l] : Len(e.chain[l][i].at) <= Len(e.at)

\* The environment of the i-th statement of the n-th inner scope.
InnerAt(stmts, n, e, i) ==
    StatementAt([Around(LocalsOf(stmts, Append(e.at, n)), e) EXCEPT !.at = Append(e.at, n)], i)

LEMMA ProperIsOuter ==
    ASSUME NEW e, Proper(e)
    PROVE  Outer(e)
BY DEF Proper, Outer

LEMMA InnerIs ==
    ASSUME NEW e \in Environments, NEW stmts \in Seq(Statements), Len(stmts) < SizeMax,
           NEW n \in Nat, NEW i \in 1..Len(stmts)
    PROVE  /\ InnerAt(stmts, n, e, i) \in Environments
           /\ InnerAt(stmts, n, e, i).init = e.init
           /\ Outer(e) => Proper(InnerAt(stmts, n, e, i))
<1>0. e.chain \in Seq(Seq(Variables)) /\ e.at \in Seq(Nat) /\ SizeMax \in Nat
  BY EnvironmentIs, WorldAssumption
<1>1. PICK path : path = Append(e.at, n)
  OBVIOUS
<1>2. path \in Seq(Nat) /\ Len(path) = Len(e.at) + 1
  BY <1>0, <1>1
<1>3. PICK own : own = LocalsOf(stmts, path)
  OBVIOUS
<1>4. own \in Seq(ScopeLocals(stmts, path))
  BY <1>2, <1>3, LocalsAre
<1>5. \A k \in DOMAIN own : own[k] \in Variables /\ IsLocal(own[k], stmts, path)
  BY <1>4 DEF ScopeLocals
<1>6. own \in Seq(Variables)
  <2>1. DOMAIN own = 1..Len(own) /\ Len(own) \in Nat /\ own = [k \in 1..Len(own) |-> own[k]]
    BY <1>4
  <2>2. \A k \in 1..Len(own) : own[k] \in Variables
    BY <1>5, <2>1
  <2> QED
    BY <2>1, <2>2, SeqDef
<1>7. PICK chain : chain = <<own>> \o e.chain
  OBVIOUS
<1>8. /\ chain \in Seq(Seq(Variables)) /\ chain[1] = own
      /\ \A l \in DOMAIN chain : l = 1 \/ (l > 1 /\ l - 1 \in DOMAIN e.chain /\ chain[l] = e.chain[l - 1])
  BY <1>0, <1>6, <1>7
<1>9. PICK at : at = Append(path, i)
  OBVIOUS
<1>10. at \in Seq(Nat) /\ Len(at) = Len(e.at) + 2
  BY <1>2, <1>9
<1>11. PICK d : d = InnerAt(stmts, n, e, i)
  OBVIOUS
<1>12. d = [[[e EXCEPT !.chain = chain] EXCEPT !.at = path] EXCEPT !.idx = i - 1, !.at = Append(path, i)]
  <2>1. PICK a : a = Around(own, e)
    OBVIOUS
  <2>2. a = [e EXCEPT !.chain = chain]
    BY <1>7, <2>1 DEF Around
  <2>3. PICK b : b = [a EXCEPT !.at = path]
    OBVIOUS
  <2>4. b.at = path
    BY <2>2, <2>3 DEF Environments
  <2>5. d = StatementAt(b, i)
    BY <1>1, <1>3, <1>11, <2>1, <2>3 DEF InnerAt
  <2>6. d = [b EXCEPT !.idx = i - 1, !.at = Append(path, i)]
    BY <2>4, <2>5 DEF StatementAt
  <2> QED
    BY <2>2, <2>3, <2>6
<1>13. /\ d \in Environments /\ d.init = e.init /\ d.chain = chain /\ d.idx = i - 1 /\ d.at = at
  <2>1. i - 1 \in Nat
    OBVIOUS
  <2> QED
    BY <1>2, <1>8, <1>9, <1>10, <1>12, <2>1 DEF Environments
<1>14. ASSUME NEW k \in DOMAIN own
       PROVE  /\ Len(own[k].at) = Len(at)
              /\ \A m \in {i - 1, SizeMax} :
                    own[k].from <= m /\ m <= own[k].to => FollowsDeclaration(own[k].at, at)
  <2>1. PICK j \in 1..Len(stmts) :
            own[k].from = j - 1 /\ own[k].to = Len(stmts) - 1 /\ own[k].at = Append(path, j)
    BY <1>5 DEF IsLocal
  <2>2. j <= i => FollowsDeclaration(own[k].at, at)
    BY <1>2, <1>9, <2>1, SiblingsFollow
  <2>3. j - 1 <= i - 1 => j <= i
    OBVIOUS
  <2>4. ~(SizeMax <= Len(stmts) - 1)
    BY <1>0
  <2>5. Len(own[k].at) = Len(at)
    BY <1>2, <1>9, <2>1
  <2> QED
    BY <2>1, <2>2, <2>3, <2>4, <2>5
<1>15. ASSUME Outer(e), NEW l \in DOMAIN chain, NEW k \in DOMAIN chain[l]
       PROVE  /\ Len(chain[l][k].at) <= Len(at)
              /\ l > 1 => Len(chain[l][k].at) < Len(at)
              /\ l = 1 => \A m \in {i - 1, SizeMax} :
                    chain[l][k].from <= m /\ m <= chain[l][k].to => FollowsDeclaration(chain[l][k].at, at)
  <2>1. CASE l = 1
    <3>1. chain[l] = own /\ ~(l > 1)
      BY <1>8, <2>1
    <3>2. k \in DOMAIN own
      BY <3>1
    <3> QED
      BY <1>10, <1>14, <3>1, <3>2
  <2>2. CASE l # 1
    <3>1. l - 1 \in DOMAIN e.chain /\ chain[l] = e.chain[l - 1]
      BY <1>8, <2>2
    <3>2. Len(chain[l][k].at) <= Len(e.at)
      BY <1>15, <3>1 DEF Outer
    <3>3. chain[l][k] \in Variables
      BY <1>8
    <3>4. Len(chain[l][k].at) \in Nat /\ Len(e.at) \in Nat
      BY <1>0, <3>3 DEF Variables
    <3>5. Len(chain[l][k].at) < Len(at) /\ Len(chain[l][k].at) <= Len(at)
      BY <1>10, <3>2, <3>4
    <3> QED
      BY <2>2, <3>5
  <2> QED
    BY <2>1, <2>2
<1>16. Outer(e) => Proper(d)
  BY <1>13, <1>15 DEF Proper
<1> QED
  BY <1>11, <1>13, <1>16

LEMMA NestedIs ==
    ASSUME NEW done, NEW stmts \in Seq(Statements), Len(stmts) < SizeMax, NEW n \in Nat,
           NEW e \in Environments,
           \A s \in Range(stmts) : \A d \in Environments : Kept(d, done[s][d]),
           NEW f, f.init = e.init, Proper(f) => Outer(e)
    PROVE  Kept(f, Nested(done, stmts, n, e))
<1>1. PICK rs : rs = [i \in DOMAIN stmts |-> done[stmts[i]][InnerAt(stmts, n, e, i)]]
  OBVIOUS
<1>2. Nested(done, stmts, n, e) = InTurn(rs)
  BY <1>1 DEF Nested, InnerAt
<1>3. PICK len \in Nat : len = Len(stmts)
  OBVIOUS
<1>4. DOMAIN stmts = 1..len /\ DOMAIN rs = 1..len /\ len = Len(rs)
  BY <1>1, <1>3
<1>5. ASSUME NEW i \in 1..len PROVE Kept(f, rs[i])
  <2>1. PICK d : d = InnerAt(stmts, n, e, i)
    OBVIOUS
  <2>2. d \in Environments /\ d.init = e.init /\ (Outer(e) => Proper(d))
    BY <1>3, <2>1, InnerIs
  <2>3. stmts[i] \in Range(stmts)
    BY <1>4 DEF Range
  <2>4. PICK r : r = done[stmts[i]][d]
    OBVIOUS
  <2>5. Kept(d, r)
    BY <2>2, <2>3, <2>4
  <2>6. Kept(f, r)
    BY <2>2, <2>5, KeptMoves
  <2>7. rs[i] = r
    BY <1>1, <1>4, <2>1, <2>4
  <2> QED
    BY <2>6, <2>7
<1>6. Kept(f, InTurn(rs))
  BY <1>4, <1>5, InTurnKept
<1> QED
  BY <1>2, <1>6


-----------------------------------------------------------------------------
(* Statements of any depth *)

\* What resolving the statements nested in s leaves, in any environment.
StatementsDone(f, s) ==
    \A t \in Statements : Depth[t] < Depth[s] => \A e \in Environments : Kept(e, f[t][e])

LEMMA ScopeIs ==
    ASSUME NEW f, NEW s \in Statements, StatementsDone(f, s), NEW stmts, IsScope(stmts),
           Deeper(s, Range(stmts)), NEW n \in Nat, NEW e \in Environments,
           NEW g \in Environments, g.init = e.init, Proper(e) => Outer(g)
    PROVE  Kept(e, Nested(f, stmts, n, g))
<1>1. stmts \in Seq(Statements) /\ Len(stmts) < SizeMax
  BY DEF IsScope
<1>2. \A t \in Range(stmts) : t \in Statements /\ Depth[t] < Depth[s]
  BY <1>1 DEF Deeper, Range
<1>3. \A t \in Range(stmts) : \A d \in Environments : Kept(d, f[t][d])
  BY <1>2 DEF StatementsDone
<1> QED
  BY <1>1, <1>3, NestedIs

LEMMA IteratorIs ==
    ASSUME NEW s, s.x \in STRING, s.t \in Types, NEW e \in Environments
    PROVE  /\ Around(Iterator(s, e), e) \in Environments
           /\ Around(Iterator(s, e), e).init = e.init
           /\ Outer(e) => Outer(Around(Iterator(s, e), e))
<1>0. e.chain \in Seq(Seq(Variables)) /\ e.at \in Seq(Nat) /\ SizeMax \in Nat
  BY EnvironmentIs, WorldAssumption
<1>1. PICK l : l = [name |-> s.x, type |-> s.t, from |-> 0, to |-> SizeMax, at |-> e.at]
  OBVIOUS
<1>2. l \in Variables /\ l.at = e.at
  BY <1>0, <1>1 DEF Variables
<1>3. PICK own : own = <<l>>
  OBVIOUS
<1>4. own \in Seq(Variables) /\ DOMAIN own = {1} /\ own[1] = l
  BY <1>2, <1>3
<1>5. PICK chain : chain = <<own>> \o e.chain
  OBVIOUS
<1>6. /\ chain \in Seq(Seq(Variables)) /\ chain[1] = own
      /\ \A k \in DOMAIN chain : k = 1 \/ (k > 1 /\ k - 1 \in DOMAIN e.chain /\ chain[k] = e.chain[k - 1])
  BY <1>0, <1>4, <1>5
<1>7. PICK g : g = Around(Iterator(s, e), e)
  OBVIOUS
<1>8. g = [e EXCEPT !.chain = chain]
  BY <1>1, <1>3, <1>5, <1>7 DEF Around, Iterator
<1>9. g \in Environments /\ g.init = e.init /\ g.chain = chain /\ g.at = e.at
  BY <1>6, <1>8 DEF Environments
<1>10. ASSUME Outer(e), NEW k \in DOMAIN chain, NEW i \in DOMAIN chain[k]
       PROVE  Len(chain[k][i].at) <= Len(e.at)
  <2>1. CASE k = 1
    <3>1. chain[k][i].at = e.at
      BY <1>2, <1>4, <1>6, <2>1
    <3>2. Len(e.at) \in Nat
      BY <1>0
    <3> QED
      BY <3>1, <3>2
  <2>2. CASE k # 1
    BY <1>6, <1>10, <2>2 DEF Outer
  <2> QED
    BY <2>1, <2>2
<1>11. Outer(e) => Outer(g)
  BY <1>9, <1>10 DEF Outer
<1> QED
  BY <1>7, <1>9, <1>11

LEMMA IfIs ==
    ASSUME NEW f, NEW s \in Statements, s.k = "if", StatementsDone(f, s), NEW e \in Environments
    PROVE  Kept(e, StatementFrom(f, s, e))
<1>0. IsStatement(s)
  BY SyntaxAssumption
<1>1. /\ s.conds \in Seq(Values) /\ s.bodies \in Seq(Seq(Statements))
      /\ \A b \in Range(s.bodies) : IsScope(b) /\ Deeper(s, Range(b))
      /\ Len(s.bodies) - Len(s.conds) \in {0, 1}
  BY <1>0 DEF IsStatement
<1>2. PICK c \in Nat : c = Len(s.conds)
  BY <1>1
<1>3. PICK b \in Nat : b = Len(s.bodies)
  BY <1>1
<1>4. c <= b /\ DOMAIN s.conds = 1..c /\ DOMAIN s.bodies = 1..b
  BY <1>1, <1>2, <1>3
<1>5. \A n \in 1..b : IsScope(s.bodies[n]) /\ Deeper(s, Range(s.bodies[n]))
  BY <1>1, <1>4 DEF Range
<1>6. \A n \in 1..b : Kept(e, Nested(f, s.bodies[n], n, e))
  BY <1>5, ScopeIs, ProperIsOuter
<1>7. PICK rs : rs = Branches(f, s, e)
  OBVIOUS
<1>8. DOMAIN rs = 1..c /\ c = Len(rs)
  BY <1>4, <1>7 DEF Branches
<1>9. ASSUME NEW n \in 1..c PROVE Kept(e, rs[n])
  <2>1. PICK v \in Values : v = s.conds[n]
    BY <1>1, <1>4
  <2>2. PICK val : val = Value(v, e)
    OBVIOUS
  <2>3. Resolved(v, e, val)
    BY <2>2, ValueIs
  <2>4. PICK inner : inner = Nested(f, s.bodies[n], n, e)
    OBVIOUS
  <2>5. Kept(e, inner)
    BY <1>4, <1>6, <2>4
  <2>6. rs[n] = Conditioned(val, inner)
    BY <1>4, <1>7, <2>1, <2>2, <2>4 DEF Branches
  <2> QED
    BY <2>3, <2>5, <2>6, ConditionedIs
<1>10. PICK branches : branches = InTurn(rs)
  OBVIOUS
<1>11. Kept(e, branches)
  BY <1>8, <1>9, <1>10, InTurnKept
<1>12. PICK otherwise : otherwise = Otherwise(f, s, e)
  OBVIOUS
<1>13. Kept(e, otherwise)
  <2>1. CASE b > c
    <3>1. Last(s.bodies) = s.bodies[b] /\ b \in 1..b
      BY <1>3, <2>1 DEF Last
    <3>2. otherwise = Nested(f, s.bodies[b], b, e)
      BY <1>2, <1>3, <1>12, <2>1, <3>1 DEF Otherwise
    <3> QED
      BY <1>6, <3>1, <3>2
  <2>2. CASE ~(b > c)
    <3>1. otherwise = Result(Absent)
      BY <1>2, <1>3, <1>12, <2>2 DEF Otherwise
    <3> QED
      BY <3>1, NothingKept
  <2> QED
    BY <2>1, <2>2
<1>14. StatementFrom(f, s, e) = Both(branches, otherwise)
  BY <1>7, <1>10, <1>12 DEF StatementFrom
<1> QED
  BY <1>11, <1>13, <1>14, BothKept

LEMMA StatementFromIs ==
    ASSUME NEW f, NEW s \in Statements, StatementsDone(f, s), NEW e \in Environments
    PROVE  Kept(e, StatementFrom(f, s, e))
<1>0. IsStatement(s)
  BY SyntaxAssumption
<1>1. CASE s.k = "let"
  <2>1. s.x \in STRING /\ s.t \in Types /\ s.v \in Values
    BY <1>0, <1>1 DEF IsStatement
  <2>2. PICK l : l = DeclaredVariable(s, e)
    OBVIOUS
  <2>3. Kept(e, l) /\ l.ty \in Types
    BY <2>1, <2>2, DeclaredVariableIs
  <2>4. PICK r : r = Value(s.v, e)
    OBVIOUS
  <2>5. Sane(e, r)
    BY <2>1, <2>4, ValueIs DEF Resolved
  <2>6. StatementFrom(f, s, e) = AssignVariable(l, r)
    BY <1>1, <2>2, <2>4 DEF StatementFrom
  <2> QED
    BY <2>3, <2>5, <2>6, AssignedIs
<1>2. CASE s.k \in {"assign", "assignelement"}
  <2>1. s.target \in Values /\ s.v \in Values /\ s.target.k \in {"name", "access"}
    BY <1>0, <1>2 DEF IsStatement
  <2>2. PICK l : l = Value(s.target, e)
    OBVIOUS
  <2>3. Kept(e, l) /\ (l.ok = TRUE => l.ty \in Types) /\ (Answered(l) => Known(l.ty))
    <3>1. Sane(e, l) /\ (l.ok = TRUE => l.ty \in Types) /\ (Answered(l) => Settled(l.ty))
      BY <2>1, <2>2, ValueIs DEF Resolved
    <3>2. Answered(l) => l.ty # RangeType
      <4>1. RangeType \notin Types
        BY TypesAre DEF RangeType, NoTypes
      <4> QED
        BY <3>1, <4>1 DEF Answered
    <3> QED
      BY <3>1, <3>2, SaneIsKept DEF Settled
  <2>4. PICK r : r = Value(s.v, e)
    OBVIOUS
  <2>5. Sane(e, r)
    BY <2>1, <2>4, ValueIs DEF Resolved
  <2>6. s.k = "assign" => StatementFrom(f, s, e) = AssignVariable(l, r)
    BY <2>2, <2>4 DEF StatementFrom
  <2>7. s.k = "assignelement" => StatementFrom(f, s, e) = AssignElement(l, r)
    BY <2>2, <2>4 DEF StatementFrom
  <2> QED
    BY <1>2, <2>3, <2>5, <2>6, <2>7, AssignedIs
<1>3. CASE s.k = "if"
  BY <1>3, IfIs
<1>4. CASE s.k = "while"
  <2>1. s.c \in Values /\ IsScope(s.body) /\ Deeper(s, Range(s.body))
    BY <1>0, <1>4 DEF IsStatement
  <2>2. PICK c : c = Value(s.c, e)
    OBVIOUS
  <2>3. Resolved(s.c, e, c)
    BY <2>1, <2>2, ValueIs
  <2>4. PICK inner : inner = Nested(f, s.body, 1, e)
    OBVIOUS
  <2>5. Kept(e, inner)
    BY <2>1, <2>4, ScopeIs, ProperIsOuter
  <2>6. StatementFrom(f, s, e) = Conditioned(c, inner)
    BY <1>4, <2>2, <2>4 DEF StatementFrom
  <2> QED
    BY <2>3, <2>5, <2>6, ConditionedIs
<1>5. CASE s.k = "for"
  <2>1. /\ s.x \in STRING /\ s.t \in Types /\ s.coll \in Values
        /\ IsScope(s.body) /\ Deeper(s, Range(s.body))
    BY <1>0, <1>5 DEF IsStatement
  <2>2. PICK coll : coll = Value(s.coll, e)
    OBVIOUS
  <2>3. Kept(e, coll)
    BY <2>1, <2>2, ValueIs, SaneIsKept DEF Resolved
  <2>4. PICK first : first = IF s.coll.k = "range" THEN Resolve[s.coll.l][e].ty ELSE Absent
    OBVIOUS
  <2>5. first \in AllTypes
    <3>1. s.coll.k = "range" => s.coll.l \in Values
      BY <2>1, SyntaxAssumption DEF IsValue
    <3>2. \A v \in Values : Resolve[v][e].ty \in AllTypes
      BY ResolveUnfolds DEF Resolved, Sane, Results
    <3> QED
      BY <2>4, <3>1, <3>2, TypesAre
  <2>6. PICK g : g = Around(Iterator(s, e), e)
    OBVIOUS
  <2>7. g \in Environments /\ g.init = e.init /\ (Outer(e) => Outer(g))
    BY <2>1, <2>6, IteratorIs
  <2>8. Proper(e) => Outer(g)
    BY <2>7, ProperIsOuter
  <2>9. PICK inner : inner = Nested(f, s.body, 1, g)
    OBVIOUS
  <2>10. Kept(e, inner)
    BY <2>1, <2>7, <2>8, <2>9, ScopeIs
  <2>11. StatementFrom(f, s, e) = ForValue(s, coll, first, inner)
    BY <1>5, <2>2, <2>4, <2>6, <2>9 DEF StatementFrom
  <2> QED
    BY <2>1, <2>3, <2>5, <2>10, <2>11, ForIs
<1>6. CASE s.k = "return"
  <2>1. s.v \in Values
    BY <1>0, <1>6 DEF IsStatement
  <2>2. PICK r : r = Value(s.v, e)
    OBVIOUS
  <2>3. Sane(e, r)
    BY <2>1, <2>2, ValueIs DEF Resolved
  <2>4. StatementFrom(f, s, e) = ReturnValue(r, e)
    BY <1>6, <2>2 DEF StatementFrom
  <2> QED
    BY <2>3, <2>4, ReturnIs
<1>7. CASE s.k \in {"super", "end"}
  <2>1. StatementFrom(f, s, e) = Result(Absent)
    BY <1>7 DEF StatementFrom
  <2> QED
    BY <2>1, NothingKept
<1>8. CASE s.k \in {"call", "new"}
  <2>1. s \in Values
    BY <1>0, <1>8 DEF IsStatement
  <2>2. StatementFrom(f, s, e) = Resolve[s][e]
    BY <1>8 DEF StatementFrom
  <2>3. Sane(e, Resolve[s][e])
    BY <2>1, ResolveUnfolds DEF Resolved
  <2> QED
    BY <2>2, <2>3, SaneIsKept
<1>9. \/ s.k = "let" \/ s.k \in {"assign", "assignelement"} \/ s.k = "if" \/ s.k = "while" \/ s.k = "for"
      \/ s.k = "return" \/ s.k \in {"super", "end"} \/ s.k \in {"call", "new"}
  BY <1>0 DEF IsStatement
<1> QED
  BY <1>1, <1>2, <1>3, <1>4, <1>5, <1>6, <1>7, <1>8, <1>9


LEMMA NestedAgrees ==
    ASSUME NEW f, NEW g, NEW s \in Statements, NEW stmts, IsScope(stmts), Deeper(s, Range(stmts)),
           \A t \in Statements : Depth[t] < Depth[s] => f[t] = g[t], NEW n, NEW e
    PROVE  Nested(f, stmts, n, e) = Nested(g, stmts, n, e)
<1>1. \A i \in DOMAIN stmts : stmts[i] \in Statements /\ Depth[stmts[i]] < Depth[s]
  BY DEF IsScope, Deeper, Range
<1>2. \A i \in DOMAIN stmts : f[stmts[i]] = g[stmts[i]]
  BY <1>1
<1>3. [i \in DOMAIN stmts |-> f[stmts[i]][InnerAt(stmts, n, e, i)]]
        = [i \in DOMAIN stmts |-> g[stmts[i]][InnerAt(stmts, n, e, i)]]
  BY <1>2
<1> QED
  BY <1>3 DEF Nested, InnerAt

LEMMA StatementFromAgrees ==
    ASSUME NEW f, NEW g, NEW s \in Statements, NEW e \in Environments,
           \A t \in Statements : Depth[t] < Depth[s] => f[t] = g[t]
    PROVE  StatementFrom(f, s, e) = StatementFrom(g, s, e)
<1>0. IsStatement(s)
  BY SyntaxAssumption
<1>1. CASE s.k = "if"
  <2>1. /\ s.conds \in Seq(Values) /\ s.bodies \in Seq(Seq(Statements))
        /\ \A b \in Range(s.bodies) : IsScope(b) /\ Deeper(s, Range(b))
        /\ Len(s.bodies) - Len(s.conds) \in {0, 1}
    BY <1>0, <1>1 DEF IsStatement
  <2>2. PICK c \in Nat : c = Len(s.conds)
    BY <2>1
  <2>3. PICK b \in Nat : b = Len(s.bodies)
    BY <2>1
  <2>4. c <= b /\ DOMAIN s.conds = 1..c /\ DOMAIN s.bodies = 1..b
    BY <2>1, <2>2, <2>3
  <2>5. \A n \in 1..b : IsScope(s.bodies[n]) /\ Deeper(s, Range(s.bodies[n]))
    BY <2>1, <2>4 DEF Range
  <2>6. \A n \in 1..b : Nested(f, s.bodies[n], n, e) = Nested(g, s.bodies[n], n, e)
    BY <2>5, NestedAgrees
  <2>7. Branches(f, s, e) = Branches(g, s, e)
    <3>1. \A n \in 1..c : n \in 1..b
      BY <2>4
    <3>2. \A n \in DOMAIN s.conds : Nested(f, s.bodies[n], n, e) = Nested(g, s.bodies[n], n, e)
      BY <2>4, <2>6, <3>1
    <3> QED
      BY <3>2 DEF Branches
  <2>8. Otherwise(f, s, e) = Otherwise(g, s, e)
    <3>1. CASE b > c
      <4>1. Last(s.bodies) = s.bodies[b] /\ b \in 1..b
        BY <2>3, <3>1 DEF Last
      <4>2. Nested(f, s.bodies[b], b, e) = Nested(g, s.bodies[b], b, e)
        BY <2>6, <4>1
      <4> QED
        BY <2>3, <4>1, <4>2 DEF Otherwise
    <3>2. CASE ~(b > c)
      BY <2>2, <2>3, <3>2 DEF Otherwise
    <3> QED
      BY <3>1, <3>2
  <2> QED
    BY <1>1, <2>7, <2>8 DEF StatementFrom
<1>2. CASE s.k = "while"
  <2>1. IsScope(s.body) /\ Deeper(s, Range(s.body))
    BY <1>0, <1>2 DEF IsStatement
  <2>2. Nested(f, s.body, 1, e) = Nested(g, s.body, 1, e)
    BY <2>1, NestedAgrees
  <2> QED
    BY <1>2, <2>2 DEF StatementFrom
<1>3. CASE s.k = "for"
  <2>1. IsScope(s.body) /\ Deeper(s, Range(s.body))
    BY <1>0, <1>3 DEF IsStatement
  <2>2. PICK around : around = Around(Iterator(s, e), e)
    OBVIOUS
  <2>3. Nested(f, s.body, 1, around) = Nested(g, s.body, 1, around)
    BY <2>1, NestedAgrees
  <2> QED
    BY <1>3, <2>2, <2>3 DEF StatementFrom
<1>4. CASE s.k \notin {"if", "while", "for"}
  BY <1>4 DEF StatementFrom
<1> QED
  BY <1>1, <1>2, <1>3, <1>4

LEMMA StatementUnfolds ==
    \A s \in Statements : \A e \in Environments : Kept(e, Statement[s][e])
<1> DEFINE V == [Environments -> Results]
           D == [s \in Statements |-> Depth[s]]
           Body(f, s) == [e \in Environments |-> StatementFrom(f, s, e)]
           G == [s \in Statements |-> [f \in [Statements -> V] |-> Body(f, s)]]
           Good == [s \in Statements |-> {h \in V : \A e \in Environments : Kept(e, h[e])}]
<1>1. V # {}
  <2>1. Result(Absent) \in Results
    BY ResultIs, TypesAre DEF Sane
  <2>2. [e \in Environments |-> Result(Absent)] \in V
    BY <2>1
  <2> QED
    BY <2>2
<1>2. \A s \in Statements : Good[s] \subseteq V
  OBVIOUS
<1>3. Downward(G, Statements, D, V)
  <2> SUFFICES ASSUME NEW s \in Statements, NEW f \in [Statements -> V], NEW g \in [Statements -> V],
                      \A t \in Statements : D[t] < D[s] => f[t] = g[t]
               PROVE  G[s][f] = G[s][g]
    BY DEF Downward
  <2>1. \A t \in Statements : Depth[t] < Depth[s] => f[t] = g[t]
    OBVIOUS
  <2>2. \A e \in Environments : StatementFrom(f, s, e) = StatementFrom(g, s, e)
    <3> HIDE DEF V, D
    <3> QED BY <2>1, StatementFromAgrees
  <2>3. Body(f, s) = Body(g, s)
    BY <2>2
  <2> HIDE DEF Body, V
  <2> QED BY <2>3
<1>4. ASSUME NEW s \in Statements, NEW f \in [Statements -> V],
             \A t \in Statements : D[t] < D[s] => f[t] \in Good[t]
      PROVE  G[s][f] \in Good[s]
  <2>1. StatementsDone(f, s)
    BY <1>4 DEF StatementsDone
  <2>2. \A e \in Environments : Kept(e, StatementFrom(f, s, e))
    BY <2>1, StatementFromIs
  <2>3. PICK b : b = Body(f, s)
    OBVIOUS
  <2>4. \A e \in Environments : Kept(e, b[e])
    BY <2>2, <2>3
  <2>5. \A e \in Environments : b[e] \in Results
    BY <2>4 DEF Kept, Sound
  <2>6. b \in V
    BY <2>3, <2>5
  <2>7. G[s][f] = b
    BY <2>3
  <2> QED
    BY <2>4, <2>6, <2>7
<1>5. D \in [Statements -> Nat]
  BY DepthIs
<1>6. \E f \in [Statements -> V] : \A s \in Statements : f[s] = G[s][f] /\ f[s] \in Good[s]
  <2> HIDE DEF V, D, G, Good
  <2>1. Keeps(G, Statements, D, V, Good)
    BY <1>2, <1>4 DEF Keeps
  <2> QED BY <1>1, <1>3, <1>5, <2>1, GoodSolution
<1>7. PICK f \in [Statements -> V] : \A s \in Statements : f[s] = G[s][f] /\ f[s] \in Good[s]
  BY <1>6
<1>8. \A s \in Statements : f[s] = Body(f, s)
  <2> HIDE DEF Body, V
  <2> QED BY <1>7
<1>9. f = [s \in Statements |-> Body(f, s)]
  <2> HIDE DEF Body, V
  <2> QED BY <1>8
<1>10. Statement = CHOOSE g : g = [s \in Statements |-> Body(g, s)]
  BY DEF Statement
<1>11. Statement = [s \in Statements |-> Body(Statement, s)]
  <2> HIDE DEF Body
  <2> QED BY <1>9, <1>10
<1>12. \A s \in Statements : Statement[s] = Body(Statement, s)
  <2> HIDE DEF Body
  <2> QED BY <1>11
<1>13. \A s \in Statements : \A e \in Environments : Statement[s][e] = StatementFrom(Statement, s, e)
  BY <1>12
<1> DEFINE T == {s \in Statements : \A e \in Environments : Kept(e, Statement[s][e])}
<1>14. ASSUME NEW s \in Statements, \A t \in Statements : D[t] < D[s] => t \in T PROVE s \in T
  <2>1. StatementsDone(Statement, s)
    BY <1>14 DEF StatementsDone
  <2>2. \A e \in Environments : Kept(e, StatementFrom(Statement, s, e))
    BY <2>1, StatementFromIs
  <2> QED
    BY <1>13, <2>2
<1>15. Statements \subseteq T
  <2> HIDE DEF T, D
  <2> QED BY <1>5, <1>14, DepthInduction
<1> QED
  BY <1>15


-----------------------------------------------------------------------------
(* A body, from the parser to the end of its analysis.  The variables of   *)
(* its scope and its statements are numbered alike, and a super call put   *)
(* before the body moves both: that a variable is accessible goes on       *)
(* meaning that its declaration comes first.                               *)

\* A variable of a scope of n statements, moved by shift: a parameter, or the variable of the j-th.
Stands(l, n, shift) ==
    \/ l.at = <<0>>
    \/ \E j \in 1..n : l.from = j - 1 + shift /\ l.to = n - 1 + shift /\ l.at = <<j>>
Standing(n, shift) == {l \in Variables : Stands(l, n, shift)}

\* A statement: no variable from a later one is accessible by its index.
Counted(b, shift) == \E k \in Nat : b.at = <<k>> /\ b.idx <= k - 1 + shift
Counting(shift) == {b \in [s : Statements, idx : Nat, at : Seq(Nat)] : Counted(b, shift)}

InStep(shift) ==
    locals \in Seq(Standing(Len(method.stmts), shift)) /\ body \in Seq(Counting(shift))

\* What was found so far does not depend on where: an initialiser has no scopes, a body only its own.
Outset == [init |-> IsInitializer, chain |-> <<>>]

BodyInv ==
    /\ method \in Cases /\ next \in Nat \ {0}
    /\ Kept(Outset, out)
    /\ phase = "prepare" => ~IsInitializer /\ InStep(0)
    /\ phase \notin {"parse", "prepare"} /\ ~IsInitializer => InStep(0) \/ InStep(1)
    /\ phase # "parse" /\ IsInitializer => body # <<>> /\ body[1].s \in Values

LEMMA NextOneIs ==
    ASSUME NEW n \in Nat
    PROVE  Next1(n) \in Nat /\ (n < SizeMax => Next1(n) = n + 1)
<1>1. PICK span : span = SizeMax + 1
  OBVIOUS
<1>2. span \in Nat /\ span > 0 /\ SizeMax \in Nat
  BY <1>1, WorldAssumption
<1>3. \A m \in Nat : m % span \in Nat /\ (m < span => m % span = m)
  BY <1>2
<1>4. Next1(n) = (n + 1) % span
  BY <1>1 DEF Next1
<1>5. n < SizeMax => n + 1 < span
  BY <1>1, <1>2
<1> QED
  BY <1>3, <1>4, <1>5

LEMMA CaseIs ==
    ASSUME NEW m \in Cases
    PROVE  /\ m.cls \in Class /\ m.returns \in KnownTypes /\ m.sins \subseteq STRING
           /\ m.static \in BOOLEAN /\ m.reversed \in BOOLEAN /\ m.ub \in {"ends", "goes on"}
           /\ m.kind = "initializer" => \E v \in Values : m.stmts = <<v>>
           /\ m.kind # "initializer" => m.stmts \in Seq(Statements) /\ Len(m.stmts) < SizeMax
           /\ m.params \in Seq([name : STRING, type : Types, from : {0}, to : Nat, at : {<<0>>}])
BY SyntaxAssumption DEF IsCase, IsScope, KnownTypes

(* The environment of a statement of the body. *)
LEMMA AccessibleFollows ==
    ASSUME NEW n \in Nat, n < SizeMax, NEW shift \in {0, 1}, NEW l \in Standing(n, shift),
           NEW b \in Counting(shift), NEW m \in {b.idx, SizeMax}, l.from <= m, m <= l.to
    PROVE  FollowsDeclaration(l.at, b.at)
<1>0. PICK k \in Nat : b.at = <<k>> /\ b.idx <= k - 1 + shift
  BY DEF Counting, Counted
<1>1. <<k>> = Append(<<>>, k)
  OBVIOUS
<1>2. <<>> \in Seq(Nat)
  OBVIOUS
<1>3. ASSUME NEW j \in Nat, j <= k, l.at = <<j>> PROVE FollowsDeclaration(l.at, b.at)
  <2>1. <<j>> = Append(<<>>, j)
    OBVIOUS
  <2> QED
    BY <1>0, <1>1, <1>2, <1>3, <2>1, SiblingsFollow
<1>4. CASE l.at = <<0>>
  <2>1. 0 \in Nat /\ 0 <= k
    OBVIOUS
  <2> QED
    BY <1>3, <1>4, <2>1
<1>5. CASE \E j \in 1..n : l.from = j - 1 + shift /\ l.to = n - 1 + shift /\ l.at = <<j>>
  <2>1. PICK j \in 1..n : l.from = j - 1 + shift /\ l.to = n - 1 + shift /\ l.at = <<j>>
    BY <1>5
  <2>2. SizeMax \in Nat /\ b.idx \in Nat
    BY WorldAssumption DEF Counting
  <2>3. m = b.idx
    BY <2>1, <2>2
  <2>4. j <= k /\ j \in Nat
    BY <1>0, <2>1, <2>2, <2>3
  <2> QED
    BY <1>3, <2>1, <2>4
<1> QED
  BY <1>4, <1>5 DEF Standing, Stands

LEMMA StatementEnvironmentIs ==
    ASSUME method \in Cases, ~IsInitializer, NEW shift \in {0, 1}, InStep(shift), NEW n \in DOMAIN body
    PROVE  /\ body[n].s \in Statements /\ Environment(n) \in Environments
           /\ Environment(n).init = FALSE /\ Proper(Environment(n))
<1>0. PICK len \in Nat : len = Len(method.stmts) /\ len < SizeMax
  <2>1. method.kind # "initializer"
    BY DEF IsInitializer
  <2>2. PICK stmts : stmts = method.stmts
    OBVIOUS
  <2>3. stmts \in Seq(Statements) /\ Len(stmts) < SizeMax
    BY <2>1, <2>2, CaseIs
  <2>4. Len(stmts) \in Nat
    BY <2>3
  <2> QED
    BY <2>2, <2>3, <2>4
<1>1. PICK b \in Counting(shift) : b = body[n]
  BY DEF InStep
<1>2. locals \in Seq(Standing(len, shift))
  BY <1>0 DEF InStep
<1>3. b.s \in Statements /\ b.idx \in Nat /\ b.at \in Seq(Nat) /\ Len(b.at) = 1
  <2>1. \A k : Len(<<k>>) = 1
    OBVIOUS
  <2> QED
    BY <2>1 DEF Counting, Counted
<1>4. locals \in Seq(Variables)
  <2>1. Standing(len, shift) \subseteq Variables
    BY DEF Standing
  <2> QED
    BY <1>2, <2>1
<1>5. PICK chain : chain = <<locals>>
  OBVIOUS
<1>6. chain \in Seq(Seq(Variables)) /\ DOMAIN chain = {1} /\ chain[1] = locals
  BY <1>4, <1>5
<1>7. PICK c : c = Context
  OBVIOUS
<1>8. c \in Contexts
  BY <1>7, CaseIs DEF Context, Contexts
<1>9. PICK e : e = Environment(n)
  OBVIOUS
<1>10. e = [m |-> c, init |-> FALSE, chain |-> chain, idx |-> b.idx, at |-> b.at]
  BY <1>1, <1>5, <1>7, <1>9 DEF Environment
<1>11. /\ e \in Environments /\ e.init = FALSE /\ e.chain = chain /\ e.idx = b.idx /\ e.at = b.at
  BY <1>3, <1>6, <1>8, <1>10 DEF Environments
<1>12. ASSUME NEW i \in DOMAIN locals
       PROVE  /\ Len(locals[i].at) <= Len(b.at)
              /\ \A m \in {b.idx, SizeMax} :
                    locals[i].from <= m /\ m <= locals[i].to => FollowsDeclaration(locals[i].at, b.at)
  <2>1. PICK l \in Standing(len, shift) : l = locals[i]
    BY <1>2
  <2>2. Len(l.at) = 1
    <3>1. \A k : Len(<<k>>) = 1
      OBVIOUS
    <3> QED
      BY <3>1 DEF Standing, Stands
  <2>3. \A m \in {b.idx, SizeMax} : l.from <= m /\ m <= l.to => FollowsDeclaration(l.at, b.at)
    BY <1>0, AccessibleFollows
  <2> QED
    BY <1>3, <2>1, <2>2, <2>3
<1>13. Proper(e)
  <2> SUFFICES ASSUME NEW l \in DOMAIN e.chain, NEW i \in DOMAIN e.chain[l]
               PROVE  /\ Len(e.chain[l][i].at) <= Len(e.at)
                      /\ l > 1 => Len(e.chain[l][i].at) < Len(e.at)
                      /\ l = 1 => \A n_ \in {e.idx, SizeMax} :
                            (e.chain[l][i].from <= n_ /\ n_ <= e.chain[l][i].to)
                                => FollowsDeclaration(e.chain[l][i].at, e.at)
    BY DEF Proper
  <2>1. l = 1 /\ e.chain[l] = locals /\ i \in DOMAIN locals /\ ~(l > 1)
    BY <1>6, <1>11
  <2> QED
    BY <1>11, <1>12, <2>1
<1> QED
  BY <1>1, <1>3, <1>9, <1>11, <1>13


LEMMA ParseInStep ==
    ASSUME method \in Cases, ~IsInitializer, Parse
    PROVE  locals' \in Seq(Standing(Len(method.stmts), 0)) /\ body' \in Seq(Counting(0))
<1>1. PICK stmts : stmts = method.stmts
  OBVIOUS
<1>2. stmts \in Seq(Statements) /\ Len(stmts) < SizeMax
  BY <1>1, CaseIs DEF IsInitializer
<1>3. PICK len \in Nat : len = Len(stmts)
  BY <1>2
<1>4. DOMAIN stmts = 1..len /\ SizeMax \in Nat
  BY <1>2, <1>3, WorldAssumption
<1>5. body' \in Seq(Counting(0))
  <2>1. ASSUME NEW n \in 1..len PROVE [s |-> stmts[n], idx |-> n - 1, at |-> <<n>>] \in Counting(0)
    <3>1. PICK b : b = [s |-> stmts[n], idx |-> n - 1, at |-> <<n>>]
      OBVIOUS
    <3>2. n \in Nat /\ n - 1 \in Nat /\ stmts[n] \in Statements /\ n - 1 <= n - 1 + 0
      BY <1>2, <1>4
    <3>3. <<n>> \in Seq(Nat)
      BY <3>2
    <3>4. b.at = <<n>> /\ b.idx = n - 1
      BY <3>1
    <3>5. Counted(b, 0)
      BY <3>2, <3>4 DEF Counted
    <3>6. b \in [s : Statements, idx : Nat, at : Seq(Nat)]
      BY <3>1, <3>2, <3>3
    <3> QED
      BY <3>1, <3>5, <3>6 DEF Counting
  <2>2. body' = [n \in 1..len |-> [s |-> stmts[n], idx |-> n - 1, at |-> <<n>>]]
    BY <1>1, <1>4 DEF Parse
  <2>3. \A n \in 1..len : body'[n] \in Counting(0)
    BY <2>1, <2>2
  <2> QED
    BY <2>2, <2>3, SeqDef
<1> DEFINE S == Standing(len, 0)
<1>6. ASSUME NEW last \in Nat
      PROVE  [n \in DOMAIN method.params |-> [method.params[n] EXCEPT !.to = last]] \in Seq(S)
  <2>1. PICK params : params = method.params
    OBVIOUS
  <2>2. params \in Seq([name : STRING, type : Types, from : {0}, to : Nat, at : {<<0>>}])
    BY <2>1, CaseIs
  <2>3. PICK count \in Nat : DOMAIN params = 1..count
    BY <2>2
  <2>4. ASSUME NEW n \in 1..count PROVE [params[n] EXCEPT !.to = last] \in S
    <3>1. PICK p \in [name : STRING, type : Types, from : {0}, to : Nat, at : {<<0>>}] : p = params[n]
      <4>1. \A R : params \in Seq(R) => params[n] \in R
        BY <2>3
      <4> QED
        BY <2>2, <4>1
    <3>2. <<0>> \in Seq(Nat) /\ 0 \in Nat
      OBVIOUS
    <3>3. PICK l : l = [p EXCEPT !.to = last]
      OBVIOUS
    <3>4. l.at = <<0>> /\ l \in Variables
      BY <3>2, <3>3 DEF Variables
    <3> QED
      BY <3>1, <3>3, <3>4 DEF Standing, Stands
  <2>5. PICK ps : ps = [n \in 1..count |-> [params[n] EXCEPT !.to = last]]
    OBVIOUS
  <2>6. \A n \in 1..count : ps[n] \in S
    BY <2>4, <2>5
  <2>7. ps \in Seq(S)
    <3> HIDE DEF S
    <3> QED BY <2>5, <2>6, SeqDef
  <2> HIDE DEF S
  <2> QED
    BY <2>1, <2>3, <2>5, <2>7
<1>7. LocalsOf(stmts, <<>>) \in Seq(S)
  <2>1. <<>> \in Seq(Nat)
    OBVIOUS
  <2>2. LocalsOf(stmts, <<>>) \in Seq(ScopeLocals(stmts, <<>>))
    BY <1>2, <2>1, LocalsAre
  <2>3. ScopeLocals(stmts, <<>>) \subseteq S
    <3> SUFFICES ASSUME NEW l \in ScopeLocals(stmts, <<>>) PROVE l \in S
      OBVIOUS
    <3>1. PICK j \in 1..len : l.from = j - 1 /\ l.to = len - 1 /\ l.at = Append(<<>>, j)
      BY <1>3 DEF ScopeLocals, IsLocal
    <3>2. l.from = j - 1 + 0 /\ l.to = len - 1 + 0 /\ l.at = <<j>>
      BY <3>1
    <3>3. l \in Variables
      BY DEF ScopeLocals
    <3> QED
      BY <3>2, <3>3 DEF Standing, Stands
  <2> HIDE DEF S
  <2> QED
    BY <2>2, <2>3
<1>8. PICK last : last = IF method.stmts = <<>> THEN SizeMax ELSE Len(method.stmts) - 1
  OBVIOUS
<1>9. last \in Nat
  <2>1. stmts # <<>> => len - 1 \in Nat
    BY <1>2, <1>3
  <2> QED
    BY <1>1, <1>3, <1>4, <1>8, <2>1
<1>10. PICK ps : ps = [n \in DOMAIN method.params |-> [method.params[n] EXCEPT !.to = last]]
  OBVIOUS
<1>11. ps \in Seq(S)
  <2> HIDE DEF S
  <2> QED BY <1>6, <1>9, <1>10
<1>12. locals' = ps \o LocalsOf(stmts, <<>>)
  BY <1>1, <1>8, <1>10 DEF Parse
<1>13. locals' \in Seq(S)
  <2>1. \A a, b \in Seq(S) : a \o b \in Seq(S)
    <3> HIDE DEF S
    <3> QED OBVIOUS
  <2> HIDE DEF S
  <2> QED BY <1>7, <1>11, <1>12, <2>1
<1> QED
  BY <1>1, <1>3, <1>5, <1>13


(* A super call is put before the body: the variables and the statements   *)
(* behind it move by one, together.                                        *)
LEMMA ShiftIs ==
    ASSUME NEW n \in Nat, n < SizeMax, locals \in Seq(Standing(n, 0)), body \in Seq(Counting(0))
    PROVE  ShiftedLocals(locals) \in Seq(Standing(n, 1)) /\ ShiftedBody \in Seq(Counting(1))
<1>0. SizeMax \in Nat
  BY WorldAssumption
<1>1. PICK count \in Nat : DOMAIN locals = 1..count
  OBVIOUS
<1>2. ASSUME NEW i \in 1..count
      PROVE  [locals[i] EXCEPT !.from = Next1(@), !.to = Next1(@)] \in Standing(n, 1)
  <2>1. PICK l \in Standing(n, 0) : l = locals[i]
    <3>1. \A R : locals \in Seq(R) => locals[i] \in R
      BY <1>1
    <3> QED
      BY <3>1
  <2>2. l \in Variables /\ l.from \in Nat /\ l.to \in Nat
    BY DEF Standing, Variables
  <2>3. PICK from : from = Next1(l.from)
    OBVIOUS
  <2>4. PICK to : to = Next1(l.to)
    OBVIOUS
  <2>5. from \in Nat /\ to \in Nat
    BY <2>2, <2>3, <2>4, NextOneIs
  <2>6. PICK q : q = [l EXCEPT !.from = from, !.to = to]
    OBVIOUS
  <2>7. q \in Variables /\ q.from = from /\ q.to = to /\ q.at = l.at
    BY <2>2, <2>5, <2>6 DEF Variables
  <2>8. Stands(q, n, 1)
    <3>1. CASE l.at = <<0>>
      BY <2>7, <3>1 DEF Stands
    <3>2. CASE l.at # <<0>>
      <4>1. PICK j \in 1..n : l.from = j - 1 + 0 /\ l.to = n - 1 + 0 /\ l.at = <<j>>
        BY <3>2 DEF Standing, Stands
      <4>2. l.from < SizeMax /\ l.to < SizeMax
        BY <1>0, <4>1
      <4>3. from = l.from + 1 /\ to = l.to + 1
        BY <2>2, <2>3, <2>4, <4>2, NextOneIs
      <4>4. from = j - 1 + 1 /\ to = n - 1 + 1
        BY <4>1, <4>3
      <4> QED
        BY <2>7, <4>1, <4>4 DEF Stands
    <3> QED
      BY <3>1, <3>2
  <2>9. q \in Standing(n, 1)
    BY <2>7, <2>8 DEF Standing
  <2> QED
    BY <2>1, <2>3, <2>4, <2>6, <2>9
<1>3. PICK ls : ls = ShiftedLocals(locals)
  OBVIOUS
<1>4. ls = [i \in 1..count |-> [locals[i] EXCEPT !.from = Next1(@), !.to = Next1(@)]]
  BY <1>1, <1>3 DEF ShiftedLocals
<1>5. \A i \in 1..count : ls[i] \in Standing(n, 1)
  BY <1>2, <1>4
<1>6. ls \in Seq(Standing(n, 1))
  <2>1. ls = [i \in 1..count |-> ls[i]]
    BY <1>4
  <2> QED
    BY <1>5, <2>1, SeqDef
<1>7. PICK size \in Nat : DOMAIN body = 1..size
  OBVIOUS
<1>8. ASSUME NEW i \in 1..size PROVE [body[i] EXCEPT !.idx = @ + 1] \in Counting(1)
  <2>1. PICK b \in Counting(0) : b = body[i]
    <3>1. \A R : body \in Seq(R) => body[i] \in R
      BY <1>7
    <3> QED
      BY <3>1
  <2>2. b \in [s : Statements, idx : Nat, at : Seq(Nat)]
    BY DEF Counting
  <2>3. PICK k \in Nat : b.at = <<k>> /\ b.idx <= k - 1 + 0
    BY DEF Counting, Counted
  <2>4. PICK q : q = [b EXCEPT !.idx = b.idx + 1]
    OBVIOUS
  <2>5. q.at = <<k>> /\ q.idx = b.idx + 1 /\ q \in [s : Statements, idx : Nat, at : Seq(Nat)]
    BY <2>2, <2>3, <2>4
  <2>6. q.idx <= k - 1 + 1
    BY <2>2, <2>3, <2>5
  <2>7. Counted(q, 1)
    BY <2>5, <2>6 DEF Counted
  <2> QED
    BY <2>1, <2>4, <2>5, <2>7 DEF Counting
<1>9. PICK bs : bs = ShiftedBody
  OBVIOUS
<1>10. bs = [i \in 1..size |-> [body[i] EXCEPT !.idx = @ + 1]]
  BY <1>7, <1>9 DEF ShiftedBody
<1>11. \A i \in 1..size : bs[i] \in Counting(1)
  BY <1>8, <1>10
<1>12. bs \in Seq(Counting(1))
  BY <1>10, <1>11, SeqDef
<1> QED
  BY <1>3, <1>6, <1>9, <1>12

LEMMA PrepareInStep ==
    ASSUME method \in Cases, ~IsInitializer, InStep(0), Prepare
    PROVE  \E shift \in {0, 1} :
                locals' \in Seq(Standing(Len(method.stmts), shift)) /\ body' \in Seq(Counting(shift))
<1>0. PICK len \in Nat : len = Len(method.stmts) /\ len < SizeMax
  <2>1. PICK stmts : stmts = method.stmts
    OBVIOUS
  <2>2. stmts \in Seq(Statements) /\ Len(stmts) < SizeMax
    BY <2>1, CaseIs DEF IsInitializer
  <2>3. Len(stmts) \in Nat
    BY <2>2
  <2> QED
    BY <2>1, <2>2, <2>3
<1>1. locals \in Seq(Standing(len, 0)) /\ body \in Seq(Counting(0))
  BY <1>0 DEF InStep
<1> DEFINE super == method.kind = "constructor" /\ ~StartsWith("super")
           called == IF super
                     THEN <<[s |-> [k |-> "super"], idx |-> 0, at |-> <<0>>]>> \o ShiftedBody
                     ELSE body
           returns == method.returns = Type("void") /\ (called = <<>> \/ Head(called).s.k # "return")
<1>2. /\ locals' = IF super THEN ShiftedLocals(locals) ELSE locals
      /\ body' = IF returns
                 THEN Append(called, [s |-> [k |-> "end"], idx |-> Len(called), at |-> <<Len(called) + 1>>])
                 ELSE called
  BY DEF Prepare
<1>3. PICK shift \in {0, 1} : shift = IF super THEN 1 ELSE 0
  OBVIOUS
<1>4. called \in Seq(Counting(shift)) /\ locals' \in Seq(Standing(len, shift))
  <2>1. CASE super
    <3>1. ShiftedLocals(locals) \in Seq(Standing(len, 1)) /\ ShiftedBody \in Seq(Counting(1))
      BY <1>0, <1>1, ShiftIs
    <3>2. PICK b : b = [s |-> [k |-> "super"], idx |-> 0, at |-> <<0>>]
      OBVIOUS
    <3>3. PICK call : call = [k |-> "super"]
      OBVIOUS
    <3>4. call \in Statements
      BY <3>3, SyntaxAssumption
    <3>5. b.at = <<0>> /\ b.idx = 0 /\ b \in [s : Statements, idx : Nat, at : Seq(Nat)]
      BY <3>2, <3>3, <3>4
    <3>6. Counted(b, 1)
      <4>1. 0 \in Nat /\ 0 <= 0 - 1 + 1
        OBVIOUS
      <4> QED
        BY <3>5, <4>1 DEF Counted
    <3>7. b \in Counting(1)
      BY <3>5, <3>6 DEF Counting
    <3>8. \A x \in Counting(1), q \in Seq(Counting(1)) : <<x>> \o q \in Seq(Counting(1))
      OBVIOUS
    <3>9. called = <<b>> \o ShiftedBody
      BY <2>1, <3>2
    <3>10. called \in Seq(Counting(1))
      <4> HIDE DEF called
      <4> QED BY <3>1, <3>7, <3>8, <3>9
    <3> HIDE DEF called
    <3> QED
      BY <1>2, <1>3, <2>1, <3>1, <3>10
  <2>2. CASE ~super
    BY <1>1, <1>2, <1>3, <2>2
  <2> QED
    BY <2>1, <2>2
<1> HIDE DEF super, called, returns
<1>5. Append(called, [s |-> [k |-> "end"], idx |-> Len(called), at |-> <<Len(called) + 1>>])
        \in Seq(Counting(shift))
  <2>1. PICK n \in Nat : n = Len(called)
    BY <1>4
  <2>2. PICK b : b = [s |-> [k |-> "end"], idx |-> n, at |-> <<n + 1>>]
    OBVIOUS
  <2>3. PICK end : end = [k |-> "end"]
    OBVIOUS
  <2>4. end \in Statements
    BY <2>3, SyntaxAssumption
  <2>5. PICK k \in Nat : k = n + 1
    OBVIOUS
  <2>6. b.at = <<k>> /\ b.idx = n /\ b \in [s : Statements, idx : Nat, at : Seq(Nat)]
    BY <2>2, <2>3, <2>4, <2>5
  <2>7. Counted(b, shift)
    <3>1. n <= k - 1 + shift
      BY <2>5
    <3> QED
      BY <2>6, <3>1 DEF Counted
  <2>8. b \in Counting(shift)
    BY <2>6, <2>7 DEF Counting
  <2>9. Append(called, b) \in Seq(Counting(shift))
    BY <1>4, <2>8
  <2> QED
    BY <2>1, <2>2, <2>9
<1>6. body' \in Seq(Counting(shift))
  BY <1>2, <1>4, <1>5
<1> QED
  BY <1>0, <1>4, <1>6


(* What an action reports and finds, judged from the outset. *)
LEMMA OutKept ==
    ASSUME BodyInv, Next
    PROVE  Kept(Outset, out')
<1>0. method \in Cases /\ Kept(Outset, out)
  BY DEF BodyInv
<1>1. CASE Parse \/ Prepare \/ Finish \/ Done
  <2>1. out' = out
    BY <1>1 DEF Parse, Prepare, Finish, Done, vars
  <2> QED
    BY <1>0, <2>1
<1>2. CASE Collect
  <2>1. PICK cond : cond = \E t \in SymbolTypes(locals)
                                    \cup UNION {InnerTypes[body[n].s] : n \in DOMAIN body} :
                                  ~Known(Type(t.base))
    OBVIOUS
  <2>2. out' = ReportIf(cond, out, "no such type")
    BY <1>2, <2>1 DEF Collect
  <2>3. "no such type" \in Messages
    BY MessagesAre
  <2> QED
    BY <1>0, <2>2, <2>3, ReportIfKept
<1>3. CASE ResolveStatement
  <2>1. ~IsInitializer /\ next <= Len(body) /\ phase = "resolve"
    BY <1>3 DEF ResolveStatement
  <2>2. PICK shift \in {0, 1} : InStep(shift)
    BY <2>1 DEF BodyInv
  <2>3. next \in DOMAIN body
    <3>1. next \in Nat \ {0} /\ body \in Seq(Counting(shift))
      BY <2>2 DEF BodyInv, InStep
    <3> QED
      BY <2>1, <3>1
  <2>4. PICK e : e = Environment(next)
    OBVIOUS
  <2>5. body[next].s \in Statements /\ e \in Environments /\ e.init = FALSE /\ Proper(e)
    BY <1>0, <2>1, <2>2, <2>3, <2>4, StatementEnvironmentIs
  <2>6. PICK r : r = Statement[body[next].s][e]
    OBVIOUS
  <2>7. Kept(e, r)
    BY <2>5, <2>6, StatementUnfolds
  <2>8. Outset.init = FALSE
    BY <2>1 DEF Outset, IsInitializer
  <2>9. Kept(Outset, r)
    BY <2>5, <2>7, <2>8, KeptMoves
  <2>10. out' = Both(out, r)
    BY <1>3, <2>4, <2>6 DEF ResolveStatement
  <2> QED
    BY <1>0, <2>9, <2>10, BothKept
<1>4. CASE ResolveInitializer
  <2>1. IsInitializer /\ phase = "resolve"
    BY <1>4 DEF ResolveInitializer
  <2>2. PICK v \in Values : v = body[1].s
    BY <2>1 DEF BodyInv
  <2>3. PICK e : e = [m |-> Context, init |-> TRUE, chain |-> <<>>, idx |-> SizeMax, at |-> <<1>>]
    OBVIOUS
  <2>4. e \in Environments /\ e.init = TRUE /\ Proper(e)
    <3>1. PICK c : c = Context
      OBVIOUS
    <3>2. c \in Contexts
      BY <1>0, <3>1, CaseIs DEF Context, Contexts
    <3>3. PICK none : none = <<>>
      OBVIOUS
    <3>4. none \in Seq(Seq(Variables)) /\ DOMAIN none = {}
      BY <3>3
    <3>5. PICK at : at = <<1>>
      OBVIOUS
    <3>6. at \in Seq(Nat) /\ SizeMax \in Nat
      BY <3>5, WorldAssumption
    <3>7. e = [m |-> c, init |-> TRUE, chain |-> none, idx |-> SizeMax, at |-> at]
      BY <2>3, <3>1, <3>3, <3>5
    <3>8. e \in Environments /\ e.init = TRUE /\ e.chain = none
      BY <3>2, <3>4, <3>6, <3>7 DEF Environments
    <3> QED
      BY <3>4, <3>8 DEF Proper
  <2>5. PICK r : r = Resolve[v][e]
    OBVIOUS
  <2>6. Resolved(v, e, r)
    BY <2>4, <2>5, ResolveUnfolds
  <2>7. Outset.init = TRUE
    BY <2>1 DEF Outset, IsInitializer
  <2>8. Kept(Outset, r) /\ r.ty \in AllTypes
    <3>1. Kept(e, r) /\ r.ty \in AllTypes
      BY <2>6, SaneIsKept DEF Resolved, Sane, Results
    <3> QED
      BY <2>4, <2>7, <3>1, KeptMoves
  <2>9. Kept(Outset, Report(out, "initialised per object"))
    <3>1. PICK err \in Messages : err = "initialised per object"
      BY MessagesAre
    <3> QED
      BY <1>0, <3>1, ReportKept
  <2>10. Kept(Outset, Put(r, method.returns, r.ty, "initializer"))
    <3>1. PICK want \in AllTypes : want = method.returns
      <4>1. method.returns \in Types
        BY <1>0, CaseIs, KnownAre
      <4> QED
        BY <4>1, TypesAre
    <3>2. Overlooked([want |-> want, got |-> r.ty, how |-> "initializer"])
      BY OverlookedIs
    <3>3. "initializer" \in Places
      BY PlacesAre
    <3>4. PICK err \in Messages : err = "no such type"
      BY MessagesAre
    <3>5. Kept(Outset, ReportIf(FALSE, Put(r, want, r.ty, "initializer"), err))
      BY <2>8, <3>2, <3>3, PutKept
    <3> QED
      BY <3>1, <3>5 DEF ReportIf
  <2>11. \/ out' = Report(out, "initialised per object")
         \/ out' = Put(r, method.returns, r.ty, "initializer")
         \/ out' = r
    BY <1>4, <2>2, <2>3, <2>5 DEF ResolveInitializer
  <2> QED
    BY <2>8, <2>9, <2>10, <2>11
<1> QED
  BY <1>1, <1>2, <1>3, <1>4 DEF Next

(* Nothing an action does takes the variables of the body's scope out of   *)
(* step with its statements.                                               *)
LEMMA BodyInvKept ==
    ASSUME BodyInv, [Next]_vars
    PROVE  BodyInv'
<1>0. method \in Cases /\ next \in Nat \ {0}
  BY DEF BodyInv
<1>1. CASE UNCHANGED vars
  BY <1>1 DEF BodyInv, vars, InStep, Outset, IsInitializer
<1>2. CASE Next
  <2>1. method' = method
    BY <1>2 DEF Next, Parse, Prepare, Collect, ResolveStatement, ResolveInitializer, Finish, Done, vars
  <2>2. (IsInitializer' <=> IsInitializer) /\ Outset' = Outset
    BY <2>1 DEF IsInitializer, Outset
  <2>3. next' \in Nat \ {0}
    <3>1. next' \in {next, next + 1, 2}
      BY <1>2 DEF Next, Parse, Prepare, Collect, ResolveStatement, ResolveInitializer, Finish, Done, vars
    <3> QED
      BY <1>0, <3>1
  <2>4. Kept(Outset', out')
    BY <1>2, <2>2, OutKept
  <2>5. CASE Parse
    <3>1. phase' = IF IsInitializer THEN "resolve" ELSE "prepare"
      BY <2>5 DEF Parse
    <3>2. ~IsInitializer => InStep(0)'
      BY <1>0, <2>1, <2>5, ParseInStep DEF InStep
    <3>3. IsInitializer => body' # <<>> /\ body'[1].s \in Values
      <4> SUFFICES ASSUME IsInitializer PROVE body' # <<>> /\ body'[1].s \in Values
        OBVIOUS
      <4>1. PICK v \in Values : method.stmts = <<v>>
        BY <1>0, CaseIs DEF IsInitializer
      <4>2. PICK stmts : stmts = method.stmts
        OBVIOUS
      <4>3. DOMAIN stmts = {1} /\ stmts[1] = v
        BY <4>1, <4>2
      <4>4. body' = [n \in DOMAIN stmts |-> [s |-> stmts[n], idx |-> n - 1, at |-> <<n>>]]
        BY <2>5, <4>2 DEF Parse
      <4>5. DOMAIN body' = {1} /\ body'[1].s = v
        BY <4>3, <4>4
      <4> QED
        BY <4>5
    <3> QED
      BY <1>0, <2>1, <2>2, <2>3, <2>4, <3>1, <3>2, <3>3 DEF BodyInv
  <2>6. CASE Prepare
    <3>1. ~IsInitializer /\ InStep(0) /\ phase' = "collect"
      BY <2>6 DEF Prepare, BodyInv
    <3>2. InStep(0)' \/ InStep(1)'
      BY <1>0, <2>1, <2>6, <3>1, PrepareInStep DEF InStep
    <3> QED
      BY <1>0, <2>1, <2>2, <2>3, <2>4, <3>1, <3>2 DEF BodyInv
  <2>7. CASE Collect \/ ResolveStatement \/ ResolveInitializer \/ Finish \/ Done
    <3>1. /\ locals' = locals /\ body' = body
          /\ phase' = phase \/ (phase \in {"collect", "resolve"} /\ phase' \in {"resolve", "done"})
      BY <2>7 DEF Collect, ResolveStatement, ResolveInitializer, Finish, Done, vars
    <3>2. (InStep(0)' <=> InStep(0)) /\ (InStep(1)' <=> InStep(1))
      BY <2>1, <3>1 DEF InStep
    <3> QED
      BY <1>0, <2>1, <2>2, <2>3, <2>4, <3>1, <3>2 DEF BodyInv
  <2> QED
    BY <1>2, <2>5, <2>6, <2>7 DEF Next
<1> QED
  BY <1>1, <1>2

LEMMA BodyInvAlways == Spec => []BodyInv
<1>1. Init => BodyInv
  <2> SUFFICES ASSUME Init PROVE BodyInv
    OBVIOUS
  <2>1. method \in Cases /\ phase = "parse" /\ next = 1 /\ out = Result(Absent)
    BY DEF Init
  <2>2. Kept(Outset, out)
    BY <2>1, NothingKept
  <2> QED
    BY <2>1, <2>2 DEF BodyInv
<1>2. BodyInv /\ [Next]_vars => BodyInv'
  BY BodyInvKept
<1> QED
  BY <1>1, <1>2, PTL DEF Spec

(* A value or statement that was left without a meaning does not get past  *)
(* the analyzer unreported, for bodies of any length and nesting: what     *)
(* remains is a second variable of one name in a scope and the initialiser *)
(* of a field (semantic_analyzer/statement/resolve_value,                  *)
(* variable_reference).                                                    *)
THEOREM HolesAreReported == Spec => []HolesReported
<1>1. BodyInv => HolesReported
  <2> SUFFICES ASSUME BodyInv, out.errs = {}
               PROVE  IsInitializer \/ \A v \in out.holes : v.k = "let"
    BY DEF HolesReported
  <2>1. Outset.init = TRUE \/ OnlyLets(out)
    BY DEF BodyInv, Kept
  <2>2. Outset.init = TRUE => IsInitializer
    BY DEF Outset, IsInitializer
  <2> QED
    BY <2>1, <2>2 DEF OnlyLets
<1> QED
  BY <1>1, BodyInvAlways, PTL

(* In an accepted body, whatever its world of types, every value fits the  *)
(* place it was put in or is one of the cases the code does not look at    *)
(* (make_widening_cast_maybe, do_types_match, resolve_method_call).        *)
THEOREM AcceptedValuesFit == Spec => []ValuesFit
<1>1. BodyInv => ValuesFit
  <2> SUFFICES ASSUME BodyInv, Accepted, NEW p \in out.puts
               PROVE  Fits(p.got, p.want) \/ Overlooked(p)
    BY DEF ValuesFit
  <2>1. Sound(Outset, out)
    BY DEF BodyInv, Kept
  <2>2. out.ended \in BOOLEAN
    BY <2>1 DEF Sound, Results
  <2>3. Clean(out)
    BY <2>2 DEF Accepted, Clean
  <2>4. p \in FitPuts
    BY <2>1, <2>3 DEF Sound
  <2> QED
    BY <2>4 DEF FitPuts
<1> QED
  BY <1>1, BodyInvAlways, PTL

(* In an accepted body every local variable is read after its declaration, *)
(* also when a super call was put before the body and moved the indexes    *)
(* that tell; a read in the variable's own initial value, from an inner    *)
(* scope and of a receiver are not looked at                               *)
(* (variable_reference::is_accessible, push_front_statement).              *)
THEOREM AcceptedReadsFollow == Spec => []ReadsAfterDeclaration
<1>1. BodyInv => ReadsAfterDeclaration
  <2> SUFFICES ASSUME BodyInv, Accepted, NEW r \in out.reads
               PROVE  \/ Before(r.decl, r.at) \/ r.decl = r.at
                      \/ Len(r.decl) < Len(r.at) \/ r.how = "receiver"
    BY DEF ReadsAfterDeclaration
  <2>1. Sound(Outset, out)
    BY DEF BodyInv, Kept
  <2>2. out.ended \in BOOLEAN
    BY <2>1 DEF Sound, Results
  <2>3. Clean(out)
    BY <2>2 DEF Accepted, Clean
  <2>4. Proper(Outset)
    <3>1. \A l \in DOMAIN Outset.chain : FALSE
      BY DEF Outset
    <3> QED
      BY <3>1 DEF Proper
  <2>5. r \in FineReads
    BY <2>1, <2>3, <2>4 DEF Sound
  <2> QED
    BY <2>5 DEF FineReads, FollowsDeclaration
<1> QED
  BY <1>1, BodyInvAlways, PTL

=============================================================================
