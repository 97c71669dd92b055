----------------------- MODULE MCStatementResolution -----------------------
(***************************************************************************)
(* Bodies for StatementResolution: every kind of value in every place a    *)
(* value can stand, of every kind of method, and short bodies whose        *)
(* statements declare, read and shadow variables in all orders.            *)
(***************************************************************************)
EXTENDS StatementResolution

T(b) == Type(b)
Arr(b) == [base |-> b, dims |-> 1]
M(params, static, returns) ==
  [params |-> params, static |-> static, returns |-> returns, sins |-> {}]

\* C is the class of the bodies, D its super type, E is neither; I is of a class file.
TheWorld ==
  [C |-> [super |-> "D", ifaces |-> {}, interface |-> FALSE,
          fields |-> [f |-> [type |-> T("int")], o |-> [type |-> T("D")], es |-> [type |-> Arr("E")],
                     bs |-> [type |-> Arr("boolean")]],
          methods |->
            ("<init>" :> <<M(<<>>, FALSE, T("void"))>>) @@
            ("self" :> <<M(<<>>, FALSE, T("C"))>>) @@
            ("num" :> <<M(<<T("long")>>, TRUE, T("long")), M(<<T("int")>>, TRUE, T("int"))>>) @@
            ("obj" :> <<M(<<T("D")>>, TRUE, T("boolean")), M(<<Arr("int")>>, FALSE, T("boolean"))>>) @@
            ("sin" :> <<[M(<<>>, TRUE, T("int")) EXCEPT !.sins = {"Sin"}]>>)],
   D |-> [super |-> "none", ifaces |-> {}, interface |-> FALSE, fields |-> [f |-> [type |-> T("long")], g |-> [type |-> T("int")]],
          methods |-> ("<init>" :> <<M(<<>>, FALSE, T("void")), M(<<T("long")>>, FALSE, T("void"))>>) @@
                      ("base" :> <<M(<<>>, FALSE, T("int"))>>)],
   E |-> [super |-> "none", ifaces |-> {}, interface |-> FALSE, fields |-> <<>>,
          methods |-> ("other" :> <<M(<<>>, FALSE, T("int"))>>) @@ ("make" :> <<M(<<>>, TRUE, T("E"))>>)],
   I |-> [super |-> "none", ifaces |-> {}, interface |-> FALSE, fields |-> <<>>,
          methods |-> "base" :> <<M(<<>>, FALSE, T("int"))>>]]

TheImports ==
  (<<"E">> :> [kind |-> "type", type |-> T("E")]) @@
  (<<"E", "one">> :> [kind |-> "field", type |-> T("E")]) @@
  (<<"E", "sum">> :> [kind |-> "field", type |-> T("long")]) @@
  (<<"land">> :> [kind |-> "country", type |-> Absent])

TheWidening == {<<"int", "long">>}
ThePrimitives == {"int", "long", "boolean", "void"}

Ref(x) == [k |-> "name", assoc |-> "none", parts |-> <<x>>]
Path(ps) == [k |-> "name", assoc |-> "none", parts |-> ps]
Above(x) == [k |-> "name", assoc |-> "super", parts |-> <<x>>]
This(x) == [k |-> "name", assoc |-> "this", parts |-> <<x>>]
Lit(b) == [k |-> "literal", t |-> T(b)]
Call(assoc, parts, args) == [k |-> "call", assoc |-> assoc, parts |-> parts, args |-> args]
On(recv, name, args) == [k |-> "call", assoc |-> "expr", parts |-> <<name>>, args |-> args, recv |-> recv]
New(c, args) == [k |-> "new", cls |-> c, args |-> args]
Bin(op, l, r) == [k |-> "binary", op |-> op, l |-> l, r |-> r]
Cast(v, t) == [k |-> "cast", c |-> v, t |-> t]
Access(a, i) == [k |-> "access", a |-> a, i |-> i]
NewArr(t, d) == [k |-> "newarray", t |-> t, d |-> d]
InSteps(l, r, s) == [k |-> "range", l |-> l, r |-> r, s |-> s]

Let(x, t, v) == [k |-> "let", x |-> x, t |-> t, v |-> v]
Set(target, v) == [k |-> "assign", target |-> target, v |-> v]
SetElement(target, v) == [k |-> "assignelement", target |-> target, v |-> v]
If(c, b) == [k |-> "if", conds |-> <<c>>, bodies |-> <<b>>]
IfElse(c1, b1, c2, b2, b3) == [k |-> "if", conds |-> <<c1, c2>>, bodies |-> <<b1, b2, b3>>]
While(c, b) == [k |-> "while", c |-> c, body |-> b]
For(x, t, coll, b) == [k |-> "for", x |-> x, t |-> t, coll |-> coll, body |-> b]
Return(v) == [k |-> "return", v |-> v]

One == Lit("int")
To(l, r) == InSteps(l, r, One)
Atoms == {Ref("x"), Ref("a"), Ref("c"), Ref("f"), Ref("u"), Ref("self"), This("f"), This("u"), Above("f"), Above("g"), Above("o"),
          One, Lit("long"), Lit("boolean"), Lit("null"), Ref("bs"), Path(<<"E", "sum">>), Path(<<"E", "u">>)}

Compound ==
  {Call("none", <<"num">>, <<v>>) : v \in Atoms} \cup
  {Call("none", <<"obj">>, <<v>>) : v \in {Ref("a"), Ref("c"), Lit("null"), Ref("u"), One}} \cup
  {Bin("math", l, Ref("x")) : l \in {One, Lit("long"), Ref("u"), Lit("boolean")}} \cup
  {Bin("math", Ref("x"), Lit("long")), Bin("boolean", Ref("u"), One), Bin("boolean", One, Lit("long")),
   Bin("boolean", Lit("null"), Ref("c")), Bin("boolean", Ref("c"), Lit("null"))} \cup
  {Access(Ref("a"), i) : i \in {One, Lit("long"), Ref("a"), Ref("u")}} \cup
  {Access(Ref("x"), One), Access(Ref("u"), One), Access(Ref("es"), One)} \cup
  {[k |-> "length", c |-> v] : v \in {Ref("a"), Ref("x"), Ref("u")}} \cup
  {[k |-> "unary", c |-> v] : v \in {Lit("boolean"), Ref("u")}} \cup
  {Cast(v, T("long")) : v \in {One, Ref("x"), Ref("u"), Ref("c")}} \cup
  {Cast(Ref("c"), t) : t \in {T("D"), T("E"), T("Ghost"), T("C"), T("I")}} \cup
  {NewArr(Arr("int"), d) : d \in {One, Ref("x"), Lit("long"), Ref("u")}} \cup
  {New("C", <<>>), New("D", <<One>>), New("D", <<Lit("boolean")>>), New("Ghost", <<>>), New("E", <<>>)} \cup
  {To(One, One), Call("none", <<"num">>, <<To(One, One)>>), To(Ref("u"), One), InSteps(One, One, Ref("u")),
   Call("none", <<"obj">>, <<To(One, One)>>), Cast(To(One, One), T("D")), Cast(To(One, One), T("int")),
   Bin("boolean", To(One, One), To(One, One)), Bin("math", To(One, One), One), Access(To(One, One), One), Access(Ref("a"), To(One, One)),
   [k |-> "length", c |-> To(One, One)]} \cup
  {Call(a, <<n>>, <<>>) : a \in {"none", "this", "super"}, n \in {"self", "base", "sin", "nil"}} \cup
  {Call("none", ps, <<>>) : ps \in {<<"c", "self">>, <<"c", "u", "base">>, <<"o", "base">>, <<"x", "self">>,
      <<"E", "other">>, <<"E", "make">>, <<"E", "one", "other">>, <<"E", "sum", "other">>, <<"land", "m">>, <<"es", "other">>}} \cup
  {On(v, "base", <<>>) : v \in {Ref("c"), Ref("u"), One, New("C", <<>>), Access(Ref("u"), One), To(One, One),
      Cast(Ref("c"), T("D")), Cast(Ref("c"), T("I")), Bin("math", Ref("u"), One), Call("none", <<"nil">>, <<>>), This("o")}}

Shapes == Atoms \cup Compound

\* The variables every body may use.
Vars == <<Let("x", T("int"), One), Let("a", Arr("int"), NewArr(Arr("int"), One)), Let("c", T("C"), New("C", <<>>))>>

Places(v) ==
  {<<Let("z", t, v)>> : t \in {T("int"), T("long"), Arr("long"), T("D"), T("E"), T("boolean")}} \cup
  {<<Set(Ref("x"), v)>>, <<Set(This("f"), v)>>, <<SetElement(Access(Ref("a"), One), v)>>, <<Return(v)>>,
   <<If(v, <<>>)>>, <<While(v, <<Set(Ref("x"), One)>>)>>, <<IfElse(Lit("boolean"), <<>>, v, <<>>, <<Return(One)>>)>>,
   <<For("i", T("int"), v, <<Set(Ref("i"), One)>>)>>, <<For("i", T("D"), To(v, One), <<>>)>>} \cup
  (IF v.k \in {"call", "new"} THEN {<<v>>} ELSE {})

Body(kind, static, returns, params, stmts) ==
  [kind |-> kind, static |-> static, cls |-> "C", returns |-> returns, sins |-> {},
   params |-> params, stmts |-> stmts, reversed |-> FALSE, ub |-> "ends"]

Param(x, t) == [name |-> x, type |-> t, from |-> 0, to |-> 0, at |-> <<0>>]

InPlaces ==
  UNION {{Body("method", static, ret, <<>>, Vars \o p) : p \in Places(v), static \in BOOLEAN, ret \in {T("long"), T("void")}}
         : v \in Shapes}

\* Undefined behaviour that goes unnoticed, and the other order of overloads.
Unnoticed ==
  UNION {{[Body("constructor", FALSE, T("void"), <<>>, Vars \o p) EXCEPT !.ub = "goes on", !.reversed = TRUE] : p \in Places(v)}
         : v \in Compound}

Initializers ==
  {[Body("initializer", static, t, <<>>, <<v>>) EXCEPT !.ub = u] :
     v \in Shapes, static \in BOOLEAN, t \in {T("int"), T("D")}, u \in {"ends", "goes on"}}

\* Declarations and reads in all orders.
X == Set(Ref("y"), Ref("x"))
Orders ==
  {Let("x", T("int"), One), Let("x", T("long"), Ref("x")), X, Set(Ref("x"), One), Return(Ref("x")),
   If(Bin("boolean", Ref("x"), One), <<X>>), While(Lit("boolean"), <<Let("x", T("int"), One), X>>),
   If(Lit("boolean"), <<X, Let("x", T("int"), One)>>), While(Lit("boolean"), <<X>>), Set(Ref("y"), Cast(Ref("x"), T("int"))),
   For("x", T("int"), To(Ref("x"), One), <<X>>), Call("none", <<"x", "base">>, <<>>),
   Let("x", T("C"), New("C", <<>>))}

\* Variables of a type that does not exist, second ones of their name among them.
OfNoType == {Let("x", T("Ghost"), To(One, One)), If(Lit("boolean"), <<Let("w", T("Ghost"), To(One, One))>>)}

Ordered ==
  {[Body(kind, kind = "method", T("void"), <<Param("y", T("int"))>> \o more, stmts) EXCEPT !.ub = u] :
     kind \in {"method", "constructor"}, more \in {<<>>, <<Param("x", T("int"))>>},
     stmts \in UNION {[1..n -> Orders \cup OfNoType] : n \in 0..2}, u \in {"ends", "goes on"}} \cup
  {Body(kind, kind = "method", T("int"), <<Param("y", T("int"))>>, stmts) :
     kind \in {"method", "constructor"}, stmts \in [1..3 -> Orders]}

AllCases == InPlaces \cup Unnoticed \cup Initializers \cup Ordered

\* The example of the assignment operators: a variable is cast and added.
ExampleCases ==
  {Body("method", TRUE, T("void"), <<Param("y", T("int"))>>,
        <<Let("x", T("int"), One), Let("z", T("long"), Lit("long")), Let("w", T("long"), v)>>) :
     v \in {Bin("math", Cast(Ref("x"), T("long")), Ref("z")), Bin("math", Ref("x"), Ref("z"))}}

(***************************************************************************)
(* Every value and statement of these bodies, and how deep each is nested. *)
(***************************************************************************)
ValueKinds == {"literal", "name", "call", "new", "binary", "range", "unary", "length", "cast", "access", "newarray"}

Operands(v) ==
  CASE v.k \in {"literal", "name"} -> {}
    [] v.k \in {"call", "new"} -> Range(v.args) \cup (IF v.k = "call" /\ v.assoc = "expr" THEN {v.recv} ELSE {})
    [] v.k = "binary" -> {v.l, v.r}
    [] v.k = "range" -> {v.l, v.r, v.s}
    [] v.k \in {"unary", "length", "cast"} -> {v.c}
    [] v.k = "access" -> {v.a, v.i}
    [] v.k = "newarray" -> {v.d}

ValuesOf(s) ==
  CASE s.k \in {"let", "return"} -> {s.v}
    [] s.k \in {"assign", "assignelement"} -> {s.target, s.v}
    [] s.k = "if" -> Range(s.conds)
    [] s.k = "while" -> {s.c}
    [] s.k = "for" -> {s.coll}
    [] s.k \in {"super", "end"} -> {}
    [] OTHER -> {s}

Inner(s) ==
  CASE s.k = "if" -> UNION {Range(b) : b \in Range(s.bodies)}
    [] s.k \in {"while", "for"} -> Range(s.body)
    [] OTHER -> {}

Written ==
  {[k |-> "super"], [k |-> "end"]} \cup Range(Vars) \cup UNION {UNION {Range(p) : p \in Places(v)} : v \in Shapes}
  \cup Orders \cup OfNoType \cup UNION {Range(m.stmts) : m \in ExampleCases}

\* Statements are nested two deep and values four deep, as the assumption SyntaxAssumption confirms.
WithInner(stmts) == stmts \cup UNION {Inner(s) : s \in stmts}
WithOperands(values) == values \cup UNION {Operands(v) : v \in values}

AllStatements == WithInner(Written)
AllValues == WithOperands(WithOperands(WithOperands(Shapes \cup UNION {ValuesOf(s) : s \in AllStatements})))
AllDepths[n \in AllValues \cup AllStatements] ==
  1 + Max({0} \cup {AllDepths[m] : m \in IF n.k \in ValueKinds THEN Operands(n) ELSE Inner(n)})

\* What stands for a constant is evaluated at every use, what it names only once.
WorldUsed == TheWorld
ImportsUsed == TheImports
ValuesUsed == AllValues
StatementsUsed == AllStatements
DepthUsed == AllDepths
=============================================================================
