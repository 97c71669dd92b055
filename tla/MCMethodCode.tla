---------------------------- MODULE MCMethodCode ----------------------------
(***************************************************************************)
(* Methods for MethodCode: every kind of value in every place a value can  *)
(* stand, and every kind of statement around, before and after others.     *)
(***************************************************************************)
EXTENDS MethodCode

Var(name, ty)    == [name |-> name, ty |-> ty]
Num(n)           == [k |-> "int", ty |-> "I", n |-> n]
Ref(name, ty)    == [k |-> "variable", name |-> name, ty |-> ty]
Field(static, ty) == [k |-> "field", static |-> static, ty |-> ty]
Call(ty, args)   == [k |-> "call", ty |-> ty, args |-> args]
NewOf(ty, args)  == [k |-> "new", ty |-> ty, args |-> args]
Op(op, ty, vs)   == [k |-> "operator", op |-> op, ty |-> ty, operands |-> vs]
Cast(ty, v)      == [k |-> "cast", ty |-> ty, value |-> v, up |-> FALSE]
Element(ty, v)   == [k |-> "element", ty |-> ty, array |-> v, index |-> Num(0)]
Compare(l, r)    == [k |-> "compare", ty |-> "I", left |-> l, right |-> r]
Let(name, v)     == [k |-> "assign", op |-> "assign", name |-> name, value |-> v]
Change(op, name, v) == [k |-> "assign", op |-> op, name |-> name, value |-> v]
Use(v)           == [k |-> "value", value |-> v]
SetField(static, v) == [k |-> "field", static |-> static, ty |-> v.ty, value |-> v]
SetElement(a, v) == [k |-> "element", ty |-> v.ty, array |-> a, index |-> Num(0), value |-> v]
Scope(vs, body)  == [vars |-> vs, body |-> body]
IfElse(bs, e)    == [k |-> "if", branches |-> bs, otherwise |-> e]
Branch(c, s)     == [cond |-> c, scope |-> s]
While(c, s)      == [k |-> "while", cond |-> c, scope |-> s]
For(from, to, skip, s) == [k |-> "for", iterator |-> Var("i", "I"), from |-> from, to |-> to, skip |-> skip, inner |-> s]
Method(kind, params, ty, vs, body) ==
  [kind |-> kind, params |-> params, returns |-> ty, vars |-> vs, body |-> body]

x == Ref("x", "I")
Truth   == Compare(x, Num(5))
Numbers == {Num(0), Num(100), Num(1000), Num(100000), x, Field(TRUE, "I"), Field(FALSE, "I"),
            Element("I", Call("AI", <<>>)), [k |-> "length", ty |-> "I", array |-> Call("AJ", <<>>)],
            Call("I", <<Num(0), x>>), Op("add", "I", <<x, Num(6)>>), Op("neg", "I", <<x>>),
            [k |-> "invert", ty |-> "I", value |-> x], Cast("I", Field(TRUE, "J")),
            Cast("I", [k |-> "constant", ty |-> "D"]), Truth, [k |-> "not", ty |-> "I", value |-> Truth]}
Longs   == {Field(TRUE, "J"), Field(FALSE, "J"), Element("J", Call("AJ", <<>>)), Call("J", <<Field(TRUE, "J")>>),
            Call("J", <<>>), Cast("J", x), Op("add", "J", <<Cast("J", x), Field(TRUE, "J")>>),
            [k |-> "invert", ty |-> "J", value |-> Field(TRUE, "J")],
            Op("shift", "J", <<Cast("J", x), Cast("J", x)>>), Cast("J", [k |-> "constant", ty |-> "F"])}
Objects == {NewOf("T", <<>>), NewOf("T", <<NewOf("S", <<>>)>>), NewOf("T", <<Field(TRUE, "J")>>),
            NewOf("T", <<Call("I", <<>>), NewOf("S", <<>>)>>), [k |-> "null", ty |-> "null"],
            Call("T", <<Ref("this", "S")>>), Cast("T", Ref("this", "S"))}
AnyValue == Numbers \cup Longs \cup Objects
TypeOf(v) == IF v.ty = "null" THEN "T" ELSE v.ty

(* A value in every place. *)
Places(v) ==
  {<<Let("z", v)>>, <<Use(v)>>, <<SetField(TRUE, v)>>, <<SetField(FALSE, v)>>, <<Return(v)>>,
   <<Use(Call("V", <<v, x>>))>>, <<Let("z", v), Use(Call("V", <<Ref("z", TypeOf(v))>>))>>,
   <<Use(NewOf("S", <<v>>))>>, <<Let("z", v), Return(Ref("z", TypeOf(v)))>>}
Straight ==
  UNION {{Method("instance", <<Var("x", "I")>>, IF Last(body).k = "return" THEN TypeOf(v) ELSE "V",
                 IF Head(body).k = "assign" THEN <<Var("z", TypeOf(v))>> ELSE <<>>, body) : body \in Places(v)}
         : v \in AnyValue}

(* Statements of one int x, alone or followed by another. *)
Simple == {Change("add", "x", Num(1)), Change("sub", "x", Num(1000)), Change("add", "x", Num(100000)),
           Change("mul", "x", Num(2)), Use(NewOf("T", <<>>)), Use(Call("I", <<>>)), Return(NoValue),
           SetElement(Call("AI", <<>>), x), SetElement(Call("AJ", <<>>), Field(TRUE, "J"))}
Bodies == {<<>>} \cup {<<s>> : s \in Simple}
Inner  == {Scope(<<>>, b) : b \in Bodies} \cup {Scope(<<Var("y", "I")>>, <<Let("y", x), Change("add", "y", Num(1))>>)}
Blocks(s) ==
  {IfElse(<<Branch(Truth, s)>>, <<>>), IfElse(<<Branch(Truth, s)>>, <<Scope(<<>>, <<Change("add", "x", Num(1))>>)>>),
   IfElse(<<Branch(Call("I", <<>>), Scope(<<>>, <<>>)), Branch(Truth, s)>>, <<>>),
   While(Truth, s), For(Num(0), x, Num(2), s),
   While(Truth, Scope(<<Var("w", "I")>>, <<Let("w", Num(1)), IfElse(<<Branch(Truth, s)>>, <<>>)>>)),
   For(Num(0), Num(3), Num(1), Scope(<<>>, <<While(Truth, s)>>))}
Signatures == {<<Var("x", "I")>>, <<Var("l", "J"), Var("x", "I")>>, <<Var("b", "AJ"), Var("x", "I"), Var("y_", "I")>>,
               <<Var("o", "S"), Var("a", "AI"), Var("x", "I")>>}
Around(block, p) ==
  {Method("static", p, "V", <<>>, <<block>>),
   Method("static", p, "V", <<Var("z", "T")>>, <<Let("z", NewOf("T", <<>>)), block>>),
   Method("static", p, "I", <<Var("z", "I")>>, <<block, Let("z", Num(1)), Return(Ref("z", "I"))>>),
   Method("static", p, "I", <<>>, <<block>>)}
Structured == UNION {UNION {Around(block, p) : p \in Signatures, block \in Blocks(s)} : s \in Inner}

(* Two blocks, whose variables lie one after the other. *)
Y == Scope(<<Var("y", "I")>>, <<Let("y", x), Change("add", "x", Ref("y", "I"))>>)
L == Scope(<<Var("m", "J"), Var("v", "I")>>, <<Let("m", Cast("J", x)), Let("v", Num(1)), Change("add", "x", Ref("v", "I"))>>)
Two == {Method("static", p, "V", <<>>, <<b1, b2>>) :
          p \in {<<Var("x", "I")>>, <<Var("l", "J"), Var("x", "I")>>},
          b1 \in {While(Truth, Y), For(Num(0), x, Num(1), Scope(<<>>, <<>>))},
          b2 \in {While(Truth, L), IfElse(<<Branch(Truth, L)>>, <<>>),
                  While(Compare(Field(TRUE, "J"), Field(TRUE, "J")), Scope(<<>>, <<>>))}}

Special ==
  {Method("constructor", <<>>, "V", <<>>, <<>>), Method("constructor", <<>>, "V", <<>>, <<Super, Return(NoValue)>>),
   Method("clinit", <<>>, "V", <<>>, <<SetField(TRUE, Num(100000)), SetField(TRUE, NewOf("T", <<>>))>>),
   Method("clinit", <<>>, "V", <<>>, <<SetField(TRUE, Cast("J", Field(TRUE, "I")))>>),
   Method("static", <<Var("x", "I")>>, "V", <<>>, <<Return(NoValue), Change("add", "x", Num(1))>>),
   Method("static", <<Var("x", "I")>>, "V", <<>>, <<Change("add", "x", Num(1)), Return(NoValue)>>),
   Method("static", <<Var("x", "I")>>, "V", <<>>, <<Let("x", Field(TRUE, "J"))>>),
   Method("static", <<Var("x", "I")>>, "V", <<>>, <<While(Call("I", <<>>), Scope(<<>>, <<>>)), Change("add", "x", Num(1))>>),
   Method("static", <<>>, "V", <<Var("x", "I")>>, <<While(Call("I", <<>>), Scope(<<>>, <<>>)), Let("x", Num(1))>>),
   Method("static", <<Var("x", "I")>>, "V", <<>>, <<For(Num(0), x, Num(100000), Scope(<<>>, <<>>))>>),
   Method("static", <<Var("x", "I")>>, "V", <<Var("q", "M")>>,
          <<Let("q", [k |-> "newarray", ty |-> "M", dims |-> <<x, x>>]), Use([k |-> "newarray", ty |-> "AI", dims |-> <<x>>])>>),
   Method("static", [i \in 1 .. 9 |-> IF i = 9 THEN Var("x", "I") ELSE Var(ToString(i), "I")], "I", <<>>, <<Return(x)>>),
   Method("static", [i \in 1 .. 9 |-> IF i = 9 THEN Var("x", "I") ELSE Var(ToString(i), "I")], "V", <<>>,
          <<Change("add", "x", Num(1)), Let("x", Num(1))>>)}

Plain == {Method("static", p, "I", <<>>, <<Change("add", "x", Num(1)), Return(x)>>) : p \in Signatures}

AllMethods == Plain \cup Straight \cup Structured \cup Two \cup Special
=============================================================================
