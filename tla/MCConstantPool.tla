-------------------------- MODULE MCConstantPool --------------------------
(***************************************************************************)
(* Classes with one method of two statements, over every kind of statement *)
(* and of value.  The spans are small, so that some classes outgrow the    *)
(* operand of LDC and some the pool.                                       *)
(***************************************************************************)
EXTENDS ConstantPool

Node(kind, id, sym, values, parts) ==
    [kind |-> kind, id |-> id, sym |-> sym, values |-> values, parts |-> parts]
Plain(kind, id, values, parts) == Node(kind, id, <<>>, values, parts)

(* Values.  A node and those below it have the numbers from id on. *)
Literal(id, big) == Node("int", id, [value |-> IF big THEN "40000" ELSE "1", big |-> big], <<>>, <<>>)
String(id) == Node("string", id, [value |-> "s"], <<>>, <<>>)
Double(id) == Node("double", id, [value |-> "0.5"], <<>>, <<>>)
Reference(id) == Node("reference", id, [owner |-> "A", name |-> "f", descriptor |-> "D"], <<>>, <<>>)
Variable(id) == Plain("variable", id, <<>>, <<>>)
Call(id, arg) == Node("call", id, [owner |-> "B", name |-> "m", descriptor |-> "(I)V"], <<arg>>, <<>>)
New(id) == Node("new", id, [owner |-> "B", name |-> "<init>", descriptor |-> "()V"], <<>>, <<>>)
Cast(id) == Node("cast", id, [class |-> "C"], <<Variable(id + 1)>>, <<>>)
Not(id) == Plain("operator", id, <<Reference(id + 1)>>, <<>>)
Array(id, class) == Node("array", id, [class |-> class], <<Literal(id + 1, TRUE)>>, <<>>)
Access(id) == Plain("access", id, <<Variable(id + 1), Call(id + 2, Literal(id + 3, FALSE))>>, <<>>)

SeenValues(id) ==
    {Literal(id, TRUE), Literal(id, FALSE), String(id), Double(id), Reference(id), Call(id, String(id + 1)),
     New(id), Cast(id), Not(id)}
HiddenValues(id) == {Array(id, "D"), Array(id, ""), Access(id)}

(* Statements *)
Scope(id, statements) == Plain("scope", id, <<>>, statements)
Return(id, v) == Plain("return", id, <<v>>, <<>>)
AssignField(id, v) ==
    Node("assign", id, [big |-> IsBig(v), value |-> "40000"], <<Reference(id + 1), v>>, <<>>)
Decrease(id) ==
    Node("decrease", id, [big |-> TRUE, value |-> "-40000"], <<Variable(id + 1), Literal(id + 2, TRUE)>>, <<>>)
While(id, v, s) == Plain("while", id, <<v>>, <<Scope(id + 1, <<s>>)>>)
IfElse(id, v, s) ==
    Plain("if", id, <<v>>, <<Scope(id + 1, <<s>>), Scope(id + 2, <<Return(id + 3, Literal(id + 4, FALSE))>>)>>)
Local(id) == Node("local", id, [name |-> "i", descriptor |-> "I", class |-> ""], <<>>, <<>>)
For(id, to, step, s) ==
    Node("for", id, [value |-> "40000"],
         <<Local(id + 1), Plain("range", id + 2, <<Literal(id + 3, FALSE), to, step>>, <<>>)>>,
         <<Scope(id + 4, <<>>), Scope(id + 5, <<s>>)>>)

(* Statements with constants in places both walks go to, and in others. *)
SeenStatements ==
    {Return(10, v) : v \in SeenValues(20)} \cup {AssignField(10, v) : v \in SeenValues(20)}
        \cup {While(10, v, Return(30, w)) : v \in SeenValues(20), w \in {String(31), Reference(31)}}
        \cup {IfElse(10, Variable(20), Return(30, v)) : v \in SeenValues(40)}
        \cup {For(10, Literal(20, FALSE), Literal(21, FALSE), Return(30, v)) : v \in SeenValues(40)}
        \cup {Decrease(10)}
HiddenStatements ==
    {Return(10, v) : v \in HiddenValues(20)}
        \cup {IfElse(10, v, Return(30, Reference(40))) : v \in SeenValues(20)}
        \cup {For(10, v, Literal(25, big), Return(30, String(40))) : v \in SeenValues(20), big \in BOOLEAN}
SecondStatements ==
    {Return(60, String(61)), Return(60, Call(61, Double(62)))}

This == Node("local", 6, [name |-> "this", descriptor |-> "LA;", class |-> "A"], <<>>, <<>>)
TypeOf(s, t, initialised) ==
    Node("type", 1,
         [source |-> "A.src", name |-> "A", descriptor |-> "LA;", super |-> "O", interfaces |-> <<"B">>],
         IF initialised
           THEN <<Node("field", 2, [owner |-> "A", name |-> "f", descriptor |-> "D", class |-> ""],
                       <<Double(3)>>, <<>>)>>
           ELSE <<>>,
         <<Node("method", 5,
                [name |-> "main", descriptor |-> "()V", throws |-> <<"E">>,
                 locals |-> <<This>> \o (IF s.kind = "for" THEN <<s.values[1]>> ELSE <<>>)],
                <<This>>, <<Scope(7, <<Node("superCall", 8, [super |-> "O"], <<>>, <<>>), s, t>>)>>)>>)

TypesWith(statements) ==
    {TypeOf(s, t, initialised) :
        s \in statements, t \in SecondStatements, initialised \in BOOLEAN}

AllTypes == TypesWith(SeenStatements \cup HiddenStatements)

(* All nodes of a declaration.  No tree here is deeper than Depth.         *)
Depth == 8
Below(n) == Children(n) \cup (IF n.kind = "method" THEN Elements(n.sym.locals) ELSE {})
TreeOf(ty) ==
    LET level[d \in 0..Depth] == IF d = 0 THEN {ty} ELSE UNION {Below(n) : n \in level[d - 1]}
    IN  UNION {level[d] : d \in 0..Depth}
============================================================================
