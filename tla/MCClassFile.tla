----------------------------- MODULE MCClassFile -----------------------------
(***************************************************************************)
(* Classes for ClassFile: fields with every kind of type, with and without *)
(* initialisers, twice under one name; methods static and not, with arrays *)
(* among their parameters, sins, inner scopes and every kind of frame,     *)
(* abstract ones, and constructors.  The texts are sequences of MCTokens.  *)
(***************************************************************************)
EXTENDS ClassFile

MCTokens ==
  <<"B", "C", "D", "F", "I", "J", "S", "Z", "V", "(", ")", "[", "L", ";", "source", "SourceFile",
    "Code", "LocalVariableTable", "StackMapTable", "Exceptions", "<clinit>", "<init>",
    "Foo", "Object", "Text", "Sin", "Face", "this", "a", "b", "f", "g", "m", "n">>

Type(dims, base) == [dims |-> dims, base |-> base]
I  == Type(0, "I")
J  == Type(0, "J")
V  == Type(0, "V")
O  == Type(0, "Text")
AO == Type(1, "Text")
AI == Type(2, "I")

Attrs(v, s, f, a) == [visibility |-> v, static |-> s, final |-> f, abstract |-> a]
Plain  == Attrs("public", FALSE, FALSE, FALSE)
Static == Attrs("package", TRUE, TRUE, FALSE)
Shared == Attrs("protected", TRUE, FALSE, FALSE)
Hidden == Attrs("private", FALSE, TRUE, FALSE)
Absent == Attrs("public", FALSE, FALSE, TRUE)

Field(name, ty, attrs, value) ==
  [name |-> name, type |-> ty, attrs |-> attrs, value |-> value,
   size |-> IF value = "Double" THEN 3 ELSE 2]

Local(name, ty, index) == [name |-> name, type |-> ty, index |-> index, start |-> 0, length |-> 5]
Frame(kind, delta, locals, chopped) ==
  [kind |-> kind, delta |-> delta, locals |-> locals, chopped |-> chopped]
Frames == <<Frame("same", 3, <<>>, 0), Frame("append", 4, <<I, AO>>, 0), Frame("chop", 300, <<>>, 1),
            Frame("same_extended", 70, <<>>, 0), Frame("full", 0, <<Type(0, "Foo"), J, AI>>, 0)>>

Method(name, params, ret, attrs, sins, frames, literals) ==
  [name |-> name, params |-> params, ret |-> ret, attrs |-> attrs, sins |-> sins,
   inner |-> frames # <<>>, frames |-> frames, literals |-> literals,
   stack |-> 2, slots |-> 4, size |-> 300,
   locals |-> (IF attrs.static THEN <<>> ELSE <<Local("this", Type(0, "Foo"), 0)>>) \o
              [i \in DOMAIN params |-> Local("a", params[i], i)] \o
              (IF frames = <<>> THEN <<>> ELSE <<Local("b", AO, 7), Local("b", J, 8), Local("n", AI, 9)>>)]

FieldLists == {<<>>,
  <<Field("f", J, Shared, "Double"), Field("g", AI, Hidden, "none")>>,
  <<Field("f", O, Plain, "none"), Field("f", I, Static, "Integer"), Field("g", AO, Static, "Float")>>,
  <<Field("f", I, Plain, "none"), Field("f", I, Hidden, "none")>>}

Constructor(attrs) == Method("<init>", <<I>>, V, attrs, <<>>, <<>>, <<>>)
Pieces == {
  Method("m", <<I, AO, J>>, O, Plain, <<>>, <<>>, <<"Long">>),
  Method("m", <<O>>, AI, Static, <<"Sin", "Text">>, Frames, <<"Double", "Integer">>),
  Method("n", <<>>, V, Hidden, <<"Sin">>, SubSeq(Frames, 1, 2), <<>>),
  Method("n", <<AI, AI>>, J, Absent, <<>>, <<>>, <<"Integer">>)}
MethodLists == {<<Constructor(Plain)>> \o s : s \in {<<x, y>> : x, y \in Pieces} \ {<<x, x>> : x \in Pieces}}
               \cup {<<Constructor(a)>> : a \in {Static, Hidden, Absent}}

MCClasses ==
  {[name |-> "Foo", super |-> "Object", interfaces |-> kind[1], attrs |-> kind[2],
    fields |-> fields, methods |-> methods] :
     kind \in {<<<<>>, Plain>>, <<<<"Face", "Text">>, Absent>>},
     fields \in FieldLists, methods \in MethodLists}

MCCuts  == {0, 30, 700, 1200}
MCStale == {0, 1}
=============================================================================
