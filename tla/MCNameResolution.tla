------------------------- MODULE MCNameResolution -------------------------
(***************************************************************************)
(* Two files in which names of three countries meet: x and y hold the      *)
(* sources, z a class that only class files know, j the JRE, k the Talmud. *)
(***************************************************************************)
EXTENDS NameResolution

MCTalmud == <<"k">>
MCDefaultImports == <<<<"k">>, <<"j">>>>
MCAliases == <<[alias |-> "O", of |-> <<"j", "Object">>], [alias |-> "S", of |-> <<"j", "String">>]>>

Compiled(name, super, fields, methods) ==
    name :> [name |-> name, super |-> super, fields |-> fields, methods |-> methods]
Object == Compiled(<<"j", "Object">>, NoSuper, {}, {"h"})
String == Compiled(<<"j", "String">>, <<"j", "Object">>, {"e"}, {"l"})
Jre == Object @@ String @@ Compiled(<<"j", "B">>, <<"j", "Object">>, {}, {"l"})

Type(name, super, uses) ==
    [name |-> name, super |-> super, fields |-> {"f"}, methods |-> {"m"}, uses |-> uses]
File(country, imports, misplaced, declared) ==
    LET In(i) == [j \in DOMAIN declared[i].uses |-> ("in" :> declared[i].name) @@ declared[i].uses[j]]
    IN  [country |-> country, imports |-> imports, misplaced |-> misplaced,
         types |-> [i \in DOMAIN declared |->
            [f \in {"name", "super", "fields", "methods"} |-> declared[i][f]]],
         uses |-> FlattenSeq([i \in DOMAIN declared |-> In(i)])]
Named(kind, name) == [kind |-> kind, name |-> name]

(* The bodies of the first file's type A.                                  *)
Bodies == {
    <<>>,
    <<Named("type", <<"B">>), Named("type", <<"y", "B">>), Named("type", <<"B">>)>>,
    <<Named("field", <<"x", "B", "g">>)>>,
    <<Named("field", <<"B", "g">>), Named("call", <<"B", "g">>)>>,
    <<Named("call", <<"x", "B", "h">>)>>,
    <<Named("call", <<"h">>)>>,
    <<Named("call", <<"S", "l">>), Named("call", <<"j", "String", "h">>)>>}

FirstFiles == {File(country, imports, FALSE, <<Type("A", super, uses)>>) :
    country \in {Global, <<"x">>}, imports \in {<<>>, <<<<"y">>>>},
    super \in {<<"O">>, <<"B">>, <<"x", "B">>}, uses \in Bodies}
SecondFiles == {File(country, imports, FALSE, <<Type("B", super, <<>>)>>) :
    country \in {<<"x">>, <<"y">>}, imports \in {<<>>, <<<<"z">>>>},
    super \in {<<"O">>, <<"C">>}}

C(name) == Compiled(name, <<"j", "Object">>, {}, {"h"})
B(name) == Compiled(name, <<"O">>, {"g"}, {"g", "h"})
ClassPaths == {
    Compiled(<<"z", "C">>, <<"j", "Object">>, {}, {"h"}),
    C(<<"z", "C">>) @@ B(<<"y", "B">>) @@ B(<<"x", "B">>),
    C(<<"C">>) @@ B(<<"B">>),
    <<"C">> :> C(<<"z", "C">>)[<<"z", "C">>],
    C(<<"z", "C">>) @@ B(<<"x", "B", "g">>)}

Program(files, out, java) == [files |-> files, java |-> java,
    holds |-> IF java THEN [jre |-> Jre, out |-> out] ELSE [out |-> out]]

(* Programs in which the sources take names of others.                     *)
Clashing == {
    <<File(<<"j">>, <<>>, FALSE, <<Type("Object", <<"O">>, <<>>)>>)>>,
    <<File(<<"k">>, <<>>, FALSE, <<Type("O", <<"S">>, <<>>)>>)>>,
    <<File(<<"x">>, <<>>, TRUE, <<Type("A", <<"O">>, <<>>), Type("A", <<"A">>, <<>>)>>)>>,
    <<File(<<"k", "O">>, <<>>, FALSE, <<Type("A", <<"S">>, <<>>)>>)>>,
    <<File(<<"x">>, <<<<"z", "C">>>>, FALSE, <<Type("A", <<"z", "C">>, <<>>)>>)>>,
    <<File(<<"z">>, <<>>, FALSE, <<Type("A", <<"O">>, <<>>)>>),
      File(<<"x">>, <<>>, FALSE, <<Type("B", <<"z", "C">>,
          <<Named("field", <<"S", "e">>), Named("type", <<"z">>), Named("type", <<"C">>)>>)>>)>>}

(* The country x/D stands before the type y/D of the sources, whose old     *)
(* class file is asked for D/g; z/D stands behind it, and has a g as well.  *)
Shadowed ==
    LET Of(imports, uses) ==
            <<File(<<"x">>, imports, FALSE, <<Type("A", <<"O">>, uses)>>),
              File(<<"y">>, <<>>, FALSE, <<Type("D", <<"O">>, <<>>)>>)>>
    IN  {Of(<<<<"x", "D">>, <<"y">>>>, <<Named("field", <<"D", "g">>)>>),
         Of(<<<<"y">>, <<"z">>>>, <<Named("type", <<"z", "D">>), Named("field", <<"D", "g">>),
                                    Named("field", <<"y", "D", "h">>), Named("field", <<"D", "g">>)>>)}

(* The sources declare the builtin Object, which is loaded again by name.  *)
Builtin ==
    {<<File(<<"j">>, <<<<"z">>>>, FALSE, <<Type("A", <<"j", "Object">>, <<>>),
                                           Type("Object", <<"C">>, <<>>)>>),
       File(<<"y">>, <<>>, FALSE, <<Type("D", <<"O">>, <<>>)>>)>>}

MCPrograms ==
    {Program(files, out, TRUE) : files \in {<<a, b>> : a \in FirstFiles, b \in SecondFiles},
                                 out \in ClassPaths}
    \cup {Program(<<b, a>>, out, TRUE) : a \in {a \in FirstFiles : a.country = Global},
                                         b \in SecondFiles, out \in {C(<<"z", "C">>)}}
    \cup {Program(files, B(<<"y", "D">>) @@ B(<<"z", "D">>), TRUE) : files \in Shadowed}
    \cup {Program(files, C(<<"z", "C">>), TRUE) : files \in Builtin}
    \cup {Program(files, out, java) : files \in Clashing, out \in ClassPaths, java \in BOOLEAN}
=============================================================================
