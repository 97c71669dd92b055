------------------------ MODULE MCSemanticAnalysis ------------------------
(***************************************************************************)
(* Small programs for SemanticAnalysis: two files, up to three classes, an *)
(* interface from a class file, up to four methods.  Each family varies    *)
(* one thing the analysis is sensitive to, over all of its values; TLC     *)
(* adds the orders of the files, types and methods.                        *)
(***************************************************************************)
EXTENDS SemanticAnalysis, SequencesExt

MCFile == {"f1", "f2"}
MCClass == {"A", "B", "C", "I"}
MCDeclId == 1..4
MCName == {"m", "n", "Bereshit", "main"}
MCNotation == {"A", "B", "C", "I", "pkg/A", "int", "long", "Ktuvim[]", "String[]"}
MCWidens == {<<"int", "long">>}

(* Declarations *)
Method(c, n, ps) == [cls |-> c, name |-> n, params |-> ps, static |-> FALSE,
                     abstract |-> FALSE, public |-> TRUE]
Static(c, n, ps) == [Method(c, n, ps) EXCEPT !.static = TRUE]
Abstract(c, n, ps) == [Method(c, n, ps) EXCEPT !.abstract = TRUE]
Private(d) == [d EXCEPT !.public = FALSE]

CallTo(d, c, n, as) == [from |-> d, on |-> c, name |-> n, args |-> as]

(* A program with the given files of A, B and C, super types of A, B and C,
   implementers of I, sequence of declarations and set of calls. *)
Compile(files, supers, impl, ds, calls) ==
    [file |-> [c \in MCClass |-> IF c \in DOMAIN files THEN files[c] ELSE External],
     super |-> [c \in MCClass |-> IF c \in DOMAIN supers THEN supers[c] ELSE NoClass],
     ifaces |-> [c \in MCClass |-> IF c \in impl THEN {"I"} ELSE {}],
     spelled |-> [c \in MCClass |-> c],
     denotes |-> [n \in MCNotation |-> IF n = "Ktuvim[]" THEN "String[]" ELSE n],
     decls |-> DOMAIN ds,
     decl |-> [d \in MCDeclId |-> IF d \in DOMAIN ds THEN ds[d] ELSE ds[1]],
     calls |-> calls,
     broken |-> FALSE]

(* In package pkg, the class spelled A is another string when resolved. *)
Packaged(p) == [p EXCEPT !.denotes["A"] = "pkg/A"]

Placements == [{"A", "B", "C"} -> MCFile]
Apart == [A |-> "f1", B |-> "f2", C |-> "f2"]
Alone == [A |-> "f1", B |-> "f2"]

(* B extends A, C extends A or B; I is implemented by some of A and C; m is
   abstract in I and implemented by some of A, B and C. *)
InterfacePrograms ==
    {Compile(fs, [B |-> "A", C |-> sc], is,
             <<Abstract("I", "m", <<"int">>)>>
                \o [i \in 1..Cardinality(imp) |->
                        Method(SetToSeq(imp)[i], "m", <<"int">>)], {}) :
        fs \in Placements, sc \in {"A", "B"}, is \in {{"A"}, {"C"}, {"A", "C"}},
        imp \in SUBSET {"A", "B", "C"}}

(* m is abstract in A, which B extends, and C extends B. *)
AbstractPrograms ==
    {Compile(fs, [B |-> "A", C |-> "B"], {},
             <<Abstract("A", "m", <<"int">>)>>
                \o [i \in 1..Cardinality(imp) |->
                        Method(SetToSeq(imp)[i], "m", <<"int">>)], {}) :
        fs \in Placements, imp \in SUBSET {"B", "C"}}

(* Overloads of A, in the default package and in pkg, called from B. *)
Overloads == {Method("A", "m", <<"A", "int">>), Method("A", "m", <<"int">>),
              Static("A", "m", <<"A", "int">>), Static("A", "m", <<"long">>)}
OverloadPrograms ==
    LET Make(ds) ==
            Compile(Alone, [B |-> "A"], {}, <<Method("B", "n", <<>>)>> \o SetToSeq(ds),
                    {CallTo(1, "B", "m", <<"int">>)})
        made == {Make(ds) : ds \in {s \in SUBSET Overloads : Cardinality(s) \in 1..3}}
    IN  made \cup {Packaged(p) : p \in made}

(* Bereshit under its alias or its full type, with and without its flags and
   a main beside it; B calls Bereshit or main from the other file. *)
BereshitPrograms ==
    {Compile(Alone, <<>>, {},
             <<Method("B", "n", <<>>), b>> \o rest, {CallTo(1, "A", n, <<"String[]">>)}) :
        b \in {Static("A", "Bereshit", <<"Ktuvim[]">>),
               Static("A", "Bereshit", <<"String[]">>),
               Private(Static("A", "Bereshit", <<"Ktuvim[]">>)),
               Method("A", "Bereshit", <<"Ktuvim[]">>)},
        rest \in {<<>>, <<Static("A", "main", <<"Ktuvim[]">>)>>,
                  <<Static("A", "Bereshit", <<"int">>)>>},
        n \in {"Bereshit", "main"}}

(* Calls to methods that are inherited, widened, or absent. *)
CallPrograms ==
    {Compile(Apart, [B |-> "A", C |-> "B"], {},
             <<Method("C", "n", <<>>), Method("A", "m", <<"int">>),
               Method("B", "m", <<p>>), Method("A", "m", <<"A">>)>>,
             {CallTo(1, on, n, as)}) :
        p \in {"int", "long", "C"}, on \in {"A", "B", "C"}, n \in {"m", "main"},
        as \in {<<"int">>, <<"B">>, <<>>}}

(* Hierarchies that do not end, with a call into them. *)
CyclicPrograms ==
    {Compile(fs, sup, {}, <<Method("C", "n", <<>>), Method("A", "m", <<"int">>)>>,
             {CallTo(1, "B", n, <<"int">>)}) :
        fs \in Placements, n \in {"m", "n"},
        sup \in {[A |-> "B", B |-> "A"], [A |-> "A"], [B |-> "A", A |-> "C", C |-> "B"]}}

(* B extends A and implements I, whose abstract method looks like a method of
   A before it is re-keyed, or after it was renamed, or is destroyed in A by a
   collision with another overload; C calls into a cycle. *)
ImpostorPrograms ==
    {Compile(fs, [B |-> "A"], {"B"}, <<Abstract("I", "m", <<"A", "int">>), d>>, {}) :
        fs \in [{"A", "B"} -> MCFile],
        d \in {Method("A", "m", <<"int">>), Static("A", "m", <<"A", "int">>)}}
    \cup
    {Compile(fs, [B |-> "A"], {"B"},
             <<Abstract("I", "m", <<"A", "int">>), Method("A", "m", <<"A", "int">>),
               Method("A", "m", <<"int">>)>>, {}) : fs \in [{"A", "B"} -> MCFile]}
    \cup
    {Compile(fs, [B |-> "A"], {"B"},
             <<Abstract("I", n, <<"String[]">>), Static("A", "Bereshit", <<"Ktuvim[]">>)>>, {}) :
        fs \in [{"A", "B"} -> MCFile], n \in {"Bereshit", "main"}}
    \cup
    {Compile(fs, [A |-> "B", B |-> "A"], {},
             <<Method("C", "n", <<>>), Method("A", "m", <<"int">>), Method("B", "m", <<"int">>)>>,
             {CallTo(1, on, "m", <<"int">>)}) : fs \in Placements, on \in {"A", "B"}}

(* Two types of one name; two methods of one signature; a broken file. *)
BrokenPrograms ==
    LET ok == Compile(Apart, [B |-> "A"], {},
                      <<Method("A", "m", <<"int">>), Method("A", "n", <<"A">>)>>, {})
    IN  {[ok EXCEPT !.spelled["B"] = "A"],
         [ok EXCEPT !.decl[2] = ok.decl[1]],
         [ok EXCEPT !.broken = TRUE], ok}

TypePrograms == InterfacePrograms \cup AbstractPrograms \cup ImpostorPrograms
MethodPrograms == OverloadPrograms \cup BereshitPrograms \cup CallPrograms
                    \cup CyclicPrograms \cup BrokenPrograms
AllPrograms == TypePrograms \cup MethodPrograms

=============================================================================
