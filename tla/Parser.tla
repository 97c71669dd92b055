------------------------------- MODULE Parser -------------------------------
(***************************************************************************)
(* The parser of one file: parser/parser.cpp, compilation_unit_parser.cpp, *)
(* import_parser.cpp and parser/type/.  A step is one round of the loop of *)
(* the innermost open scope: the file, a class or the body of a method,    *)
(* branch or loop.  The scopes that are open are the calls on the stack of *)
(* the parser; the record of a scope becomes its node when it is closed.   *)
(* Values are parsed within a step, by ParsedValues.                       *)
(***************************************************************************)
EXTENDS ParsedValues

CONSTANT Corpora        \* sets of files to be parsed, a file being its tokens

VARIABLES
    file,       \* the tokens of the file
    stream,     \* what is left of them, the reports and the fate of the process
    phase,      \* "unit", "imports", "types", then "parsed", "undefined" or "thrown"
    open,       \* the open scopes, the innermost last
    unit        \* the compilation unit: what the file says of itself, imports, types

vars == <<file, stream, phase, open, unit>>

TypeOK ==
    /\ stream.fate \in {"fine", "undefined", "thrown"}
    /\ phase \in {"unit", "imports", "types", "parsed", "undefined", "thrown"}
    /\ \A i \in DOMAIN open : open[i].kind \in {"class", "method", "if", "while", "for"}
    /\ DOMAIN unit = {"basad", "country", "imports", "types"}

Init ==
    /\ \E corpus \in Corpora : file \in corpus
    /\ stream = Stream(file)
    /\ phase = "unit"
    /\ open = <<>>
    /\ unit = [basad |-> "missing", country |-> Nothing, imports |-> <<>>, types |-> <<>>]

-----------------------------------------------------------------------------
(* Declarations.                                                           *)

Visibilities == {"visibility"}

\* parse_modifiers reads the visibility from a front nobody looked for.
Modifier(read, groups) ==
    IF Group(read.s) \in groups
    THEN Parsed(Pop(read.s), Append(read.node, Group(read.s)))
    ELSE read
BlindModifier(read, groups) == Modifier([read EXCEPT !.s = Blind(@)], groups)
ParseModifiers(s) ==
    LET read == Modifier(Modifier(BlindModifier(Modifier(Parsed(s, <<>>), {"static"}),
                                                Visibilities), {"abstract"}), {"final"})
    IN  IF read.node = <<>> THEN read
        ELSE Parsed(Expect(read.s, "shallBe", "NO_KEYWORD_SHALL_BE"), read.node)

\* parse_variable_declaration, behind the word that declares; the policy is
\* REQUIRE for variables, ALLOW for fields, FORBID for the iterator of for.
InitialValue(s, policy) ==
    CASE ~Peeks(s, "let") -> Parsed(IF policy = "REQUIRE" THEN Report(s, "NO_KEYWORD_LET") ELSE s, Nothing)
      [] Peeks(s, "let") /\ policy = "FORBID" -> Parsed(Report(Pop(s), "UNEXPECTED_TOKEN"), Nothing)
      [] OTHER -> ParseValue(Pop(s))

Variable(type, name, mods, value) ==
    Parsed(value.s, [kind |-> "variable", type |-> type, name |-> name, attributes |-> mods, value |-> value.node])
AfterModifiers(type, name, mods, policy) ==
    Variable(type, name, mods.node, InitialValue(mods.s, policy))
AfterName(type, name, policy) == AfterModifiers(type, name.node, ParseModifiers(name.s), policy)
AfterType(type, policy) ==
    AfterName(type.node, ConsumeIdentifier(Expect(type.s, "name", "NO_KEYWORD_NAME")), policy)
VariableDeclaration(s, policy) == AfterType(ParseType(s), policy)

\* Names that are separated by commas: interfaces and sins.
RECURSIVE NameList(_, _)
NameList(s, names) ==
    LET name == ConsumeIdentifier(s)
    IN  IF Peeks(name.s, ",") THEN NameList(Pop(name.s), Append(names, name.node))
        ELSE Parsed(name.s, Append(names, name.node))
NamesBehind(s, word) == IF Peeks(s, word) THEN NameList(Pop(s), <<>>) ELSE Parsed(s, <<>>)

ClassHeader(s) ==
    LET name  == ConsumeIdentifier(Expect(s, "name", "NO_KEYWORD_NAME"))
        super == IF Peeks(name.s, "extends") THEN ConsumeIdentifier(Pop(name.s)) ELSE Parsed(name.s, Nothing)
        ifaces == NamesBehind(super.s, "implements")
        mods  == ParseModifiers(ifaces.s)
    IN  Parsed(Expect(mods.s, "{", "NO_SCOPE_BEGIN"),
               [kind |-> "class", name |-> name.node, super |-> super.node, interfaces |-> ifaces.node,
                attributes |-> mods.node, body |-> <<>>])

RECURSIVE ParameterList(_, _)
ParameterList(s, parameters) ==
    IF ~Peeks(s, "takes") THEN Parsed(s, parameters)
    ELSE LET type == ParseType(Pop(s))
             name == ConsumeIdentifier(Expect(type.s, "name", "NO_KEYWORD_NAME"))
         IN  ParameterList(name.s, Append(parameters, [type |-> type.node, name |-> name.node]))

\* A method that returns nothing takes the beginning of its scope, when it
\* is next, before it looks for sins.
Throwing(method, sins, captured) ==
    Parsed(IF captured THEN sins.s ELSE Expect(sins.s, "{", "NO_SCOPE_BEGIN"),
           [method EXCEPT !.sins = sins.node])
Returning(method, type, captured) ==
    Throwing([method EXCEPT !.returns = type.node],
             NamesBehind(IF captured THEN Pop(type.s) ELSE type.s, "throws"), captured)
Taking(method, parameters, s) ==
    Returning([method EXCEPT !.parameters = parameters],
              IF Peeks(s, "return") THEN ParseType(Pop(s)) ELSE Parsed(s, Nothing),
              method.name # Nothing /\ Peeks(s, "{"))
Modified(method, parameters) == Taking(method, parameters.node, parameters.s)
Named(name, mods) ==
    Modified([kind |-> "method", name |-> name, attributes |-> mods.node, parameters |-> <<>>,
              returns |-> Nothing, sins |-> <<>>, body |-> <<>>],
             ParameterList(mods.s, <<>>))
Signature(s, name) == Named(name, ParseModifiers(s))

\* A constructor is a method without a name.
MethodHeader(s) ==
    IF Peeks(s, "constructor") THEN Signature(Pop(s), Nothing)
    ELSE LET name == ConsumeIdentifier(Expect(s, "name", "NO_KEYWORD_NAME_OR_CONSTRUCTOR"))
         IN  Signature(name.s, name.node)

-----------------------------------------------------------------------------
(* The head of a file.                                                     *)

Running(in) == phase = in /\ stream.fate = "fine"
ImportsOrTypes(s) == IF Peeks(s, "import") THEN "imports" ELSE "types"

NoTokens ==
    /\ Running("unit") /\ AtEnd(stream)
    /\ stream' = Report(stream, "NO_BASAD")
    /\ phase' = "parsed"
    /\ UNCHANGED <<file, open, unit>>

\* "cross" stands for the two headings that are refused at once.
Country(s) ==
    IF ~Peeks(s, "originCountry") THEN Parsed(s, Nothing)
    ELSE LET fqn == ParseFqn(Pop(s)) IN Parsed(EnsureEndOp(fqn.s), fqn.node)

ParseCompilationUnit ==
    /\ Running("unit") /\ ~AtEnd(stream)
    /\ LET known   == Group(stream) \in {"basad", "cross"}
           behind  == IF known THEN Pop(stream) ELSE Report(Pop(stream), "NO_BASAD")
           country == Country(behind)
           refused == Peeks(stream, "cross")
       IN  /\ unit' = [unit EXCEPT !.basad = IF known THEN Group(stream) ELSE "missing",
                                   !.country = country.node]
           /\ stream' = IF refused THEN Report(country.s, "BAD_BASAD") ELSE country.s
           /\ phase' = IF refused THEN "parsed" ELSE ImportsOrTypes(country.s)
    /\ UNCHANGED <<file, open>>

\* The position of a report on the type is that of a front nobody looked for.
ParseImport ==
    /\ Running("imports")
    /\ LET behind == ConsumeToken(Pop(stream), "NO_IMPORT_TYPE")
           known  == Group(Pop(stream)) \in {"static import", "the"}
           fqn    == ParseFqn(IF known THEN behind ELSE Blind(Report(behind, "NO_IMPORT_TYPE")))
           wild   == IF fqn.node.wild THEN fqn.s ELSE Report(fqn.s, "NOT_A_WILDCARD")
       IN  /\ unit' = [unit EXCEPT !.imports =
                          Append(@, [static |-> Group(Pop(stream)) = "static import", name |-> fqn.node])]
           /\ stream' = EnsureEndOp(wild)
           /\ phase' = ImportsOrTypes(stream')
    /\ UNCHANGED <<file, open>>

-----------------------------------------------------------------------------
(* The global scope.                                                       *)

Global == Running("types") /\ open = <<>>

DeclareClass ==
    /\ Global /\ Peeks(stream, "let") /\ Peeks(Pop(stream), "class")
    /\ LET class == ClassHeader(Pop(Pop(stream)))
       IN  stream' = class.s /\ open' = <<class.node>>
    /\ UNCHANGED <<file, phase, unit>>

\* Interfaces, enums and annotations are a null pointer among the types.
DeclareOther ==
    /\ Global /\ Peeks(stream, "let") /\ ~Peeks(Pop(stream), "class")
    /\ LET unparsed == Peeks(Pop(stream), "interface")
           behind   == ConsumeToken(Pop(stream), "UNEXPECTED_DECLARATION")
       IN  /\ unit' = [unit EXCEPT !.types = Append(@, IF unparsed THEN Nothing ELSE ErrorNode)]
           /\ stream' = IF unparsed THEN behind ELSE Report(behind, "UNEXPECTED_DECLARATION")
    /\ UNCHANGED <<file, phase, open>>

\* Mutant: the token is reported but stays where it is.
ReportOnly(s) == Report(s, "UNEXPECTED_TOKEN")

Skipped(s) == Report(Pop(s), "UNEXPECTED_TOKEN")

SkipGlobal ==
    /\ Global /\ ~AtEnd(stream) /\ ~Peeks(stream, "let")
    /\ stream' = Skipped(stream)
    /\ UNCHANGED <<file, phase, open, unit>>

EndOfFile ==
    /\ Global /\ AtEnd(stream)
    /\ phase' = "parsed"
    /\ UNCHANGED <<file, stream, open, unit>>

-----------------------------------------------------------------------------
(* Scopes.                                                                 *)

InScope == Running("types") /\ open # <<>>
Scope == Last(open)
InClass == InScope /\ Scope.kind = "class"
InMethod == InScope /\ Scope.kind # "class"

\* The innermost scope gets one more member or statement.
Added(scopes, node) == [scopes EXCEPT ![Len(scopes)].body = Append(@, node)]

AddTo(read) ==
    /\ stream' = read.s
    /\ open' = Added(open, read.node)
    /\ UNCHANGED <<file, phase, unit>>

Enter(read) ==
    /\ stream' = read.s
    /\ open' = Append(open, read.node)
    /\ UNCHANGED <<file, phase, unit>>

\* Another branch of an if takes the place of the one that ended.
Branches == Append(Scope.branches, [condition |-> Scope.condition, body |-> Scope.body])
Conditioned(branches, condition) ==
    Parsed(Expect(condition.s, "{", "NO_SCOPE_BEGIN"),
           [kind |-> "if", branches |-> branches, condition |-> condition.node, body |-> <<>>])
Branching == Scope.kind = "if" /\ Scope.condition # Nothing
NextBranch(read) == stream' = read.s /\ open' = [open EXCEPT ![Len(open)] = read.node]

\* The scope ends and its node is handed to the one around it.
Leave(s) ==
    /\ IF Branching /\ Peeks(s, "elseIf") THEN NextBranch(Conditioned(Branches, ParseValue(Pop(s))))
       ELSE IF Branching /\ Peeks(s, "else") THEN NextBranch(Conditioned(Branches, Parsed(Pop(s), Nothing)))
       ELSE stream' = s /\ open' = IF Len(open) = 1 THEN <<>> ELSE Added(Front(open), Scope)
    /\ unit' = IF Len(open) = 1 THEN [unit EXCEPT !.types = Append(@, Scope)] ELSE unit
    /\ UNCHANGED <<file, phase>>

EndScope ==
    /\ InScope /\ Peeks(stream, "}")
    /\ Leave(Pop(stream))

\* Mutant: nobody misses the end of the scope.
QuietEnd(s) == s

Unended(s) == Report(s, "NO_SCOPE_END")

UnendedScope ==
    /\ InScope /\ AtEnd(stream)
    /\ Leave(Unended(stream))

-----------------------------------------------------------------------------
(* The scope of a class.                                                   *)

AddMethod ==
    /\ InClass /\ Peeks(stream, "let") /\ Peeks(Pop(stream), "method")
    /\ Enter(MethodHeader(Pop(Pop(stream))))

InnerClass ==
    /\ InClass /\ Peeks(stream, "let") /\ Peeks(Pop(stream), "class")
    /\ stream' = Ended(Pop(stream), "thrown")
    /\ UNCHANGED <<file, phase, open, unit>>

\* What is declared otherwise is a field, also when the file ends there.
AddField ==
    /\ InClass /\ Peeks(stream, "let") /\ Group(Pop(stream)) \notin {"method", "class"}
    /\ LET field == VariableDeclaration(Blind(Pop(stream)), "ALLOW")
       IN  AddTo(Parsed(EnsureEndOp(field.s), field.node))

\* Anything else ends the scope and is left to the scope around it.
BadMember ==
    /\ InClass /\ ~AtEnd(stream) /\ Group(stream) \notin {"let", "}"}
    /\ Leave(Report(stream, "TOKEN_DOESNT_EXIST"))

-----------------------------------------------------------------------------
(* The scope of a method, a branch or a loop.                              *)

StatementStarts ==
    {"this", "id", "literal", "huge", "add", "times", "(", "minus", "equals",
     "replace", "addTo", "timesTo", "increase", "new"}
StatementWords == StatementStarts \cup {"call", "let", "if", "while", "for", "return", "}"}

EndedByOp(value) == Parsed(EnsureEndOp(value.s), value.node)

CallStatement ==
    /\ InMethod /\ Peeks(stream, "call")
    /\ AddTo(EndedByOp(ParseMethodCall(stream)))

DeclareVariable ==
    /\ InMethod /\ Peeks(stream, "let")
    /\ AddTo(EndedByOp(VariableDeclaration(Pop(stream), "REQUIRE")))

ValueStatement ==
    /\ InMethod /\ Group(stream) \in StatementStarts
    /\ AddTo(EndedByOp(ParseValue(stream)))

ReturnStatement ==
    /\ InMethod /\ Peeks(stream, "return")
    /\ LET value == EndedByOp(ParseValue(Pop(stream)))
       IN  AddTo(Parsed(value.s, [kind |-> "return", value |-> value.node]))

IfStatement ==
    /\ InMethod /\ Peeks(stream, "if")
    /\ Enter(Conditioned(<<>>, ParseValue(Pop(stream))))

WhileStatement ==
    /\ InMethod /\ Peeks(stream, "while")
    /\ LET condition == ParseValue(Pop(stream))
       IN  Enter(Parsed(Expect(condition.s, "{", "NO_SCOPE_BEGIN"),
                        [kind |-> "while", condition |-> condition.node, body |-> <<>>]))

Loop(iterator, collection) ==
    Parsed(Expect(collection.s, "{", "NO_SCOPE_BEGIN"),
           [kind |-> "for", iterator |-> iterator.node, collection |-> collection.node, body |-> <<>>])
LoopOver(iterator) == Loop(iterator, ParseValue(Expect(iterator.s, "from", "NO_KEYWORD_FROM")))

ForStatement ==
    /\ InMethod /\ Peeks(stream, "for")
    /\ Enter(LoopOver(VariableDeclaration(Pop(stream), "FORBID")))

SkipStatement ==
    /\ InMethod /\ ~AtEnd(stream) /\ Group(stream) \notin StatementWords
    /\ stream' = Skipped(stream)
    /\ UNCHANGED <<file, phase, open, unit>>

-----------------------------------------------------------------------------
\* The process dies, or the exception leaves the parser.
Dies ==
    /\ phase \in {"unit", "imports", "types"} /\ stream.fate # "fine"
    /\ phase' = stream.fate
    /\ UNCHANGED <<file, stream, open, unit>>

Done ==
    /\ phase \in {"parsed", "undefined", "thrown"}
    /\ UNCHANGED vars

Next ==
    \/ NoTokens \/ ParseCompilationUnit \/ ParseImport
    \/ DeclareClass \/ DeclareOther \/ SkipGlobal \/ EndOfFile
    \/ EndScope \/ UnendedScope
    \/ AddMethod \/ InnerClass \/ AddField \/ BadMember
    \/ CallStatement \/ DeclareVariable \/ ValueStatement \/ ReturnStatement
    \/ IfStatement \/ WhileStatement \/ ForStatement \/ SkipStatement
    \/ Dies
    \/ Done

Spec == Init /\ [][Next]_vars
=============================================================================
