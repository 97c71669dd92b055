-------------------------- MODULE ParserProperties --------------------------
(***************************************************************************)
(* What the tree of a file that the parser accepts owes to the file.       *)
(***************************************************************************)
EXTENDS Parser

Accepted == phase = "parsed" /\ stream.reports = {}

T(group) == <<[group |-> group]>>
Wrong == T("error")

(* A tree written down again, token by token.                              *)
WrittenFqn(name) ==
    IF name.parts = <<>> /\ ~name.wild THEN Wrong
    ELSE name.parts \o (IF name.wild THEN T("*") ELSE <<>>)

RECURSIVE Arrays(_)
Arrays(n) == IF n = 0 THEN <<>> ELSE T("array") \o Arrays(n - 1)
WrittenType(type) ==
    (IF type.kind = "primitive type" THEN T(type.base) ELSE WrittenFqn(type.name)) \o Arrays(type.dims)

WrittenAssoc(assoc) == IF assoc \in {"this", "super"} THEN T(assoc) ELSE <<>>

RECURSIVE WrittenValue(_), WrittenArgs(_), WrittenSizes(_)
WrittenArgs(args) ==
    IF args = <<>> THEN <<>>
    ELSE <<args[1].name>> \o WrittenValue(args[1].value)
         \o (IF Len(args) > 1 THEN T(",") ELSE <<>>) \o WrittenArgs(Tail(args))
WrittenSize(size) ==
    IF size.kind = "literal" /\ size.token.group = "oneCubit" THEN T("oneCubit")
    ELSE WrittenValue(size) \o T("cubit")
WrittenSizes(sizes) ==
    IF sizes = <<>> THEN <<>>
    ELSE WrittenSize(sizes[1]) \o (IF Len(sizes) > 1 THEN T("by") ELSE <<>>) \o WrittenSizes(Tail(sizes))
WrittenValue(v) ==
    CASE v.kind = "name"     -> WrittenAssoc(v.assoc) \o WrittenFqn(v.name)
      [] v.kind = "literal"  -> <<v.token>>
      [] v.kind = "number"   -> v.words
      [] v.kind = "unary" /\ v.op = "not" -> WrittenValue(v.value) \o T("not")
      [] v.kind = "unary" /\ v.op # "not" -> T(v.op) \o WrittenValue(v.value)
      [] v.kind = "binary"   -> T(v.op) \o WrittenValue(v.left) \o T(Separator[v.op]) \o WrittenValue(v.right)
      [] v.kind = "suffixed" -> WrittenValue(v.left) \o T(v.op)
                                \o (IF v.op = "as" THEN WrittenType(v.right) ELSE WrittenValue(v.right))
      [] v.kind = "shift"    -> T("shift") \o T(v.direction) \o WrittenValue(v.left) \o T("=")
                                \o WrittenValue(v.right)
      [] v.kind = "range"    -> WrittenValue(v.left) \o T("to") \o WrittenValue(v.to)
                                \o (IF v.skip = Nothing THEN <<>> ELSE T("skip") \o WrittenValue(v.skip))
      [] v.kind = "call"     -> (IF v.receiver = Nothing THEN WrittenAssoc(v.assoc)
                                 ELSE WrittenValue(v.receiver))
                                \o WrittenFqn(v.name) \o WrittenArgs(v.args)
      [] v.kind = "new"      -> T("new") \o WrittenType(v.type) \o WrittenArgs(v.args)
      [] v.kind = "new array" -> T("new") \o WrittenType(v.type) \o T("hisLength") \o WrittenSizes(v.sizes)
      [] OTHER               -> Wrong

WrittenModifiers(mods) ==
    IF mods = <<>> THEN <<>> ELSE [i \in DOMAIN mods |-> [group |-> mods[i]]] \o T("shallBe")
WrittenVariable(v) ==
    WrittenType(v.type) \o T("name") \o <<v.name>> \o WrittenModifiers(v.attributes)
    \o (IF v.value = Nothing THEN <<>> ELSE T("let") \o WrittenValue(v.value))
RECURSIVE WrittenNames(_), WrittenParameters(_)
WrittenNames(names) ==
    IF Len(names) <= 1 THEN names ELSE <<names[1]>> \o T(",") \o WrittenNames(Tail(names))
WrittenParameters(params) ==
    IF params = <<>> THEN <<>>
    ELSE T("takes") \o WrittenType(params[1].type) \o T("name") \o <<params[1].name>>
         \o WrittenParameters(Tail(params))
Introduced(word, tokens) == IF tokens = <<>> THEN <<>> ELSE T(word) \o tokens

RECURSIVE WrittenBody(_), WrittenBranches(_)
WrittenScope(body) == T("{") \o WrittenBody(body) \o T("}")
\* What stands in front of a branch, given what its condition is.
WrittenBranch(branch) ==
    (IF branch.condition = Nothing THEN T("else") ELSE T("elseIf") \o WrittenValue(branch.condition))
    \o WrittenScope(branch.body)
WrittenBranches(branches) ==
    IF branches = <<>> THEN <<>> ELSE WrittenBranch(branches[1]) \o WrittenBranches(Tail(branches))
WrittenMember(m) ==
    CASE m.kind = "variable" -> T("let") \o WrittenVariable(m) \o T(";")
      [] m.kind = "method"   -> T("let") \o T("method")
                                \o (IF m.name = Nothing THEN T("constructor") ELSE T("name") \o <<m.name>>)
                                \o WrittenModifiers(m.attributes) \o WrittenParameters(m.parameters)
                                \o (IF m.returns = Nothing THEN <<>> ELSE T("return") \o WrittenType(m.returns))
                                \o Introduced("throws", WrittenNames(m.sins)) \o WrittenScope(m.body)
      [] m.kind = "if"       -> T("if") \o Tail(WrittenBranches(Append(m.branches,
                                                 [condition |-> m.condition, body |-> m.body])))
      [] m.kind = "while"    -> T("while") \o WrittenValue(m.condition) \o WrittenScope(m.body)
      [] m.kind = "for"      -> T("for") \o WrittenVariable(m.iterator) \o T("from")
                                \o WrittenValue(m.collection) \o WrittenScope(m.body)
      [] m.kind = "return"   -> T("return") \o WrittenValue(m.value) \o T(";")
      [] OTHER               -> WrittenValue(m) \o T(";")
WrittenBody(body) == IF body = <<>> THEN <<>> ELSE WrittenMember(body[1]) \o WrittenBody(Tail(body))

WrittenClass(c) ==
    IF c.kind # "class" THEN Wrong
    ELSE T("let") \o T("class") \o T("name") \o <<c.name>>
         \o (IF c.super = Nothing THEN <<>> ELSE T("extends") \o <<c.super>>)
         \o Introduced("implements", WrittenNames(c.interfaces))
         \o WrittenModifiers(c.attributes) \o WrittenScope(c.body)
WrittenImport(i) ==
    T("import") \o T(IF i.static THEN "static import" ELSE "the") \o WrittenFqn(i.name) \o T(";")
WrittenUnit ==
    T(unit.basad)
    \o (IF unit.country = Nothing THEN <<>> ELSE T("originCountry") \o WrittenFqn(unit.country) \o T(";"))
    \o FlattenSeq([i \in DOMAIN unit.imports |-> WrittenImport(unit.imports[i])])
    \o FlattenSeq([i \in DOMAIN unit.types |-> WrittenClass(unit.types[i])])

-----------------------------------------------------------------------------
(* A file without the punctuation that leaves no trace in the tree:        *)
(* parentheses, the dots of names, a comma behind the last argument, and   *)
(* the word that calls, which stands before or behind the receiver.        *)
GroupAtPlace(i) == IF i \in DOMAIN file THEN file[i].group ELSE "end of file"
Bare(tokens) ==
    LET last == {i \in DOMAIN file : GroupAtPlace(i) = "," /\ GroupAtPlace(i + 1) = ")"}
        kept == {i \in DOMAIN file \ last : GroupAtPlace(i) \notin {"(", ")", ".", "call"}}
    IN  [n \in 1..Cardinality(kept) |->
           tokens[CHOOSE i \in kept : Cardinality({j \in kept : j <= i}) = n]]

\* The places of a file at which the tree is known to differ.
Unparsed == \E i \in DOMAIN file : GroupAtPlace(i) = "let" /\ GroupAtPlace(i + 1) = "interface"
SinsInBody == \E i \in DOMAIN file : GroupAtPlace(i) = "{" /\ GroupAtPlace(i + 1) = "throws"
WildcardWithin == \E i \in DOMAIN file : GroupAtPlace(i) = "*" /\ GroupAtPlace(i + 1) = "."
BeforeStatement == {";", "{", "}", "return", "let", "(", "the", "by", "against", "=", "from", "end of file"}
TwoReceivers ==
    \E i \in DOMAIN file :
       /\ GroupAtPlace(i) = "call" /\ GroupAtPlace(i - 1) \notin BeforeStatement
       /\ GroupAtPlace(i + 1) \in {"(", "literal", "this", "super"}

(* Nothing of an accepted file gets lost, moves or is made up: its tree,   *)
(* written down again, is the file.  Declarations of interfaces, sins      *)
(* behind the beginning of a body, wildcards inside a name and a second    *)
(* receiver of a call are the exceptions.                                  *)
SourceKept ==
    Accepted /\ ~(Unparsed \/ SinsInBody \/ WildcardWithin \/ TwoReceivers)
       => WrittenUnit = Bare(file)

Count(S) == Cardinality({i \in DOMAIN file : GroupAtPlace(i) \in S})

\* The last word of a file behind which the parser expects more without a
\* look at the end: a value, a method's name, modifiers, a member or the
\* digits behind a point.
AwaitsMore == file # <<>> /\ Last(file).group \notin {";", "{", "}"}

(* No end of a file goes unnoticed.  An accepted file closes every scope   *)
(* it opens, and every parenthesis but that of a receiver, and the front   *)
(* of the empty queue is read only where AwaitsMore says, or once something *)
(* of the file was refused.                                                *)
EndNoticed ==
    /\ Accepted =>
          LET receivers == {i \in DOMAIN file : GroupAtPlace(i) = "(" /\ GroupAtPlace(i - 1) = "call"}
              missing   == Count({"("}) - Count({")"})
          IN  Count({"{"}) = Count({"}"}) /\ missing \in 0..Cardinality(receivers)
    /\ phase = "undefined" => AwaitsMore \/ stream.reports # {}

\* The numbers in a class: initial values of fields.
FieldNumbers(c) ==
    IF c.kind # "class" THEN {}
    ELSE {c.body[i].value : i \in {j \in DOMAIN c.body : c.body[j].kind = "variable"
                                                         /\ c.body[j].value.kind = "number"}}

(* What a number in words is worth, and the order its groups stand in.     *)
NumbersTrue ==
    Accepted => \A i \in DOMAIN unit.types : \A n \in FieldNumbers(unit.types[i]) : IsTrueNumber(n)

(* The parser comes to an end with every file: each step takes a token,    *)
(* or leaves a scope, or is the last one.                                  *)
MovesOn ==
    [][\/ Len(stream'.rest) < Len(stream.rest)
       \/ stream'.rest = stream.rest /\ Len(open') < Len(open)
       \/ phase' \in {"parsed", "undefined", "thrown"}]_vars
=============================================================================
