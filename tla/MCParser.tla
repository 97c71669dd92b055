------------------------------ MODULE MCParser ------------------------------
(***************************************************************************)
(* Files for Parser: every short sequence over the words of one part of    *)
(* the language, at its place in a file that is otherwise complete, and    *)
(* files that end in the middle.  Identifiers and literals are named after *)
(* their place, so that no two of a file are the same.                     *)
(***************************************************************************)
EXTENDS ParserProperties

WithText == {"id", "literal", "huge"}
Words ==
  [three |-> <<3, FALSE>>, ten |-> <<10, FALSE>>, hundred |-> <<100, FALSE>>, thousand |-> <<1000, FALSE>>,
   andThree |-> <<3, TRUE>>, andTwenty |-> <<20, TRUE>>, andHundred |-> <<100, TRUE>>]

Token(word, place) ==
  CASE word \in WithText     -> [group |-> word, text |-> place]
    [] word \in DOMAIN Words -> [group |-> "number", value |-> Words[word][1], added |-> Words[word][2]]
    [] OTHER                 -> [group |-> word]
File(words) == [i \in DOMAIN words |-> Token(words[i], i)]

\* n of the words, or less, at one place of a file.
Part(before, n, words, behind) == [before |-> before, n |-> n, words |-> words, behind |-> behind]
Written(part, n) == {File(part.before \o middle \o part.behind) : middle \in [1..n -> part.words]}

InAClass == <<"basad", "let", "class", "name", "id", "{">>
InAMethod == InAClass \o <<"let", "method", "name", "id", "{">>
InAField == InAClass \o <<"let", "int", "name", "id", "let">>
ClassEnd == <<"}">>
MethodEnd == <<"}", "}">>
Returned == <<";">> \o MethodEnd
Another == <<"id", ";">> \o MethodEnd

Values ==
  {Part(InAMethod \o <<"return">>, 4, {"id", "call", "(", ")", ",", "this", ".", "not"}, Returned),
   Part(InAMethod \o <<"return">>, 3,
        {"id", "literal", "add", "the", "index", "as", "int", "shift", "left", "=", "to", "skip"}, Another),
   Part(InAMethod, 4, {"id", "replace", "=", "index", "increase", "addTo", "the"}, Another),
   Part(InAMethod \o <<"new">>, 4, {"id", "int", "array", "hisLength", "cubit", "oneCubit", "by"}, Returned),
   Part(InAMethod \o <<"return">>, 3,
        {"huge", "null", "arrayLength", "and", "times", "by", "equals", "against", "(", ")"}, Another)}

Numbers ==
  {Part(InAField, 4, {"three", "ten", "hundred", "thousand", "andThree", "andTwenty", "andHundred", "point"}, <<";">> \o ClassEnd),
   Part(InAField, 5, {"three", "hundred", "andTwenty", "point"}, <<"float", ";">> \o ClassEnd),
   Part(InAField, 4, {"three", "hundred", "andTwenty", "point"}, <<>>)}

Statements ==
  {Part(InAMethod, 4, {"if", "else", "id", "{", "}", "while", ";"}, MethodEnd),
   Part(InAMethod \o <<"if", "id", "{", "}">>, 4, {"elseIf", "else", "id", "{", "}"}, MethodEnd),
   Part(InAMethod, 3, {"let", "int", "name", "id", "static", "shallBe"}, <<"let">> \o Another),
   Part(InAMethod \o <<"for">>, 4, {"int", "name", "id", "from", "let", "to"}, <<"{">> \o MethodEnd),
   Part(InAMethod, 2, {"return", "call", "let", "new", "replace", "id", "if", "import"}, <<>>)}

Members ==
  {Part(InAClass \o <<"let">>, 3,
        {"method", "name", "id", "{", "constructor", "return", "static", "class", "int"}, <<"{">> \o MethodEnd),
   Part(InAClass \o <<"let", "method", "name", "id">>, 4,
        {"takes", "int", "name", "id", "return", "throws", ",", "{"}, <<"{">> \o MethodEnd),
   Part(InAClass \o <<"let", "method", "name", "id">>, 4, {"id", "return", "throws", ",", "{"}, MethodEnd),
   Part(<<"basad", "let">>, 4, {"class", "name", "id", "extends", "implements", ",", "interface"}, <<"{">> \o ClassEnd),
   Part(InAClass, 3, {"let", "id", "static", "visibility", "shallBe", "}", "name"}, <<>>),
   Part(InAClass \o <<"let", "int", "name">>, 2, {"id", "visibility", "shallBe", "let"}, <<>>),
   Part(<<"basad">>, 2, {"let", "class", "interface"}, <<>>)}

Heads ==
  {Part(<<>>, 3, {"basad", "cross", "originCountry", "id", ".", "*", ";", "import", "the"}, <<>>),
   Part(<<"basad", "import">>, 4, {"static import", "the", "id", ".", "*", ";"}, <<";">>)}

Longest == 5
Parts == UNION {Values, Numbers, Statements, Members, Heads}
MCCorpora == {Written(part, IF n < part.n THEN n ELSE part.n) : part \in Parts, n \in 0..Longest}
=============================================================================
