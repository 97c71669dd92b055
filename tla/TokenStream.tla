--------------------------- MODULE TokenStream ---------------------------
(***************************************************************************)
(* What every part of the parser does with the queue of tokens             *)
(* (parser/util.cpp).  A stream is what is left of the queue, the errors   *)
(* reported so far and how the process fares: "fine", "undefined" once the *)
(* front of the empty queue was read, "thrown" once an exception left the  *)
(* parser.  After either nothing is left to parse.                         *)
(*                                                                         *)
(* A token is its group and, for identifiers and literals, a text.  Groups *)
(* that the parser treats alike share a name.                              *)
(***************************************************************************)
EXTENDS Integers, Sequences, SequencesExt

Stream(tokens) == [rest |-> tokens, reports |-> {}, fate |-> "fine"]

Group(s) == IF s.rest = <<>> THEN "end of file" ELSE Head(s.rest).group
AtEnd(s) == s.rest = <<>>
Peeks(s, group) == Group(s) = group

Ended(s, how) == [s EXCEPT !.rest = <<>>, !.fate = IF @ = "fine" THEN how ELSE @]
Report(s, what) == IF s.fate = "fine" THEN [s EXCEPT !.reports = @ \cup {what}] ELSE s

\* tokens.front() and tokens.pop() without a look at empty().
Blind(s) == IF AtEnd(s) THEN Ended(s, "undefined") ELSE s
Pop(s) == IF AtEnd(s) THEN Ended(s, "undefined") ELSE [s EXCEPT !.rest = Tail(@)]

\* consume_token: the token of a file that ended is FILE_EOF.
ConsumeToken(s, why) == IF AtEnd(s) THEN Report(s, why) ELSE Pop(s)

\* consuming_check whose result is not looked at, and one that must succeed.
Optional(s, group) == IF Peeks(s, group) THEN Pop(s) ELSE s
Expect(s, group, why) == IF Peeks(s, group) THEN Pop(s) ELSE Report(s, why)
EnsureEndOp(s) == Expect(s, ";", "NO_PUNCTUATION_END_OP")

Nothing == [kind |-> "nothing"]
ErrorNode == [kind |-> "error"]
ErrorName == [group |-> "error", text |-> 0]

\* A parsed thing and the stream behind it.
Parsed(s, node) == [s |-> s, node |-> node]

ConsumeIdentifier(s) ==
    IF Peeks(s, "id")
    THEN Parsed(Pop(s), Head(s.rest))
    ELSE Parsed(Report(ConsumeToken(s, "NO_IDENTIFIER"), "NO_IDENTIFIER"), ErrorName)

-----------------------------------------------------------------------------
(* Qualified names.  The loop takes one token a round, whatever it is.     *)

FqnRound(s, name) ==
    CASE Peeks(s, "id") -> Parsed(Pop(s), [name EXCEPT !.parts = Append(@, Head(s.rest))])
      [] Peeks(s, "*")  -> Parsed(Pop(s), [name EXCEPT !.wild = TRUE])
      [] OTHER          -> Parsed(Report(Pop(s), "NO_IDENTIFIER"), name)

FqnStops(read) ==
    IF read.node.wild /\ ~AtEnd(read.s) /\ ~Peeks(read.s, ";")
    THEN Parsed(Report(read.s, "NO_IDENTIFIER"), read.node)
    ELSE read

RECURSIVE FqnFrom(_, _)
FqnFrom(s, name) ==
    IF AtEnd(s) THEN Parsed(s, name)
    ELSE LET read == FqnRound(s, name)
         IN  IF Peeks(read.s, ".") THEN FqnFrom(Pop(read.s), read.node) ELSE FqnStops(read)

ParseFqn(s) == FqnFrom(s, [parts |-> <<>>, wild |-> FALSE])

\* parse_association_and_fqn: a dot may follow whether or not there is a
\* keyword before it.
ParseAssociationAndFqn(s) ==
    LET assoc == IF Group(s) \in {"this", "super"} THEN Group(s) ELSE "unknown"
        after == IF assoc = "unknown" THEN s ELSE Pop(s)
        fqn   == ParseFqn(Optional(after, "."))
    IN  Parsed(fqn.s, [assoc |-> assoc, name |-> fqn.node])

-----------------------------------------------------------------------------
(* Types.  Float is a primitive of its own, since numbers end with it.     *)

PrimitiveTypes == {"int", "float"}

RECURSIVE WithArrays(_, _)
WithArrays(s, type) ==
    IF Peeks(s, "array") THEN WithArrays(Pop(s), [type EXCEPT !.dims = @ + 1]) ELSE Parsed(s, type)

PrimitiveType(group) == [kind |-> "primitive type", base |-> group, dims |-> 0]
CustomType(name) == [kind |-> "custom type", name |-> name, dims |-> 0]
ErrorType == CustomType([parts |-> <<ErrorName>>, wild |-> FALSE])

ParseType(s) ==
    CASE AtEnd(s) -> Parsed(Report(s, "NO_TYPE"), ErrorType)
      [] Group(s) \in PrimitiveTypes -> WithArrays(Pop(s), PrimitiveType(Group(s)))
      [] Peeks(s, "id") -> LET fqn == ParseFqn(s) IN WithArrays(fqn.s, CustomType(fqn.node))
      [] OTHER -> Parsed(Report(Pop(s), "NO_TYPE"), ErrorType)
=============================================================================
