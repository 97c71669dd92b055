---------------------------- MODULE ParsedValues ----------------------------
(***************************************************************************)
(* The recursive descent through values (parser/value/, with the method    *)
(* calls of parser/type/class/method_parser.cpp).  Every operator takes a  *)
(* stream and gives the node it built and the stream behind it.            *)
(*                                                                         *)
(* Operators of one shape share a group: "add" stands for addition and     *)
(* subtraction, "times" for multiplication, division and modulo, "equals"  *)
(* for the six comparisons, "and" for the logical and bitwise operators    *)
(* between two values, "increase" for increment and decrement.  "huge" is  *)
(* a literal that std::stoi and its kin refuse.                            *)
(***************************************************************************)
EXTENDS BiblicalNumbers

LiteralReceivers == {"literal", "huge"}
Primaries == LiteralReceivers \cup {"this", "id", "null"}

\* What stands between the operands of a prefix operator.
Separator == [add |-> "the", times |-> "by", equals |-> "against",
              addTo |-> "the", timesTo |-> "by", replace |-> "="]
WhyNo(separator) ==
    CASE separator = "the"     -> "NO_KEYWORD_THE"
      [] separator = "by"      -> "NO_KEYWORD_BY"
      [] separator = "against" -> "NO_KEYWORD_AGAINST"
      [] separator = "="       -> "NO_KEYWORD_PUNC_EQUAL"

Binaries == {"add", "times", "equals"}
Assignments == {"addTo", "timesTo"}
Unaries == {"minus", "complement", "arrayLength", "increase"}

Literal(token) == [kind |-> "literal", token |-> token]
Reference(named) == [kind |-> "name", assoc |-> named.assoc, name |-> named.name]
Unary(op, value) == [kind |-> "unary", op |-> op, value |-> value]
Binary(op, left, right) == [kind |-> "binary", op |-> op, left |-> left, right |-> right]
Suffixed(op, left, right) == [kind |-> "suffixed", op |-> op, left |-> left, right |-> right]
CallNode(receiver, assoc, name) ==
    [kind |-> "call", receiver |-> receiver, assoc |-> assoc, name |-> name, args |-> <<>>]

\* parse_primitive_value.
ParsePrimitive(s) ==
    CASE Group(s) \in {"this", "id"} -> LET named == ParseAssociationAndFqn(s)
                                        IN  Parsed(named.s, Reference(named.node))
      [] Peeks(s, "huge")            -> Parsed(Ended(s, "thrown"), ErrorNode)
      [] OTHER                       -> Parsed(Pop(s), Literal(Head(s.rest)))

RECURSIVE ParseValue(_), CheckExtras(_, _), ParseArguments(_, _), ParseDimensions(_, _)

-----------------------------------------------------------------------------
(* Calls.  The closing parenthesis of a receiver and the dot behind it may *)
(* be missing.                                                             *)

Closed(s) == Optional(Optional(s, ")"), ".")

CallOn(receiver, s) ==
    LET fqn == ParseFqn(s) IN Parsed(fqn.s, CallNode(receiver, "expression", fqn.node))

CallOnInner(inner) == CallOn(inner.node, Closed(inner.s))
CallOnLiteral(literal) == CallOn(literal.node, Optional(literal.s, "."))
CallByName(named) == Parsed(named.s, CallNode(Nothing, named.node.assoc, named.node.name))

CalledMethod(s) ==
    CASE Peeks(s, "(")                  -> CallOnInner(ParseValue(Pop(s)))
      [] Group(s) \in LiteralReceivers  -> CallOnLiteral(ParsePrimitive(s))
      [] OTHER                          -> CallByName(ParseAssociationAndFqn(s))

\* parse_methods_call_parameters: what behind the opening parenthesis is an
\* argument, a name and a value.
AfterArgument(s, node) ==
    CASE Peeks(s, ",") -> ParseArguments(Pop(s), node)
      [] Peeks(s, ")") -> ParseArguments(s, node)
      [] OTHER         -> Parsed(Report(s, "NO_CLOSE_PARENTHESIS"), node)
WithArgument(node, name, value) ==
    AfterArgument(value.s, [node EXCEPT !.args = Append(@, [name |-> name, value |-> value.node])])
ParseArguments(s, node) ==
    IF Peeks(s, ")") THEN Parsed(Pop(s), node)
    ELSE LET name == ConsumeIdentifier(s)
         IN  WithArgument(node, name.node, ParseValue(name.s))

WithArguments(call) ==
    IF Peeks(call.s, "(") THEN ParseArguments(Pop(call.s), call.node) ELSE call

ParseMethodCall(s) == WithArguments(CalledMethod(Blind(Pop(s))))

-----------------------------------------------------------------------------
(* new: of an object, or of an array with a size for some dimensions.      *)

NextDimension(s, node) ==
    IF Peeks(s, "by") THEN ParseDimensions(Pop(s), node) ELSE Parsed(s, node)
Measured(node, size) ==
    NextDimension(Expect(size.s, "cubit", "NO_KEYWORD_CUBITS"), [node EXCEPT !.sizes = Append(@, size.node)])
ParseDimensions(s, node) ==
    IF Peeks(s, "oneCubit")
    THEN NextDimension(Pop(s), [node EXCEPT !.sizes = Append(@, Literal(Head(s.rest)))])
    ELSE Measured(node, ParseValue(s))

ParseNew(s) ==
    LET type == ParseType(Pop(s))
    IN  CASE type.node.dims > 0 ->
               ParseDimensions(Expect(type.s, "hisLength", "NO_KEYWORD_HIS_LENGTH"),
                               [kind |-> "new array", type |-> type.node, sizes |-> <<>>])
          [] type.node.dims = 0 /\ type.node.kind = "primitive type" ->
               Parsed(Report(type.s, "INVALID_TYPE_FOR_NEW"), ErrorNode)
          [] OTHER ->
               WithArguments(Parsed(type.s, [kind |-> "new", type |-> type.node, args |-> <<>>]))

-----------------------------------------------------------------------------
(* Operators in front of their operands.  Without the word between them    *)
(* the right operand is not read.                                          *)

\* Mutant: the operands change places.
SwappedOperands(op, left, right) == Parsed(right.s, Binary(op, right.node, left.node))

BothOperands(op, left, right) == Parsed(right.s, Binary(op, left.node, right.node))

\* The left operand of an assignment is a variable, of `replace' an element
\* of an array too.
MayBeAssigned(op, node) ==
    node.kind = "name" \/ (op = "replace" /\ node.kind = "suffixed" /\ node.op = "index")

\* parse_variable comes before the separator, the check of replace behind
\* the right operand.
Assigned(op, left, right) ==
    IF MayBeAssigned(op, left.node) THEN BothOperands(op, left, right)
    ELSE Parsed(Report(right.s, "EXPECTED_VARIABLE"), ErrorNode)

Behind(op, left) ==
    IF op \in Assignments /\ ~MayBeAssigned(op, left.node)
    THEN Parsed(Report(left.s, "EXPECTED_VARIABLE"), ErrorNode)
    ELSE IF ~Peeks(left.s, Separator[op])
    THEN Parsed(Report(left.s, WhyNo(Separator[op])), ErrorNode)
    ELSE IF op = "replace"
    THEN Assigned(op, left, ParseValue(Pop(left.s)))
    ELSE BothOperands(op, left, ParseValue(Pop(left.s)))

Prefixed(op, value) ==
    IF op = "increase" /\ value.node.kind # "name"
    THEN Parsed(Report(value.s, "EXPECTED_VARIABLE"), ErrorNode)
    ELSE Parsed(value.s, Unary(op, value.node))

Parenthesised(inner) == Parsed(Expect(inner.s, ")", "NO_CLOSE_PARENTHESIS"), inner.node)

\* parse_bitwise_shift: neither a missing direction nor a missing equal
\* sign keeps it from reading on; the direction is uninitialized then.
Shifted(direction, left, right) ==
    Parsed(right.s, [kind |-> "shift", direction |-> direction, left |-> left.node, right |-> right.node])
ShiftedBy(direction, left) ==
    Shifted(direction, left, ParseValue(Expect(left.s, "=", "NO_KEYWORD_PUNC_EQUAL")))
ParseShift(s) ==
    IF Group(s) \in {"left", "right"}
    THEN ShiftedBy(Group(s), ParseValue(Pop(s)))
    ELSE ShiftedBy("left", ParseValue(Report(s, "NO_SHIFTING_DIRECTION")))

-----------------------------------------------------------------------------
(* Operators behind their left operand.                                    *)

Suffix(op, left, value) == Parsed(value.s, Suffixed(op, left, value.node))

RangeNode(left, to, skip) ==
    Parsed(skip.s, [kind |-> "range", left |-> left, to |-> to.node, skip |-> skip.node])
RangeTo(left, to) ==
    IF Peeks(to.s, "skip") THEN RangeNode(left, to, ParseValue(Pop(to.s)))
    ELSE RangeNode(left, to, Parsed(to.s, Nothing))

\* The call already parsed, whatever its receiver, is given the value.
CallOnValue(receiver, call) ==
    CheckExtras(call.s, [call.node EXCEPT !.receiver = receiver, !.assoc = "expression"])

CheckExtras(s, left) ==
    CASE AtEnd(s) -> Parsed(Report(s, "UNEXPECTED_EOF"), left)
      [] Peeks(s, "to")    -> RangeTo(left, ParseValue(Pop(s)))
      [] Peeks(s, "index") -> Suffix("index", left, ParseValue(Pop(s)))
      [] Peeks(s, "as")    -> Suffix("as", left, ParseType(Pop(s)))
      [] Peeks(s, "not")   -> Parsed(Pop(s), Unary("not", left))
      [] Peeks(s, "and")   -> Suffix("and", left, ParseValue(Pop(s)))
      [] Peeks(s, "call")  -> CallOnValue(left, ParseMethodCall(s))
      [] OTHER             -> Parsed(s, left)

-----------------------------------------------------------------------------
Extras(value) == CheckExtras(value.s, value.node)

\* A value without what is behind it.
Operand(s) ==
    CASE AtEnd(s) -> Parsed(Blind(s), ErrorNode)
      [] Group(s) \in Primaries   -> ParsePrimitive(s)
      [] Group(s) \in NumberWords -> ParseNumber(s)
      [] Group(s) \in Binaries \cup Assignments \cup {"replace"} -> Behind(Group(s), ParseValue(Pop(s)))
      [] Group(s) \in Unaries     -> Prefixed(Group(s), ParseValue(Pop(s)))
      [] Peeks(s, "(")            -> Parenthesised(ParseValue(Pop(s)))
      [] Peeks(s, "shift")        -> ParseShift(Pop(s))
      [] Peeks(s, "call")         -> ParseMethodCall(s)
      [] OTHER                    -> Parsed(Report(Pop(s), "UNEXPECTED_TOKEN"), ErrorNode)

\* Nothing may be behind `new'.
ParseValue(s) == IF Peeks(s, "new") THEN ParseNew(s) ELSE Extras(Operand(s))
=============================================================================
