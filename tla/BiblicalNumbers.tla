-------------------------- MODULE BiblicalNumbers --------------------------
(***************************************************************************)
(* Numbers written in words (parser/value/biblical_numbers_parser.cpp).    *)
(* An automaton reads the words one ahead: "three hundred and twenty point *)
(* five" is 3, 100, added 20, the point, 5.  Words in a row are            *)
(* multiplied to a group (a `distro'), groups are added, what follows the  *)
(* point is read the same way and becomes the decimal fraction.            *)
(*                                                                         *)
(* A word is a token with its value and whether it is an added one; the    *)
(* decimal separator is a token of its own.                                *)
(***************************************************************************)
EXTENDS TokenStream

CONSTANT IntSpan        \* 2^32, the number of values of an int

ASSUME IntSpanAssumption == IntSpan \in Nat /\ IntSpan >= 2 /\ IntSpan % 2 = 0

IntMin == -(IntSpan \div 2)
IntMax == (IntSpan \div 2) - 1

\* Overflow wraps around.
Wrap(n) == ((n - IntMin) % IntSpan) + IntMin

PowersOf10 == {10, 100, 1000, 10000}

NumberWords == {"number", "point"}
NoWord == [group |-> "none"]
IsAddition(word) == word.group = "number" /\ word.added
IsPeriod(word) == word.group = "point"

(* The parser: `held' is FALSE once the token of the current word was      *)
(* moved away, `previous' is IntMin until the first group of a part.       *)
NumberParser(s) ==
    [s |-> s, state |-> "START", current |-> NoWord, next |-> NoWord, held |-> TRUE,
     hasPeriod |-> FALSE, previous |-> IntMin, distro |-> 0, result |-> 0, integer |-> 0]

Sin(q, what) == [q EXCEPT !.s = Report(@, what)]
Throws(q) == [q EXCEPT !.s = Ended(@, "thrown")]

ReadNumber(q) ==
    LET word == IF Group(q.s) \in NumberWords THEN Head(q.s.rest) ELSE NoWord
    IN  [q EXCEPT !.current = q.next, !.next = word, !.held = TRUE,
                  !.s = IF word = NoWord THEN @ ELSE Pop(@)]

-----------------------------------------------------------------------------
(* The actions of the states.  The value of the point throws.              *)

\* Mutant: the group that ended is not added to the result.
GroupForgotten(q) ==
    [q EXCEPT !.previous = IF @ = IntMin THEN IntMax ELSE q.distro,
              !.distro = q.current.value, !.held = FALSE]

GroupEnded(q) ==
    [q EXCEPT !.result = Wrap(@ + q.distro),
              !.previous = IF @ = IntMin THEN IntMax ELSE q.distro,
              !.distro = q.current.value, !.held = FALSE]

HandleAddition(q) ==
    LET ascending == q.previous # IntMin /\ q.distro >= q.previous
        judged    == IF ascending THEN Sin(q, "INVALID_NUMBER_FORMAT_ASCENDING") ELSE q
    IN  IF IsPeriod(q.current) THEN Throws(judged) ELSE GroupEnded(judged)

HandleMultiplication(q) ==
    LET product    == [q EXCEPT !.distro = Wrap(@ * q.current.value)]
        factor     == IF q.current.value \in PowersOf10 THEN product
                      ELSE Sin(product, "INVALID_MULTIPLICATION_FACTOR")
        compared   == q.next # NoWord /\ ~IsAddition(q.next)
    IN  IF ~compared THEN factor
        ELSE IF IsPeriod(q.next) THEN Throws(factor)
        ELSE IF q.current.value >= q.next.value
             THEN Sin(factor, "INVALID_NUMBER_FORMAT_DESCENDING")
             ELSE factor

HandlePeriod(q) ==
    [q EXCEPT !.hasPeriod = TRUE, !.integer = Wrap(q.result + q.distro),
              !.result = 0, !.distro = 0, !.previous = IntMin]

Act(q) ==
    CASE q.state = "HANDLE_ADDITION"       -> HandleAddition(q)
      [] q.state = "HANDLE_MULTIPLICATION" -> HandleMultiplication(q)
      [] q.state = "HANDLE_PERIOD"         -> HandlePeriod(q)
      [] OTHER                             -> q

-----------------------------------------------------------------------------
(* The transitions, by the word that follows.                              *)

Into(q, state) == [q EXCEPT !.state = state]

StartTransition(q) ==
    CASE IsAddition(q.next) -> Into(Sin(q, "UNEXPECTED_ADDITION_OPERATOR"), "HANDLE_ADDITION")
      [] IsPeriod(q.next)   -> Into(Sin(q, "UNEXPECTED_PERIOD_OPERATOR"), "START")
      [] OTHER              -> Into(q, "HANDLE_ADDITION")

NextNumberTransition(q) ==
    CASE IsAddition(q.next)               -> Into(q, "HANDLE_ADDITION")
      [] IsPeriod(q.next) /\ q.hasPeriod  -> Into(Sin(q, "MULTIPLE_PERIOD_OPERATORS"), "HANDLE_ADDITION")
      [] IsPeriod(q.next) /\ ~q.hasPeriod -> Into(q, "HANDLE_PERIOD")
      [] OTHER                            -> Into(q, "HANDLE_MULTIPLICATION")

\* The state after the point has the transitions of the start.
Transition(q) ==
    IF q.state \in {"START", "HANDLE_PERIOD"} THEN StartTransition(q) ELSE NextNumberTransition(q)

-----------------------------------------------------------------------------
(* collect_numbers.  When the file ends right after a word the loop ends   *)
(* before that word was handled.                                           *)

RECURSIVE CollectNumbers(_)
CollectNumbers(q) ==
    IF AtEnd(q.s) THEN q
    ELSE LET read == ReadNumber(q)
         IN  CASE read.current = NoWord /\ read.next = NoWord -> read
               [] read.next = NoWord                          -> Act(read)
               [] OTHER                                       -> CollectNumbers(Transition(Act(read)))

\* A number must not end with its point; the report asks the token of the
\* last word, which the state of addition has moved away.
FinishNumber(q) ==
    LET ended == [q EXCEPT !.result = Wrap(@ + q.distro)]
    IN  CASE q.s.fate # "fine"          -> q
          [] q.state # "HANDLE_PERIOD"  -> ended
          [] ~q.held                    -> [ended EXCEPT !.s = Ended(@, "undefined")]
          [] OTHER                      -> Sin(ended, "UNEXPECTED_END_OF_NUMBER")

\* The least power of ten above n.
RECURSIVE DivisorFrom(_, _)
DivisorFrom(divisor, n) == IF divisor <= n THEN DivisorFrom(divisor * 10, n) ELSE divisor
Divisor(n) == DivisorFrom(1, n)

\* The value is the quotient of two numbers; the double that it is rounded
\* to is not modelled.
NumberNode(words, type, over, under) ==
    [kind |-> "number", words |-> words, type |-> type, over |-> over, under |-> under]

ParseNumber(s) ==
    LET q       == FinishNumber(CollectNumbers(NumberParser(s)))
        after   == IF q.hasPeriod THEN Optional(q.s, "float") ELSE q.s
        words   == SubSeq(s.rest, 1, Len(s.rest) - Len(after.rest))
        type    == CASE ~q.hasPeriod          -> "int"
                     [] Peeks(q.s, "float")   -> "float"
                     [] OTHER                 -> "double"
        divisor == Divisor(q.result)
    IN  Parsed(after, IF q.hasPeriod
                      THEN NumberNode(words, type, q.integer * divisor + q.result, divisor)
                      ELSE NumberNode(words, type, q.result, 1))

-----------------------------------------------------------------------------
(* What the words mean: the sum of the products of the groups, which may   *)
(* only descend.  The last group is compared with nothing.                 *)

\* The groups of words without a point, a group being the set of its places.
Starts(words) == {i \in 1..Len(words) : i = 1 \/ IsAddition(words[i])}
RECURSIVE Product(_)
Product(words) == IF words = <<>> THEN 1 ELSE Head(words).value * Product(Tail(words))
GroupAt(words, i) ==
    LET later == {j \in Starts(words) : j > i}
        last  == IF later = {} THEN Len(words) ELSE (CHOOSE j \in later : \A k \in later : j <= k) - 1
    IN  Product(SubSeq(words, i, last))
RECURSIVE SumFrom(_, _)
SumFrom(words, i) ==
    IF i > Len(words) THEN 0
    ELSE (IF i \in Starts(words) THEN GroupAt(words, i) ELSE 0) + SumFrom(words, i + 1)
Meaning(words) == SumFrom(words, 1)

Descends(words) ==
    \A i, j \in Starts(words) :
       i < j /\ (\E k \in Starts(words) : k > j) => GroupAt(words, i) > GroupAt(words, j)

\* The words before the point and those behind it.
PointAt(words) == IF \E i \in 1..Len(words) : IsPeriod(words[i])
                  THEN CHOOSE i \in 1..Len(words) : IsPeriod(words[i])
                  ELSE Len(words) + 1
BeforePoint(words) == SubSeq(words, 1, PointAt(words) - 1)
BehindPoint(words) == SelectSeq(SubSeq(words, PointAt(words) + 1, Len(words)),
                                LAMBDA word : word.group = "number")

\* No product or sum left the range of an int.
Fits(words) == Meaning(words) <= IntMax

(* An accepted number whose value an int can hold is worth what its words  *)
(* mean and descends but for its last group (comment at line 143 of the    *)
(* parser).                                                                *)
IsTrueNumber(node) ==
    LET whole    == BeforePoint(node.words)
        fraction == BehindPoint(node.words)
        divisor  == Divisor(Meaning(fraction))
    IN  Fits(whole) /\ Fits(fraction) =>
           /\ Descends(whole) /\ Descends(fraction)
           /\ IF PointAt(node.words) > Len(node.words)
              THEN node.over = Meaning(whole) /\ node.under = 1
              ELSE node.over = Meaning(whole) * divisor + Meaning(fraction) /\ node.under = divisor
=============================================================================
