------------------------- MODULE MCConditionBlock -------------------------
(***************************************************************************)
(* All conditions of up to three leaves, with a not anywhere, in every     *)
(* statement; and every comparison alone.                                  *)
(***************************************************************************)
EXTENDS ConditionBlock

Leaf(id, op, size) == [op |-> op, id |-> id, size |-> size]
Not(c) == [op |-> "not", arg |-> c]
Both(c, d) == {[op |-> op, left |-> c, right |-> d] : op \in {"and", "or"}}
OrNot(cs) == cs \cup {Not(c) : c \in cs}

(* a and c are boolean, b is a comparison; their operands differ in size. *)
A == OrNot({Leaf("a", "boolean", 1)})
B == OrNot({Leaf("b", "less", 2)})
C == OrNot({Leaf("c", "boolean", 4)})
Pairs(cs, ds) == OrNot(UNION {Both(c, d) : c \in cs, d \in ds})
Combined == A \cup Pairs(A, B) \cup Pairs(Pairs(A, B), C) \cup Pairs(A, Pairs(B, C))
Comparisons ==
    OrNot({Leaf("b", op, 2) :
        op \in {"greater", "greater_equals", "less", "less_equals", "equals", "not_equals"}})

Statement(kind, conditions, bodies) == [kind |-> kind, conditions |-> conditions, bodies |-> bodies]
StatementsWith(cs) ==
    UNION {{Statement("if", <<c>>, <<5>>),
            Statement("if", <<c>>, <<5, 2>>),
            Statement("if", <<c, Leaf("c", "boolean", 4)>>, <<5, 2>>),
            Statement("if", <<Leaf("c", "boolean", 4), c, Not(Leaf("a", "boolean", 1))>>, <<5, 2, 7, 1>>),
            Statement("while", <<c>>, <<5>>),
            Statement("value", <<c>>, <<>>)} : c \in cs}

Sound(c) == "IS_ZERO" \notin OrOnTrue[c]
SoundStatements == StatementsWith({c \in Combined \cup Comparisons : Sound(c)})

(* Ifs on three variables, each loaded by one byte. *)
V(id) == {Leaf(id, "boolean", 1)}
Disjunctions == Pairs(Pairs(V("a"), V("b")), V("c"))
VariableIfs == {Statement("if", <<c>>, <<5>>) : c \in Disjunctions}

(* Conditions with the operands of each, and the depth of each. *)
MCConditions == Combined \cup Comparisons \cup A \cup B \cup C \cup Pairs(A, B) \cup Pairs(B, C)
                \cup {Leaf("b", op, 2) : op \in DOMAIN Relation \ {"boolean"}}
MCVariableConditions == Disjunctions \cup V("a") \cup V("b") \cup V("c") \cup Pairs(V("a"), V("b"))

RECURSIVE DepthOf(_)
DepthOf(c) == CASE c.op = "not" -> 1 + DepthOf(c.arg)
                [] c.op \in {"and", "or"} -> 1 + DepthOf(c.left) + DepthOf(c.right)
                [] OTHER -> 0
MCDepth == [c \in Conditions |-> DepthOf(c)]

BooleanValues == [{"a", "b", "c"} -> {0, 1}]
MCValues == {[a |-> x, b |-> y, c |-> z] : x \in {0, 1}, y \in {-1, 0, 1}, z \in {0, 1}}
============================================================================
