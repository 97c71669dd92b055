-------------------------- MODULE ConditionBlock --------------------------
(***************************************************************************)
(* The bytecode of conditions (output/ir/condition_block_builder.cpp) and  *)
(* of the statements that use them: if with its else-ifs and else, while,  *)
(* and a condition used as a value.  Init builds the code of a statement   *)
(* with the offsets the compiler computes; the steps run it the way a JVM  *)
(* does, so that a wrong offset shows as a wrong run.                      *)
(*                                                                         *)
(* An operand is a leaf: the instructions that put a boolean or two ints   *)
(* on the stack are one "load" of some bytes.  The body of a branch is one *)
(* instruction of some bytes.                                              *)
(***************************************************************************)
EXTENDS Integers, SequencesExt

CONSTANTS Conditions,   \* the conditions, and the operands of each of them
          Depth,        \* how deep operators are nested in each
          Statements,   \* the statements to compile and run
          Values,       \* the values of the leaves a run starts with
          JumpSpan      \* the number of values two bytes hold

VARIABLES statement,
          code,         \* the instructions, by the offset they start at, in bytes
          end,          \* the offset after the last one
          values,       \* the current value of every leaf
          pc,           \* the offset of the next instruction, in bytes
          tested,       \* the leaves tested in this evaluation of the conditions, in order
          entered,      \* the bodies entered, or the values pushed, in order
          held          \* what the conditions were worth when the last body was entered

vars == <<statement, code, end, values, pc, tested, entered, held>>

ASSUME JumpSpanAssumption == JumpSpan \in Nat

-----------------------------------------------------------------------------
(* Conditions and what they mean.  A boolean leaf is 0 or 1, a comparison  *)
(* is the sign of the difference of its operands.                          *)

Relation == [greater |-> {1}, greater_equals |-> {0, 1}, less |-> {-1}, less_equals |-> {-1, 0},
             equals |-> {0}, not_equals |-> {-1, 1}, boolean |-> {1}]

(* The code is a tree of nodes: an operand is of a smaller depth.          *)
ASSUME ConditionAssumption ==
    /\ Depth \in [Conditions -> Nat]
    /\ \A c \in Conditions :
        \/ c.op = "not" /\ c.arg \in Conditions /\ Depth[c.arg] < Depth[c]
        \/ /\ c.op \in {"and", "or"}
           /\ c.left \in Conditions /\ Depth[c.left] < Depth[c]
           /\ c.right \in Conditions /\ Depth[c.right] < Depth[c]
        \/ /\ c.op \in DOMAIN Relation /\ c.size \in Nat \ {0}
           /\ \A v \in Values : v[c.id] \in IF c.op = "boolean" THEN {0, 1} ELSE {-1, 0, 1}

(* The values under which a condition holds. *)
Truths[c \in Conditions] ==
    CASE c.op = "not" -> Values \ Truths[c.arg]
      [] c.op = "and" -> Truths[c.left] \cap Truths[c.right]
      [] c.op = "or"  -> Truths[c.left] \cup Truths[c.right]
      [] OTHER        -> {v \in Values : v[c.id] \in Relation[c.op]}
Holds(c, v) == v \in Truths[c]

(* The leaves tested, in order, when the right operand is tested only if   *)
(* the left one leaves the result open.                                    *)
TestedBy[c \in Conditions] ==
    [v \in Values |->
        CASE c.op = "not" -> TestedBy[c.arg][v]
          [] c.op \in {"and", "or"} ->
                 TestedBy[c.left][v]
                 \o (IF Holds(c.left, v) <=> c.op = "and" THEN TestedBy[c.right][v] ELSE <<>>)
          [] OTHER -> <<c.id>>]

-----------------------------------------------------------------------------
(* Instructions *)

IfTypes == {"IS_ZERO", "IS_NONZERO", "IS_INT_LESSER", "IS_INT_LESSER_OR_EQUAL", "IS_INT_GREATER",
            "IS_INT_GREATER_OR_EQUAL", "ARE_INTS_EQUAL", "ARE_INTS_NOT_EQUAL"}

(* The values of the operands at which the instruction jumps. *)
JumpsAt == [IS_ZERO |-> {0}, IS_NONZERO |-> {1},
            IS_INT_LESSER |-> {-1}, IS_INT_LESSER_OR_EQUAL |-> {-1, 0},
            IS_INT_GREATER |-> {1}, IS_INT_GREATER_OR_EQUAL |-> {0, 1},
            ARE_INTS_EQUAL |-> {0}, ARE_INTS_NOT_EQUAL |-> {-1, 1}]

Load(leaf) == [do |-> "load", size |-> leaf.size]
If(type, leaf, jump) == [do |-> "if", type |-> type, leaf |-> leaf.id, jump |-> jump, size |-> 3]
Goto(jump) == [do |-> "goto", jump |-> jump, size |-> 3]
Body(k, size) == [do |-> "body", branch |-> k, size |-> size]
Push(value) == [do |-> "push", value |-> value, size |-> 1]

(* Every instruction starts where the one before it ends. *)
Ends(block) ==
    LET ends[i \in 0..Len(block)] == IF i = 0 THEN 0 ELSE ends[i - 1] + block[i].size
    IN  ends
Size(block) == Ends(block)[Len(block)]

(* The offset put into two bytes is counted from the instruction's start.  *)
Offset(jump) == ((jump + 3 + JumpSpan \div 2) % JumpSpan) - JumpSpan \div 2

-----------------------------------------------------------------------------
(* build_condition_block: jump over blockSize bytes on false (IS_ZERO) or  *)
(* on true (IS_NONZERO).                                                   *)

JumpTypes == {"IS_ZERO", "IS_NONZERO"}
Flip(type) == IF type = "IS_ZERO" THEN "IS_NONZERO" ELSE "IS_ZERO"

(* Mutant: comparisons keep the type of a boolean. *)
IfTypeUnconverted(c, type) == type

IfTypeFor(c, type) ==
    LET onFalse == type = "IS_ZERO"
    IN  CASE c.op = "greater"        -> IF onFalse THEN "IS_INT_LESSER_OR_EQUAL" ELSE "IS_INT_GREATER"
          [] c.op = "greater_equals" -> IF onFalse THEN "IS_INT_LESSER" ELSE "IS_INT_GREATER_OR_EQUAL"
          [] c.op = "less"           -> IF onFalse THEN "IS_INT_GREATER_OR_EQUAL" ELSE "IS_INT_LESSER"
          [] c.op = "less_equals"    -> IF onFalse THEN "IS_INT_GREATER" ELSE "IS_INT_LESSER_OR_EQUAL"
          [] c.op = "equals"         -> IF onFalse THEN "ARE_INTS_NOT_EQUAL" ELSE "ARE_INTS_EQUAL"
          [] c.op = "not_equals"     -> IF onFalse THEN "ARE_INTS_EQUAL" ELSE "ARE_INTS_NOT_EQUAL"
          [] OTHER                   -> type

(* Mutant: a false left operand does not skip the right one. *)
AndJumpShort(type, blockSize, rightSize) ==
    IF type = "IS_NONZERO" THEN rightSize ELSE blockSize

(* Mutant: a true left operand does not skip the right one. *)
OrJumpNone(type, blockSize, rightSize) ==
    IF type = "IS_ZERO" THEN 0 ELSE blockSize

(* The left operand jumps when it decides the result: over the right one,  *)
(* and over the block too when that is where the result leads.             *)
AndJump(type, blockSize, rightSize) ==
    IF type = "IS_NONZERO" THEN rightSize ELSE blockSize + rightSize
OrJump(type, blockSize, rightSize) ==
    IF type = "IS_ZERO" THEN rightSize ELSE blockSize

ConditionBlockOf[c \in Conditions] ==
    [blockSize \in Nat |-> [type \in JumpTypes |->
        CASE c.op = "not" -> ConditionBlockOf[c.arg][blockSize][Flip(type)]
          [] c.op = "and" ->
                 LET right == ConditionBlockOf[c.right][blockSize][type]
                 IN  ConditionBlockOf[c.left][AndJump(type, blockSize, Size(right))]["IS_ZERO"] \o right
          [] c.op = "or" ->
                 LET right == ConditionBlockOf[c.right][blockSize][type]
                 IN  ConditionBlockOf[c.left][OrJump(type, blockSize, Size(right))]["IS_NONZERO"] \o right
          [] OTHER -> <<Load(c), If(IfTypeFor(c, type), c, blockSize)>>]]

(* The jumps with which some disjunction is built to jump on true. *)
OrOnTrue[c \in Conditions] ==
    {type \in JumpTypes :
        CASE c.op = "not" -> Flip(type) \in OrOnTrue[c.arg]
          [] c.op = "and" -> "IS_ZERO" \in OrOnTrue[c.left] \/ type \in OrOnTrue[c.right]
          [] c.op = "or"  -> \/ type = "IS_NONZERO"
                             \/ "IS_NONZERO" \in OrOnTrue[c.left] \/ type \in OrOnTrue[c.right]
          [] OTHER        -> FALSE}

-----------------------------------------------------------------------------
(* Statements: conditions and the sizes of the bodies; an if has one more  *)
(* body than conditions when it has an else.                               *)

ASSUME StatementAssumption ==
    \A s \in Statements :
        /\ s.conditions \in Seq(Conditions) /\ s.conditions # <<>>
        /\ s.bodies \in Seq(Nat \ {0})
        /\ \/ s.kind = "if" /\ Len(s.bodies) - Len(s.conditions) \in {0, 1}
           \/ s.kind = "while" /\ Len(s.conditions) = 1 /\ Len(s.bodies) = 1
           \/ s.kind = "value" /\ Len(s.conditions) = 1

HasNext(s, k) == k < Len(s.bodies)

(* What a false condition skips: the body and the goto that ends it. *)
BodyJump(s, k) == s.bodies[k] + (IF HasNext(s, k) THEN 3 ELSE 0)

(* emit_branch_ir: the goto keeps the offset of its own end until the      *)
(* chain's length is known.                                                *)
BranchBlock(s, k, position) ==
    LET block == ConditionBlockOf[s.conditions[k]][BodyJump(s, k)]["IS_ZERO"] \o <<Body(k, s.bodies[k])>>
    IN  IF HasNext(s, k) THEN block \o <<Goto(position + Size(block) + 3)>> ELSE block

Branches(s) ==
    LET upTo[k \in 0..Len(s.conditions)] ==
            IF k = 0 THEN <<>> ELSE upTo[k - 1] \o BranchBlock(s, k, Size(upTo[k - 1]))
    IN  upTo

Else(s) == LET k == Len(s.conditions) + 1
           IN  IF k > Len(s.bodies) THEN <<>> ELSE <<Body(k, s.bodies[k])>>

(* goto_instruction::set_target *)
Targeted(block, target) ==
    [i \in DOMAIN block |->
        IF block[i].do = "goto" THEN [block[i] EXCEPT !.jump = target - @] ELSE block[i]]

IfBlock(s) == LET block == Branches(s)[Len(s.conditions)] \o Else(s) IN Targeted(block, Size(block))

WhileGoto(conditionSize, bodySize) == Goto(-(conditionSize + bodySize + 3))
WhileBlock(s) ==
    LET condition == ConditionBlockOf[s.conditions[1]][s.bodies[1] + 3]["IS_ZERO"]
    IN  condition \o <<Body(1, s.bodies[1]), WhileGoto(Size(condition), s.bodies[1])>>

(* build_boolean_value_block *)
ValueBlock(s) ==
    LET whenTrue == <<Push(1), Goto(1)>>
    IN  ConditionBlockOf[s.conditions[1]][Size(whenTrue)]["IS_ZERO"] \o whenTrue \o <<Push(0)>>

BlockOf(s) ==
    CASE s.kind = "if"    -> IfBlock(s)
      [] s.kind = "while" -> WhileBlock(s)
      [] OTHER            -> ValueBlock(s)

-----------------------------------------------------------------------------
(* Running the code *)

Emitted(block) ==
    [at \in {Ends(block)[i - 1] : i \in DOMAIN block} |->
        block[CHOOSE i \in DOMAIN block : Ends(block)[i - 1] = at]]

Init ==
    /\ statement \in Statements
    /\ code = Emitted(BlockOf(statement)) /\ end = Size(BlockOf(statement))
    /\ values \in Values
    /\ pc = 0
    /\ tested = <<>> /\ entered = <<>> /\ held = <<>>

Ended == pc = end
Current == code[pc]
Doing(what) == pc \in DOMAIN code /\ Current.do = what

RunLoad ==
    /\ Doing("load")
    /\ pc' = pc + Current.size
    /\ UNCHANGED <<statement, code, end, values, tested, entered, held>>

RunIf ==
    /\ Doing("if")
    /\ pc' = IF values[Current.leaf] \in JumpsAt[Current.type]
               THEN pc + Offset(Current.jump)
               ELSE pc + Current.size
    /\ tested' = Append(tested, Current.leaf)
    /\ UNCHANGED <<statement, code, end, values, entered, held>>

(* The end of a loop starts another evaluation of its condition. *)
RunGoto ==
    /\ Doing("goto")
    /\ pc' = pc + Offset(Current.jump)
    /\ tested' = IF statement.kind = "while" THEN <<>> ELSE tested
    /\ UNCHANGED <<statement, code, end, values, entered, held>>

WorthIn(s, v) == [k \in DOMAIN s.conditions |-> Holds(s.conditions[k], v)]
Worth == WorthIn(statement, values)

(* The body of a loop may change the leaves; it is run Rounds times at most.*)
Rounds == 2
RunBody ==
    /\ Doing("body")
    /\ Len(entered) < Rounds
    /\ pc' = pc + Current.size
    /\ entered' = Append(entered, Current.branch)
    /\ held' = Worth
    /\ IF statement.kind = "while" THEN values' \in Values ELSE values' = values
    /\ UNCHANGED <<statement, code, end, tested>>

RunPush ==
    /\ Doing("push")
    /\ pc' = pc + Current.size
    /\ entered' = Append(entered, Current.value)
    /\ UNCHANGED <<statement, code, end, values, tested, held>>

Next == RunLoad \/ RunIf \/ RunGoto \/ RunBody \/ RunPush

Spec == Init /\ [][Next]_vars

-----------------------------------------------------------------------------
(* Properties *)

(* A jump leads to an instruction or to the end of the statement, never    *)
(* into the bytes of an instruction nor out of the statement.              *)
LandsOnInstruction == pc \in DOMAIN code \cup {end}

(* A body is entered only when its condition holds and those before it do  *)
(* not; an else only when none holds.                                      *)
BodyHasItsCondition ==
    statement.kind # "value" /\ entered # <<>> =>
        LET k == entered[Len(entered)]
        IN  /\ k \in DOMAIN held => held[k]
            /\ \A j \in 1..(k - 1) : ~held[j]

(* The conditions evaluate their leaves from left to right and skip those  *)
(* that cannot matter: method calls there have effects.                    *)
TestedUpTo(s, v) ==
    LET upTo[k \in 0..Len(s.conditions)] ==
            IF k = 0 THEN <<>>
            ELSE upTo[k - 1] \o (IF \E j \in 1..(k - 1) : WorthIn(s, v)[j] THEN <<>>
                                 ELSE TestedBy[s.conditions[k]][v])
    IN  upTo
ShortCircuits == Ended => tested = TestedUpTo(statement, values)[Len(statement.conditions)]

(* "When jumping on true, short-circuit true by jumping immediately to the *)
(* expression": an if whose condition holds enters its body.               *)
TrueReachesTheExpression ==
    statement.kind = "if" /\ Ended /\ Worth[1] => entered = <<1>>
=============================================================================
