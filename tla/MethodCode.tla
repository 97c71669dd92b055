------------------------------ MODULE MethodCode ------------------------------
(***************************************************************************)
(* From the statements of one accepted method to its Code attribute, and   *)
(* what the Java virtual machine makes of it: local variable slots         *)
(* (symbol.cpp), instructions (parser/ast and output/ir), the counted      *)
(* stack, the byte ranges of the scopes, the StackMapTable                 *)
(* (class_file_builder.cpp, stack_map_table_builder.cpp), and then the     *)
(* verifier, which walks the code once, from its first byte to its last.   *)
(*                                                                         *)
(* Types: "I" int and what is stored as one, "J" long, "F" float, "D"      *)
(* double, "S", "T" two classes, "AI", "AJ" arrays of int and long, "V"    *)
(* no value.  A value is a record of its kind k and its type ty; a scope   *)
(* is a record of its variables and its statements.                        *)
(***************************************************************************)
EXTENDS Integers, FiniteSets, SequencesExt

CONSTANTS Methods,   \* the methods a run compiles
          ByteSize   \* the number of values of the byte that holds a slot, 256

VARIABLES method,    \* the method being compiled
          phase,     \* what is done next
          locals,    \* its variables, in the order of their slots, with scope
          code,      \* its instructions and markers
          counted,   \* the stack counted by the builder after each of them
          ranges,    \* the bytes of every scope
          frames,    \* its StackMapTable
          next,      \* the instruction the verifier looks at
          frame,     \* what the verifier knows before it
          verdict    \* why the verifier rejects the method, or "none"

vars == <<method, phase, locals, code, counted, ranges, frames, next, frame, verdict>>
made == <<method, locals, code, counted, ranges, frames>>

Wide(ty)    == ty \in {"J", "D"}
WidthOf(ty) == CASE ty = "V" -> 0 [] Wide(ty) -> 2 [] OTHER -> 1
WidthsOf(types) == FoldSeq(LAMBDA ty, sum : sum + WidthOf(ty), 0, types)
Arrays      == {"AI", "AJ"}
(* instruction_type: everything that is not a number is a reference. *)
Category(ty) == IF ty \in {"I", "J", "F", "D"} THEN ty ELSE "R"
NoValue      == [k |-> "none", ty |-> "V"]

-----------------------------------------------------------------------------
(* Scopes and slots. *)

(* The scopes of a statement, in the order in which the parser makes them. *)
ScopesOf(s) ==
  CASE s.k = "if"    -> [i \in DOMAIN s.branches |-> s.branches[i].scope] \o s.otherwise
    [] s.k = "while" -> <<s.scope>>
    [] s.k = "for"   -> <<[vars |-> <<s.iterator>>, body |-> <<[k |-> "scope", scope |-> s.inner]>>]>>
    [] s.k = "scope" -> <<s.scope>>
    [] OTHER         -> <<>>

ScopesBefore(body, i) == FlattenSeq([j \in 1 .. i - 1 |-> ScopesOf(body[j])])
InnerScopes(scope)    == ScopesBefore(scope.body, Len(scope.body) + 1)
Here(path, body, i)   == path \o <<Len(ScopesBefore(body, i)) + 1>>

This == [name |-> "this", ty |-> "S"]
Super == [k |-> "super"]
Return(v) == [k |-> "return", value |-> v]
Starts(body, kind) == body # <<>> /\ Head(body).k = kind

Parameters(m) == (IF m.kind \in {"instance", "constructor"} THEN <<This>> ELSE <<>>) \o m.params

WithSuper(m)  == IF m.kind = "constructor" /\ ~Starts(m.body, "super") THEN <<Super>> \o m.body ELSE m.body
(* Only the first statement is looked at. *)
WithReturn(m, body) ==
  IF m.returns # "V" \/ Starts(body, "return") THEN body ELSE body \o <<Return(NoValue)>>

Root(m) == [vars |-> Parameters(m) \o m.vars, body |-> WithReturn(m, WithSuper(m))]

(* Every variable of a scope and of the scopes in it, with the path of its  *)
(* scope.                                                                   *)
RECURSIVE Collect(_, _)
Collect(scope, path) ==
  [i \in DOMAIN scope.vars |-> [name |-> scope.vars[i].name, ty |-> scope.vars[i].ty, path |-> path]]
  \o FlattenSeq([i \in DOMAIN InnerScopes(scope) |-> Collect(InnerScopes(scope)[i], path \o <<i>>)])

(* A parameter is added like any other variable of the outermost scope.     *)
(* An array is asked for the type of its elements: an array of longs gets   *)
(* two slots too.                                                           *)
GetsExtraSlot(ty) == ty \in {"J", "D", "AJ"}
(* Mutant: every variable takes one slot. *)
SlotsForOne(ty)   == 1
SlotsFor(ty)      == IF GetsExtraSlot(ty) THEN 2 ELSE 1

SlotAfter(vs, n) == FoldSeq(LAMBDA v, sum : sum + SlotsFor(v.ty), 0, SubSeq(vs, 1, n))
AddVariables(vs) == [i \in DOMAIN vs |->
                       [name |-> vs[i].name, ty |-> vs[i].ty, path |-> vs[i].path, slot |-> SlotAfter(vs, i - 1)]]
SlotsUsed   == SlotAfter(locals, Len(locals))
Local(name) == locals[CHOOSE i \in DOMAIN locals : locals[i].name = name]
HasInnerScopes == InnerScopes(Root(method)) # <<>>

-----------------------------------------------------------------------------
(* Instructions: their size in bytes, the change of the stack the builder   *)
(* counts, what they really pop (top first) and push, and the bytes that    *)
(* follow them when they jump.  A marker has no bytes.                      *)

Instruction(op, size, delta, pops, pushes) ==
  [op |-> op, size |-> size, delta |-> delta, pops |-> pops, pushes |-> pushes,
   name |-> "", slot |-> 0, jump |-> 0, scope |-> <<>>]

SizeOf(is)    == FoldSeq(LAMBDA i, sum : sum + i.size, 0, is)
Offset(is, i) == SizeOf(SubSeq(is, 1, i - 1))

AtSlot(i, v, slot) == [i EXCEPT !.name = v, !.slot = slot % ByteSize]
SlotSize(slot)     == IF slot % ByteSize <= 3 THEN 1 ELSE 2
Load(v, ty, slot)  == AtSlot(Instruction("load", SlotSize(slot), WidthOf(ty), <<>>, <<ty>>), v, slot)
(* A store is counted as if it pushed. *)
Store(v, ty, slot) == AtSlot(Instruction("store", SlotSize(slot), WidthOf(ty), <<ty>>, <<>>), v, slot)

LoadInt(n) == Instruction("int", CASE n \notin -32768 .. 32767 -> 2 [] n \in -1 .. 5 -> 1
                                   [] n \in -128 .. 127 -> 2 [] OTHER -> 3, 1, <<>>, <<"I">>)
LoadConstant(ty) == Instruction("ldc", IF Wide(ty) THEN 3 ELSE 2, WidthOf(ty), <<>>, <<ty>>)
Null     == Instruction("null", 1, 1, <<>>, <<"null">>)
Pop      == Instruction("pop", 1, 1, <<"any">>, <<>>)
Dup      == Instruction("dup", 1, 1, <<>>, <<>>)
New(ty)  == Instruction("new", 3, 1, <<>>, <<ty>>)
GetField(ty)  == Instruction("getfield", 3, 0, <<"S">>, <<ty>>)
GetStatic(ty) == Instruction("getstatic", 3, 1, <<>>, <<ty>>)
PutField(ty)  == Instruction("putfield", 3, -2, <<ty, "S">>, <<>>)
PutStatic(ty) == Instruction("putstatic", 3, -1, <<ty>>, <<>>)
ArrayOf(ty)   == IF ty = "J" THEN "AJ" ELSE "AI"
ArrayLoad(ty)   == Instruction("arrayload", 1, -1, <<"I", ArrayOf(ty)>>, <<ty>>)
ArrayStore(ty)  == Instruction("arraystore", 1, -3, <<ty, "I", ArrayOf(ty)>>, <<>>)
ArrayLength(ty) == Instruction("arraylength", 1, 0, <<ty>>, <<"I">>)
NewArray(ty, dims) ==
  CASE dims # 1       -> Instruction("multianewarray", 4, 1 - dims, [i \in 1 .. dims |-> "I"], <<"M">>)
    [] ty \in Arrays  -> Instruction("newarray", 2, 0, <<"I">>, <<ty>>)
    [] OTHER          -> Instruction("anewarray", 3, 0, <<"I">>, <<"M">>)
CheckCast(ty) == Instruction("checkcast", 3, 0, <<"any">>, <<ty>>)

(* The operand types of an operator; a shift takes an int on the right. *)
Operator(op, ty) ==
  Instruction(op, 1, IF op = "neg" THEN 0 ELSE -1,
              CASE op = "neg" -> <<ty>> [] op = "shift" -> <<"I", ty>> [] OTHER -> <<ty, ty>>, <<ty>>)

WideningDelta(from, to) ==
  CASE from = "J" /\ to = "F"        -> -1
    [] from = "I" /\ to = "F"        -> 0
    [] OTHER                         -> 1
Widening(from, to)  == Instruction("widen", 1, WideningDelta(from, to), <<from>>, <<to>>)
(* Every narrowing conversion of this model is one instruction. *)
Narrowing(from, to) == Instruction("narrow", 1, WidthOf(to) - WidthOf(from), <<from>>, <<to>>)

(* Only the number of the arguments is counted, not their widths. *)
Invoke(types)    == Instruction("invoke", 3, -Len(types), Reverse(types), <<>>)
InvokeInit(ty, types) == [Instruction("init", 3, -Len(types), Reverse(types), <<>>) EXCEPT !.name = ty]
(* stack_size_delta_marker: no bytes; the pushed value of the call before.  *)
Returned(ty) ==
  Instruction("marker", 0, IF GetsExtraSlot(ty) THEN 2 ELSE 1, <<>>, <<ty>>)
ReturnOf(ty) == Instruction("return", 1, IF ty = "V" THEN 0 ELSE -1, IF ty = "V" THEN <<>> ELSE <<ty>>, <<>>)
Goto(jump)      == [Instruction("goto", 3, 0, <<>>, <<>>) EXCEPT !.jump = jump]
(* The comparisons of two values take ints, whatever is compared. *)
If(two, jump)   == [Instruction("if", 3, IF two THEN -2 ELSE -1,
                                IF two THEN <<"I", "I">> ELSE <<"I">>, <<>>) EXCEPT !.jump = jump]
Marker(op, path) == [Instruction(op, 0, 0, <<>>, <<>>) EXCEPT !.scope = path]

Increment(v, slot, n) ==
  [AtSlot(Instruction("iinc", IF slot < ByteSize /\ n \in -128 .. 127 THEN 3 ELSE 6, 0, <<>>, <<>>),
          v, slot) EXCEPT !.slot = slot]

-----------------------------------------------------------------------------
(* Values.  A block is its instructions and is_consuming, which says        *)
(* whether a new object is wanted by what surrounds it.                      *)

Block            == [is |-> <<>>, consuming |-> FALSE]
Add(b, is)       == [b EXCEPT !.is = @ \o is]
Consuming(b, on) == [b EXCEPT !.consuming = on]

LoadVariable(v)  == Load(v.name, v.ty, Local(v.name).slot)
LoadThis(ty)     == Load("this", ty, 0)
Types(values)    == [i \in DOMAIN values |-> values[i].ty]

CastOf(v) ==
  LET from == v.value.ty IN
  CASE from = v.ty                                                      -> <<>>
    [] Category(from) = "R"                                             -> IF v.up THEN <<>> ELSE <<CheckCast(v.ty)>>
    [] <<from, v.ty>> \in {<<"I", "J">>, <<"I", "F">>, <<"I", "D">>, <<"J", "F">>, <<"J", "D">>, <<"F", "D">>}
                                                                        -> <<Widening(from, v.ty)>>
    [] OTHER                                                            -> <<Narrowing(from, v.ty)>>

RECURSIVE EmitValue(_, _)
EmitAll(values, b) == FoldLeft(LAMBDA block, v : EmitValue(v, block), b, values)

EmitCall(v, b) ==
  LET loaded == FoldLeft(LAMBDA block, a : EmitValue(a, Consuming(block, TRUE)), b, v.args)
  IN Add(Consuming(loaded, FALSE),
         <<Invoke(Types(v.args))>> \o (IF v.ty = "V" THEN <<>> ELSE <<Returned(v.ty)>>))

EmitNew(v, b) ==
  LET made_ == EmitAll(v.args, Add(b, <<New(v.ty), Dup>>))
  IN Add(made_, <<InvokeInit(v.ty, Types(v.args))>> \o (IF made_.consuming THEN <<>> ELSE <<Pop>>))

EmitVariable(v) ==
  IF v.k = "variable" THEN <<LoadVariable(v)>>
  ELSE IF v.static THEN <<GetStatic(v.ty)>> ELSE <<LoadThis("S"), GetField(v.ty)>>
EmitConstant(v)    == IF v.k = "int" THEN <<LoadInt(v.n)>> ELSE <<LoadConstant(v.ty)>>
EmitElement(v, b)  == Add(EmitAll(<<v.array, v.index>>, b), <<ArrayLoad(v.ty)>>)
EmitLength(v, b)   == Add(EmitValue(v.array, b), <<ArrayLength(v.array.ty)>>)
EmitNewArray(v, b) == Add(EmitAll(v.dims, b), <<NewArray(v.ty, Len(v.dims))>>)
EmitCast(v, b)     == Add(EmitValue(v.value, b), CastOf(v))
EmitInvert(v, b)   ==
  Add(EmitValue(v.value, b),
      <<LoadInt(-1)>> \o (IF v.ty = "J" THEN <<Widening("I", "J")>> ELSE <<>>) \o <<Operator("xor", v.ty)>>)
(* A boolean operator used as a value emits its operands and nothing more. *)
EmitOperator(v, b) ==
  CASE v.k = "not"      -> EmitValue(v.value, b)
    [] v.k = "compare"  -> EmitAll(<<v.left, v.right>>, b)
    [] v.k = "operator" -> Add(EmitAll(v.operands, b), <<Operator(v.op, v.ty)>>)

EmitValue(v, b) ==
  CASE v.k \in {"int", "constant"}            -> Add(b, EmitConstant(v))
    [] v.k = "null"                           -> Add(b, <<Null>>)
    [] v.k \in {"variable", "field"}          -> Add(b, EmitVariable(v))
    [] v.k = "element"                        -> EmitElement(v, b)
    [] v.k = "length"                         -> EmitLength(v, b)
    [] v.k = "newarray"                       -> EmitNewArray(v, b)
    [] v.k = "call"                           -> EmitCall(v, b)
    [] v.k = "new"                            -> EmitNew(v, b)
    [] v.k \in {"not", "compare", "operator"} -> EmitOperator(v, b)
    [] v.k = "invert"                         -> EmitInvert(v, b)
    [] v.k = "cast"                           -> EmitCast(v, b)

(* The condition of a branch that jumps over size bytes when it is false;   *)
(* "and" and "or" are the business of ConditionBlock.                        *)
Condition(v, size) ==
  EmitValue(v, Block).is \o <<If(v.k = "compare", size)>>

-----------------------------------------------------------------------------
(* Statements. *)

(* variable = variable op value, in one instruction when it can be; pooled   *)
(* says whether a constant beyond 16 bits was put in the constant pool.      *)
Assigned(v, op, value, pooled) ==
  LET slot    == Local(v.name).slot
      by      == IF op = "sub" THEN -value.n ELSE value.n
      generic == <<Load(v.name, v.ty, slot)>> \o EmitValue(value, Block).is
                 \o <<Operator(op, v.ty), Store(v.name, v.ty, slot)>>
      constant == IF pooled THEN LoadInt(by) ELSE [LoadInt(by) EXCEPT !.op = "throw"]
      added   == <<Load(v.name, "I", slot), constant, Operator("add", "I"), Store(v.name, "I", slot)>>
  IN IF value.k # "int" \/ op \notin {"add", "sub"} THEN generic
     ELSE IF by \in -32768 .. 32767 THEN <<Increment(v.name, slot, by)>> ELSE added

EmitAssign(s, b) ==
  LET v == Local(s.name)
  IN Consuming(IF s.op = "assign"
               THEN Add(EmitValue(s.value, Consuming(b, TRUE)), <<Store(s.name, v.ty, v.slot)>>)
               ELSE Add(b, Assigned(v, s.op, s.value, TRUE)), FALSE)

(* Mutant: no object for the field of an instance. *)
EmitAssignFieldBare(s, b) ==
  Add(Consuming(EmitValue(s.value, Consuming(b, TRUE)), FALSE),
      <<IF s.static THEN PutStatic(s.ty) ELSE PutField(s.ty)>>)
(* The operator of the assignment is not looked at. *)
EmitAssignField(s, b) ==
  LET target == IF s.static THEN b ELSE Add(b, <<LoadThis("S")>>)
      value  == EmitValue(s.value, Consuming(target, TRUE))
  IN Add(Consuming(value, FALSE), <<IF s.static THEN PutStatic(s.ty) ELSE PutField(s.ty)>>)

EmitAssignElement(s, b) ==
  LET target == EmitAll(<<s.array, s.index>>, b)
      value  == EmitValue(s.value, Consuming(target, TRUE))
  IN Add(Consuming(value, FALSE), <<ArrayStore(s.ty)>>)

EmitReturn(s, b) ==
  LET value == IF s.value.k = "none" THEN b ELSE EmitValue(s.value, b)
  IN Add(value, <<ReturnOf(s.value.ty)>>)

RECURSIVE EmitScope(_, _, _)
(* The goto at the end of a branch skips the branches after it. *)
EmitIf(s, path, first) ==
  LET n      == Len(s.branches)
      more(i) == i < n \/ s.otherwise # <<>>
      body(i) == EmitScope(s.branches[i].scope, path \o <<first + i - 1>>, Block).is
      size(i) == SizeOf(body(i)) + (IF more(i) THEN 3 ELSE 0)
      test(i) == Condition(s.branches[i].cond, size(i))
      last    == IF s.otherwise = <<>> THEN <<>>
                 ELSE EmitScope(s.otherwise[1], path \o <<first + n>>, Block).is
      branch[i \in 1 .. n + 1] ==
        IF i = n + 1 THEN last
        ELSE test(i) \o body(i) \o (IF more(i) THEN <<Goto(SizeOf(branch[i + 1]))>> ELSE <<>>) \o branch[i + 1]
  IN branch[1]

(* Mutant: the jump back forgets its own bytes. *)
EmitWhileShort(s, path) ==
  LET body == EmitScope(s.scope, path, Block).is
      test == Condition(s.cond, SizeOf(body) + 3)
  IN test \o body \o <<Goto(-(SizeOf(test) + SizeOf(body)))>>

EmitWhile(s, path) ==
  LET body == EmitScope(s.scope, path, Block).is
      test == Condition(s.cond, SizeOf(body) + 3)
  IN test \o body \o <<Goto(-(SizeOf(test) + SizeOf(body) + 3))>>

(* The pool is asked for the range itself, never for its skip. *)
EmitFor(s, path) ==
  LET v    == Local(s.iterator.name)
      init == EmitValue(s.from, Block).is \o <<Store(v.name, v.ty, v.slot)>>
      body == EmitScope(s.inner, path \o <<1>>, Block).is \o Assigned(v, "add", s.skip, FALSE)
      test == <<Load(v.name, v.ty, v.slot)>> \o EmitValue(s.to, Block).is \o <<If(TRUE, SizeOf(body) + 3)>>
  IN <<Marker("begin", path)>> \o init \o test \o body
     \o <<Goto(-(SizeOf(test) + SizeOf(body) + 3)), Marker("end", path)>>

(* The receiver is not counted. *)
EmitSuper == <<LoadThis("S"), [Invoke(<<"S">>) EXCEPT !.delta = 0]>>

EmitStatement(s, path, first, b) ==
  CASE s.k = "assign"  -> EmitAssign(s, b)
    [] s.k = "field"   -> EmitAssignField(s, b)
    [] s.k = "element" -> EmitAssignElement(s, b)
    [] s.k = "value"   -> EmitValue(s.value, b)
    [] s.k = "return"  -> EmitReturn(s, b)
    [] s.k = "super"   -> Add(b, EmitSuper)
    [] s.k = "if"      -> Add(b, EmitIf(s, path, first))
    [] s.k = "while"   -> Add(b, EmitWhile(s, path \o <<first>>))
    [] s.k = "for"     -> Add(b, EmitFor(s, path \o <<first>>))

(* Only an inner scope has markers. *)
EmitScope(scope, path, b) ==
  LET begun == IF path = <<>> THEN b ELSE Add(b, <<Marker("begin", path)>>)
      step(block, i) == EmitStatement(scope.body[i], path, Len(ScopesBefore(scope.body, i)) + 1, block)
      done  == FoldLeft(step, begun, [i \in DOMAIN scope.body |-> i])
  IN IF path = <<>> THEN done ELSE Add(done, <<Marker("end", path)>>)

(* The static initializer: the fields with a value, in their order. *)
EmitClassInit(m) == Add(FoldLeft(LAMBDA b, s : EmitAssignField(s, b), Block, m.body), <<ReturnOf("V")>>)

RunningSums(is) ==
  [i \in DOMAIN is |-> FoldSeq(LAMBDA j, sum : sum + j.delta, 0, SubSeq(is, 1, i))]
MaxStack == Max({0} \cup ToSet(counted))

-----------------------------------------------------------------------------
(* The builder. *)

Init ==
  /\ method \in Methods
  /\ phase = "prepared"
  /\ locals = <<>> /\ code = <<>> /\ counted = <<>> /\ ranges = <<>> /\ frames = <<>>
  /\ next = 0
  /\ frame = [live |-> FALSE, locals |-> <<>>, stack |-> <<>>]
  /\ verdict = "none"

CollectLocals ==
  /\ phase = "prepared"
  /\ locals' = AddVariables(Collect(Root(method), <<>>))
  /\ phase' = "collected"
  /\ UNCHANGED <<method, code, counted, ranges, frames, next, frame, verdict>>

(* Throws, and ends the compiler, when the counted stack underflows or a    *)
(* constant has no place in the pool.                                        *)
EmitMethodBytecode ==
  /\ phase = "collected"
  /\ code' = (IF method.kind = "clinit" THEN EmitClassInit(method) ELSE EmitScope(Root(method), <<>>, Block)).is
  /\ counted' = RunningSums(code')
  /\ phase' = IF \E i \in DOMAIN code' : counted'[i] < 0 \/ code'[i].op = "throw"
               THEN "crashed" ELSE "emitted"
  /\ UNCHANGED <<method, locals, ranges, frames, next, frame, verdict>>

Paths == {locals[i].path : i \in DOMAIN locals} \cup {code[i].scope : i \in DOMAIN code}
OffsetOfMarker(op, path) == Offset(code, CHOOSE i \in DOMAIN code : code[i].op = op /\ code[i].scope = path)
CreateScopeBoundaries ==
  [path \in Paths |-> IF path = <<>> THEN [start |-> 0, end |-> SizeOf(code)]
                      ELSE [start |-> OffsetOfMarker("begin", path), end |-> OffsetOfMarker("end", path)]]

ComputeRanges ==
  /\ phase = "emitted"
  /\ ranges' = CreateScopeBoundaries
  /\ phase' = "ranged"
  /\ UNCHANGED <<method, locals, code, counted, frames, next, frame, verdict>>

-----------------------------------------------------------------------------
(* The StackMapTable. *)

(* Mutant: conditional jumps are forgotten. *)
JumpTargetsOfGotos == {Offset(code, i + 1) + code[i].jump : i \in {j \in DOMAIN code : code[j].op = "goto"}}
JumpTargets == {Offset(code, i + 1) + code[i].jump : i \in {j \in DOMAIN code : code[j].op \in {"goto", "if"}}}

Top == [ty |-> "top", name |-> ""]
Entry(v) == [ty |-> v.ty, name |-> v.name]
Tag(e)   == IF e.ty = "top" \/ Category(e.ty) # "R" THEN e.ty ELSE "object"
Tags(es) == [i \in DOMAIN es |-> Tag(es[i])]

(* Mutant: also where its scope ends. *)
IsActiveAtEnd(v, at) == at > ranges[v.path].start /\ at <= ranges[v.path].end

(* A variable is in the frames of its whole scope, but for its first byte;  *)
(* a parameter has a producing node too, whose scope begins at byte 0.       *)
IsActive(v, at) == at > ranges[v.path].start /\ at < ranges[v.path].end
TrimTops(es) == LET used == {i \in DOMAIN es : es[i] # Top} IN SubSeq(es, 1, Max({0} \cup used))

(* One entry per slot: the second slot of a long is a top of its own. *)
LocalVerificationsAt(at) ==
  TrimTops([i \in 1 .. SlotsUsed |->
              LET here == {v \in ToSet(locals) : v.slot = i - 1 /\ IsActive(v, at)}
              IN IF here = {} THEN Top ELSE Entry(CHOOSE v \in here : TRUE)])

InitialLocals == [i \in DOMAIN Parameters(method) |-> Entry(Parameters(method)[i])]

(* Frames are compared by the tags of their entries. *)
BuildStackFrame(at, old, new) ==
  LET n == Len(old)
      k == Len(new)
      agree(j) == SubSeq(Tags(old), 1, j) = SubSeq(Tags(new), 1, j)
  IN CASE n = k /\ agree(n)              -> [at |-> at, kind |-> "same", chop |-> 0, entries |-> <<>>]
       [] k > n /\ k <= n + 3 /\ agree(n) -> [at |-> at, kind |-> "append", chop |-> 0, entries |-> SubSeq(new, n + 1, k)]
       [] k < n /\ n <= k + 3 /\ agree(k) -> [at |-> at, kind |-> "chop", chop |-> n - k, entries |-> <<>>]
       [] OTHER                          -> [at |-> at, kind |-> "full", chop |-> 0, entries |-> new]

BuildFrames ==
  LET targets == SetToSortSeq(JumpTargets, <)
      before(i) == IF i = 1 THEN InitialLocals ELSE LocalVerificationsAt(targets[i - 1])
  IN /\ phase = "ranged"
     /\ frames' = IF method.kind # "clinit" /\ HasInnerScopes
                  THEN [i \in DOMAIN targets |->
                          BuildStackFrame(targets[i], before(i), LocalVerificationsAt(targets[i]))]
                  ELSE <<>>
     /\ phase' = "built"
     /\ UNCHANGED <<method, locals, code, counted, ranges, next, frame, verdict>>

-----------------------------------------------------------------------------
(* The verifier of the virtual machine (external): the locals are slots,    *)
(* each long or double takes two, and a frame is read from the one before.  *)

Spread(es) == FlattenSeq([i \in DOMAIN es |-> IF Wide(es[i].ty) THEN <<es[i], Top>> ELSE <<es[i]>>])
Slots(es)  == [i \in 1 .. SlotsUsed |-> IF i <= Len(Spread(es)) THEN Spread(es)[i] ELSE Top]

(* The entries after each frame. *)
Decoded[i \in 0 .. Len(frames)] ==
  IF i = 0 THEN InitialLocals
  ELSE LET f == frames[i]
           old == Decoded[i - 1]
       IN CASE f.kind = "same"   -> old
            [] f.kind = "append" -> old \o f.entries
            [] f.kind = "chop"   -> SubSeq(old, 1, Len(old) - f.chop)
            [] f.kind = "full"   -> f.entries

FramesAt(at)  == {i \in DOMAIN frames : frames[i].at = at}
FrameAt(at)   == Decoded[CHOOSE i \in DOMAIN frames : frames[i].at = at]
Fits(es)      == Len(Spread(es)) <= SlotsUsed
Depth(stack)  == WidthsOf(stack)
Assignable(a, ty) == a = ty \/ ty = "any" \/ (a = "null" /\ Category(ty) = "R")

(* What is known fits what the frame declares; its stack is always empty. *)
Matches(f, at) ==
  /\ Fits(FrameAt(at))
  /\ f.stack = <<>>
  /\ \A i \in 1 .. SlotsUsed : \/ Slots(FrameAt(at))[i].ty = "top"
                               \/ f.locals[i].ty = Slots(FrameAt(at))[i].ty

Verify ==
  /\ phase = "built"
  /\ next' = 1
  /\ frame' = [live |-> TRUE, stack |-> <<>>, locals |-> Slots(InitialLocals)]
  /\ phase' = "verifying"
  /\ UNCHANGED <<made, verdict>>

Current == code[next]
At      == Offset(code, next)
After   == Offset(code, next + 1)

Reject(why) ==
  /\ verdict' = why
  /\ phase' = "done"
  /\ UNCHANGED <<made, next, frame>>

(* A declared frame replaces what is known; after a jump there must be one. *)
MeetFrame ==
  /\ phase = "verifying" /\ next <= Len(code)
  /\ Current.size > 0
  /\ IF FramesAt(At) = {} THEN ~frame.live /\ Reject("dead code")
     ELSE IF frame.live /\ ~Matches(frame, At) THEN Reject("frame")
     ELSE LET met == [live |-> TRUE, stack |-> <<>>, locals |-> Slots(FrameAt(At))]
          IN frame # met /\ frame' = met /\ UNCHANGED <<made, phase, next, verdict>>

(* The frame holds where the instruction starts. *)
Met == \/ Current.size = 0
       \/ FramesAt(At) = {} /\ frame.live
       \/ FramesAt(At) # {} /\ frame = [live |-> TRUE, stack |-> <<>>, locals |-> Slots(FrameAt(At))]

Fresh(ty) == ty \o "?"
Popped    == SubSeq(frame.stack, 1, Len(frame.stack) - Len(Current.pops))
Poppable  == /\ Len(frame.stack) >= Len(Current.pops)
             /\ \A i \in DOMAIN Current.pops :
                  Assignable(frame.stack[Len(frame.stack) + 1 - i], Current.pops[i])
(* The constructor takes the new object below its arguments. *)
Initable  == Len(Popped) > 0 /\ Last(Popped) = Fresh(Current.name)
(* Its other copies become initialised with it. *)
Inited    == [i \in DOMAIN Front(Popped) |-> IF Popped[i] = Fresh(Current.name) THEN Current.name ELSE Popped[i]]

Stack ==
  CASE Current.op = "new"    -> frame.stack \o <<Fresh(Current.pushes[1])>>
    [] Current.op = "dup"    -> frame.stack \o <<Last(frame.stack)>>
    [] Current.op = "init"   -> Inited
    [] OTHER                 -> Popped \o Current.pushes

Slot        == frame.locals[Current.slot + 1]
WithStore   ==
  [i \in DOMAIN frame.locals |->
     IF i = Current.slot + 1 THEN [ty |-> Current.pops[1], name |-> Current.name]
     ELSE IF i = Current.slot + 2 /\ Wide(Current.pops[1]) THEN Top
     ELSE IF i = Current.slot /\ Wide(frame.locals[i].ty) THEN Top
     ELSE frame.locals[i]]

Jumps     == Current.op \in {"goto", "if"}
Target    == After + Current.jump
Known     == [live |-> TRUE, stack |-> Stack, locals |-> frame.locals]

LocalFault ==
  CASE Current.op = "load"  -> Current.slot >= SlotsUsed \/ Slot.ty # Current.pushes[1]
    [] Current.op = "iinc"  -> Current.slot >= SlotsUsed \/ Slot.ty # "I"
    [] Current.op = "store" -> Current.slot + WidthsOf(Current.pops) > SlotsUsed
    [] OTHER                -> FALSE

(* The first fault of the instruction, in the order the verifier looks. *)
Fault ==
  CASE LocalFault                                 -> "local"
    [] ~Poppable \/ (Current.op = "init" /\ ~Initable) -> "stack"
    [] Depth(Stack) > MaxStack                     -> "max stack"
    [] Jumps /\ FramesAt(Target) = {}              -> "target"
    [] Jumps /\ ~Matches(Known, Target)            -> "frame"
    [] OTHER                                       -> "none"

Step ==
  /\ phase = "verifying" /\ next <= Len(code)
  /\ Met
  /\ IF ~frame.live THEN next' = next + 1 /\ UNCHANGED <<made, phase, frame, verdict>>
     ELSE IF Fault # "none" THEN Reject(Fault)
     ELSE /\ frame' = [live |-> Current.op \notin {"goto", "return"},
                       stack |-> Stack,
                       locals |-> IF Current.op = "store" THEN WithStore ELSE frame.locals]
          /\ next' = next + 1
          /\ UNCHANGED <<made, phase, verdict>>

Finish ==
  /\ phase = "verifying" /\ next = Len(code) + 1
  /\ IF frame.live \/ FramesAt(At) # {} THEN Reject("end") ELSE Reject("none")

Stop == phase \in {"done", "crashed"} /\ UNCHANGED vars

Next == \/ CollectLocals \/ EmitMethodBytecode \/ ComputeRanges \/ BuildFrames
        \/ Verify \/ MeetFrame \/ Step \/ Finish \/ Stop

Spec == Init /\ [][Next]_vars

-----------------------------------------------------------------------------
(* What the properties speak of. *)

Verifying == phase = "verifying"
Emitted   == phase \notin {"prepared", "collected", "crashed"}

Starting(at) == \E i \in DOMAIN code : code[i].size > 0 /\ Offset(code, i) = at

ReadsWide(i) == code[i].op \in {"getfield", "getstatic", "arrayload"} /\ Wide(code[i].pushes[1])
WideReads(n) == Cardinality({i \in 1 .. n : ReadsWide(i)})

RECURSIVE Statements(_)
Statements(scope) ==
  ToSet(scope.body) \cup UNION {Statements(inner) : inner \in ToSet(InnerScopes(scope))}
AllStatements == Statements(Root(method))

(* The conditions, and the values not at once a condition. *)
ConditionsOf(s) == CASE s.k = "if"    -> {s.branches[i].cond : i \in DOMAIN s.branches}
                     [] s.k = "while" -> {s.cond}
                     [] OTHER         -> {}
RECURSIVE Within(_)
Children(v) ==
  CASE v.k \in {"call", "new"}                -> ToSet(v.args)
    [] v.k = "operator"                       -> ToSet(v.operands)
    [] v.k = "newarray"                       -> ToSet(v.dims)
    [] v.k \in {"not", "cast", "invert"}      -> {v.value}
    [] v.k = "length"                         -> {v.array}
    [] v.k = "element"                        -> {v.array, v.index}
    [] v.k = "compare"                        -> {v.left, v.right}
    [] OTHER                                  -> {}
Within(v) == {v} \cup UNION {Within(c) : c \in Children(v)}
ValuesOf(s) ==
  CASE s.k \in {"assign", "field", "value", "return"} -> Within(s.value)
    [] s.k = "element"                                -> Within(s.value) \cup Within(s.array) \cup Within(s.index)
    [] s.k = "for"                                    -> Within(s.from) \cup Within(s.to) \cup Within(s.skip)
    [] OTHER                                          -> UNION {UNION {Within(v) : v \in Children(c)} : c \in ConditionsOf(s)}
AllValues     == UNION {ValuesOf(s) : s \in AllStatements}
AllConditions == UNION {ConditionsOf(s) : s \in AllStatements}

(* A boolean operator whose value is wanted. *)
BooleanValue == \E v \in AllValues : v.k = "compare"
(* A statement that is a value and is not used up. *)
LeavesValue  == \E s \in AllStatements : s.k = "value" /\ s.value.k # "new" /\ s.value.ty # "V"
(* More objects are dropped than are statements of their own. *)
DropsOperand ==
  Cardinality({i \in DOMAIN code : code[i].op = "pop"}) >
  Cardinality({s \in AllStatements : s.k = "value" /\ s.value.k = "new"})
(* Two values that are no ints are compared, a long is shifted by a long, a *)
(* long is assigned to an int.                                               *)
Mistyped ==
  \/ \E v \in AllConditions : v.k = "compare" /\ v.left.ty # "I"
  \/ \E v \in AllValues : v.k = "operator" /\ v.op = "shift" /\ v.operands[2].ty = "J"
  \/ \E s \in AllStatements : s.k = "assign" /\ s.value.ty \notin {Local(s.name).ty, "null"}

IsParameter(v) == v.path = <<>> /\ \E p \in ToSet(Parameters(method)) : p.name = v.name
(* The loop is the first statement: the frame it jumps back to is at byte 0, *)
(* where no parameter is listed.                                             *)
ParametersLost == 0 \in JumpTargets /\ Parameters(method) # <<>>
(* A frame lists a variable no instruction before it has stored. *)
UnstoredInFrame ==
  \E at \in JumpTargets : \E v \in ToSet(locals) :
     /\ ~IsParameter(v) /\ IsActive(v, at)
     /\ \A i \in DOMAIN code : code[i].op = "store" /\ code[i].name = v.name => Offset(code, i) >= at
WideBefore == \E v, w \in ToSet(locals) : GetsExtraSlot(v.ty) /\ v.slot < w.slot
WideArrayParameter == \E v, w \in ToSet(locals) : IsParameter(v) /\ IsParameter(w) /\ v.ty = "AJ" /\ v.slot < w.slot
SlotTooFar == SlotsUsed > ByteSize

(* Code follows a return and nothing jumps to it. *)
RECURSIVE ReturnsEarly(_, _)
ReturnsEarly(scope, followed) ==
  \E i \in DOMAIN scope.body :
    LET s == scope.body[i]
        n == IF s.k = "if" THEN Len(s.branches) ELSE 0
    IN \/ s.k = "return" /\ (i < Len(scope.body) \/ followed)
       \/ s.k = "if" /\ (\/ \E j \in 1 .. n : ReturnsEarly(s.branches[j].scope, j < n \/ s.otherwise # <<>>)
                          \/ \E e \in ToSet(s.otherwise) : ReturnsEarly(e, FALSE))
       \/ s.k = "while" /\ ReturnsEarly(s.scope, TRUE)
       \/ s.k = "for" /\ ReturnsEarly(s.inner, TRUE)

-----------------------------------------------------------------------------
(* Properties *)

(* Every variable of the model keeps its type; what the builder counts of   *)
(* the stack, and writes in two bytes, is not negative.                      *)
TypeOK ==
  /\ phase \in {"prepared", "collected", "emitted", "crashed", "ranged", "built", "verifying", "done"}
  /\ verdict \in {"none", "dead code", "frame", "local", "stack", "max stack", "target", "end"}
  /\ next \in 0 .. Len(code) + 1 /\ Len(counted) = Len(code)
  /\ phase # "crashed" => \A i \in DOMAIN counted : counted[i] \in Nat
  /\ \A i \in DOMAIN code : code[i].size \in 0 .. 6 /\ code[i].slot \in Nat
  /\ verdict # "none" => phase = "done"

(* The offsets, computed from size() of parts emitted on their own, are those *)
(* of the finished code: every jump lands where an instruction starts, or     *)
(* at the end of a method that has a value to return, and every scope is     *)
(* inside the scope around it.                                                *)
JumpsLand ==
  Emitted =>
    /\ \A at \in JumpTargets : Starting(at) \/ (at = SizeOf(code) /\ method.returns # "V")
    /\ \A path \in DOMAIN ranges : path # <<>> =>
         /\ ranges[path].start <= ranges[path].end
         /\ Front(path) \in DOMAIN ranges =>
              /\ ranges[Front(path)].start <= ranges[path].start
              /\ ranges[path].end <= ranges[Front(path)].end

(* The counted stack is at least the real one, but for one slot for every     *)
(* long or double read from a field or an array; only such a read can make    *)
(* max_stack too small, or the builder throw its stack underflow.  The other  *)
(* throw is for the skip of a for that does not fit 16 bits.  And an          *)
(* instruction never finds too little on the stack, or something of another   *)
(* type, unless a new object was dropped that an operand needed, a boolean    *)
(* operator was used as a value, or the statement was accepted with the wrong *)
(* types.                                                                     *)
StackSound ==
  /\ Verifying => Depth(frame.stack) <= (IF next = 1 THEN 0 ELSE counted[next - 1]) + WideReads(next - 1)
  /\ verdict = "max stack" => WideReads(next) > 0
  /\ phase = "crashed" => \/ \E i \in DOMAIN code : counted[i] < 0 /\ WideReads(i) > 0
                          \/ \E s \in AllStatements : s.k = "for" /\ s.skip.k = "int" /\ s.skip.n \notin -32768 .. 32767
  /\ verdict = "stack" => DropsOperand \/ BooleanValue \/ Mistyped

(* Every jump finds a frame where it lands, code nothing falls into has a     *)
(* frame too, unless it only follows a return, and a method that returns no   *)
(* value never runs off its end, nor jumps there.                             *)
EveryTargetHasAFrame ==
  /\ verdict # "target"
  /\ verdict = "end" => method.returns # "V"
  /\ verdict = "dead code" => ReturnsEarly(Root(method), FALSE)

(* A frame says what is true wherever it is reached, unless it lists a        *)
(* variable before its declaration, a variable lies after a long or double,   *)
(* a value was left on the stack, or a loop at the first byte lost the        *)
(* parameters that the frames after it list again.                            *)
FramesTrue ==
  verdict = "frame" => UnstoredInFrame \/ WideBefore \/ LeavesValue \/ BooleanValue \/ ParametersLost

(* An instruction reads the variable its statement names: no two variables   *)
(* share a slot, and the parameters are where the caller puts them, unless an *)
(* array of longs precedes one, a slot does not fit its byte, a frame shifted *)
(* what follows a long, or the frame at byte 0 lost the parameters.           *)
ReadsItsVariable ==
  LET shifted == WideArrayParameter \/ SlotTooFar \/ (WideBefore /\ frames # <<>>) \/ ParametersLost
  IN /\ verdict = "local" => shifted
     /\ Verifying /\ next <= Len(code) /\ frame.live =>
          (Current.op \in {"load", "iinc"} /\ Current.slot < SlotsUsed /\ Met => Slot.name = Current.name \/ shifted)

=============================================================================
