--------------------------- MODULE ConstantPool ---------------------------
(***************************************************************************)
(* The constant pool of one class file, from the type declaration it is    *)
(* built from (output/jvm_target/constant_pool.cpp, the emit_constants     *)
(* and emit_ir methods of the AST nodes and class_file_builder.cpp).       *)
(*                                                                         *)
(* The tree is walked twice.  The first walk, emit_constants, puts the     *)
(* constants into the pool and lets some nodes remember the index of       *)
(* theirs; the second walk, emit_ir, looks the constants up again, or uses *)
(* the indices the nodes remember.  The two walks are written apart, node  *)
(* by node, and nothing makes them visit the same nodes.                   *)
(*                                                                         *)
(* A walk is a list of tasks, the first of which is done next; visiting a  *)
(* node replaces it by what the node's method does, in its order.          *)
(***************************************************************************)
EXTENDS Integers, Sequences, FiniteSets

CONSTANTS Types,        \* the type declarations to build class files from
          IndexSpan,    \* the number of values two bytes hold
          LdcSpan,      \* the number of values one byte holds, the operand of LDC
          MaxCount,     \* the largest constant_pool_count accepted
          Garbage,      \* what reading an empty optional may give
          NodesOf(_)    \* the nodes of the tree of a declaration

ASSUME SpanAssumption == IndexSpan \in Nat /\ LdcSpan \in Nat \ {0} /\ MaxCount \in Nat
                         /\ Garbage \subseteq Nat
ASSUME LimitAssumption == MaxCount < IndexSpan

VARIABLES phase,    \* "emit", "build", "done", "fatal" or "threw"
          tasks,    \* what is left of the current walk
          type,     \* the declaration the class file is built from
          pool,     \* the indices given to entries, and the next one
          cpi,      \* the index each node remembers, for the nodes that do
          loads     \* the operands written into the code

vars == <<phase, tasks, type, pool, cpi, loads>>

-----------------------------------------------------------------------------
(* Entries and the pool *)

(* An entry as the class file holds it: a text or number, or the indices   *)
(* of other entries in two bytes each.                                     *)
Text(tag, t) == [tag |-> tag, text |-> t, refs |-> <<>>]
Refs(tag, is) ==
    [tag |-> tag, text |-> "", refs |-> [k \in DOMAIN is |-> is[k] % IndexSpan]]

(* Long and Double entries take two slots. *)
Slots(e) == IF e.tag = "Double" THEN 2 ELSE 1

EmptyPool == [slot |-> [e \in {} |-> 0], index |-> 1]

(* Mutant: every entry takes one slot. *)
AddOneSlot(p, e) ==
    IF e \in DOMAIN p.slot
      THEN p
      ELSE [slot  |-> [f \in DOMAIN p.slot \cup {e} |-> IF f = e THEN p.index ELSE p.slot[f]],
            index |-> p.index + 1]

(* Get or create: an entry that is there keeps its index. *)
Add(p, e) ==
    IF e \in DOMAIN p.slot
      THEN p
      ELSE [slot  |-> [f \in DOMAIN p.slot \cup {e} |-> IF f = e THEN p.index ELSE p.slot[f]],
            index |-> p.index + Slots(e)]

(* A constant is what a node asks for: a tag and the texts it is made of.  *)
Constant(tag, of) == [tag |-> tag, of |-> of]
Utf8(t) == Constant("Utf8", <<t>>)
Class(t) == Constant("Class", <<t>>)
Methodref(c, n, d) == Constant("Methodref", <<c, n, d>>)
Fieldref(c, n, d) == Constant("Fieldref", <<c, n, d>>)

Named == {"Class", "String"}
Members == {"Methodref", "Fieldref"}

(* The entries of the parts of a constant in pool p. *)
TextOf(t) == Text("Utf8", t)
NamedOf(p, tag, t) == Refs(tag, <<p.slot[TextOf(t)]>>)
NameAndTypeOf(p, n, d) == Refs("NameAndType", <<p.slot[TextOf(n)], p.slot[TextOf(d)]>>)
MemberOf(p, tag, c, n, d) ==
    Refs(tag, <<p.slot[NamedOf(p, "Class", c)], p.slot[NameAndTypeOf(p, n, d)]>>)

AddNamed(p, tag, t) ==
    LET q == Add(p, TextOf(t)) IN Add(q, NamedOf(q, tag, t))

(* C++ leaves the order in which two arguments are evaluated open.         *)
AddNameAndType(p, n, d, ltr) ==
    LET q == IF ltr THEN Add(Add(p, TextOf(n)), TextOf(d))
                    ELSE Add(Add(p, TextOf(d)), TextOf(n))
    IN  Add(q, NameAndTypeOf(q, n, d))

AddMember(p, tag, c, n, d, ltr) ==
    LET q == IF ltr THEN AddNameAndType(AddNamed(p, "Class", c), n, d, ltr)
                    ELSE AddNamed(AddNameAndType(p, n, d, ltr), "Class", c)
    IN  Add(q, MemberOf(q, tag, c, n, d))

(* The goc_*_info methods. *)
GetOrCreate(p, c, ltr) ==
    CASE c.tag \in Named         -> AddNamed(p, c.tag, c.of[1])
      [] c.tag = "NameAndType"   -> AddNameAndType(p, c.of[1], c.of[2], ltr)
      [] c.tag \in Members       -> AddMember(p, c.tag, c.of[1], c.of[2], c.of[3], ltr)
      [] OTHER                   -> Add(p, Text(c.tag, c.of[1]))

(* The entry of a constant whose parts are in the pool. *)
EntryOf(p, c) ==
    CASE c.tag \in Named         -> NamedOf(p, c.tag, c.of[1])
      [] c.tag = "NameAndType"   -> NameAndTypeOf(p, c.of[1], c.of[2])
      [] c.tag \in Members       -> MemberOf(p, c.tag, c.of[1], c.of[2], c.of[3])
      [] OTHER                   -> Text(c.tag, c.of[1])

(* The get_*_index methods: every part is looked up, and the first that is *)
(* not there throws.                                                       *)
Has(p, c) ==
    /\ c.tag \in Named \cup Members \cup {"NameAndType"} =>
           \A k \in DOMAIN c.of : TextOf(c.of[k]) \in DOMAIN p.slot
    /\ c.tag \in Members =>
           /\ NamedOf(p, "Class", c.of[1]) \in DOMAIN p.slot
           /\ NameAndTypeOf(p, c.of[2], c.of[3]) \in DOMAIN p.slot
    /\ EntryOf(p, c) \in DOMAIN p.slot

-----------------------------------------------------------------------------
(* Tasks *)

Visit(n) == [do |-> "visit", node |-> n]
Visits(ns) == [k \in DOMAIN ns |-> Visit(ns[k])]
NoNode == 0
Put(c) == [do |-> "put", constant |-> c, id |-> NoNode]
Remember(n, c) == [do |-> "put", constant |-> c, id |-> n.id]
Get(c) == [do |-> "get", constant |-> c]
Load(n) == [do |-> "load", node |-> n]
Count == [do |-> "count"]

Puts(cs) == [k \in DOMAIN cs |-> Put(cs[k])]
Gets(cs) == [k \in DOMAIN cs |-> Get(cs[k])]
If(condition, s) == IF condition THEN s ELSE <<>>

(* The constant a node remembers. *)
OwnConstant(n) ==
    CASE n.kind \in {"reference", "field"} -> Fieldref(n.sym.owner, n.sym.name, n.sym.descriptor)
      [] n.kind = "string"                 -> Constant("String", <<n.sym.value>>)
      [] n.kind = "double"                 -> Constant("Double", <<n.sym.value>>)
      [] n.kind = "float"                  -> Constant("Float", <<n.sym.value>>)
      [] OTHER                             -> Constant("Integer", <<n.sym.value>>)

(* The value of an int literal beyond int16 goes into the pool. *)
IsBig(n) == n.kind = "int" /\ n.sym.big
IsInt(n) == n.kind = "int"

SuperConstructor(n) == Methodref(n.sym.super, "<init>", "()V")
Method(n) == Methodref(n.sym.owner, n.sym.name, n.sym.descriptor)
Declared(n) ==
    <<Utf8(n.sym.name), Utf8(n.sym.descriptor)>> \o If(n.sym.class # "", <<Class(n.sym.class)>>)
Classes(names) == [k \in DOMAIN names |-> Class(names[k])]

(* Nodes that are no i_constant_pool_emitter: the dynamic_cast above them  *)
(* fails, and neither they nor what is below them is emitted.              *)
NoEmitters == {"range", "array", "access", "superCall"}

-----------------------------------------------------------------------------
(* The two walks, node by node.  A node has `values` (its operands,        *)
(* conditions, locals, parameters or fields) and `parts` (its scopes,      *)
(* statements or methods).                                                 *)

HasInnerScopes(method) ==
    \E k \in DOMAIN method.parts[1].parts : method.parts[1].parts[k].kind \in {"if", "while", "for"}

EmitType(n) ==
    Puts(<<Utf8(n.sym.source), Utf8("SourceFile"), Class(n.sym.name), Utf8(n.sym.descriptor),
           Class(n.sym.super)>>
         \o Classes(n.sym.interfaces) \o <<SuperConstructor(n)>>)
    \o Visits(n.values \o n.parts)

EmitField(n) ==
    Puts(Declared(n))
    \o If(n.values # <<>>,
          Puts(<<Utf8("<clinit>"), Utf8("()V")>>) \o Visits(n.values)
          \o <<Remember(n, OwnConstant(n))>>)

EmitMethod(n) ==
    Puts(<<Utf8("Code"), Utf8("LocalVariableTable")>>
         \o If(HasInnerScopes(n), <<Utf8("StackMapTable")>>)
         \o If(n.sym.throws # <<>>, <<Utf8("Exceptions")>> \o Classes(n.sym.throws)))
    \o Visits(n.values)
    \o <<Put(Constant("NameAndType", <<n.sym.name, n.sym.descriptor>>))>>
    \o Visits(n.parts)

(* An if emits its scopes, and not its conditions. *)
EmitIf(n) == Visits(n.parts)

(* Mutant: a while emits its scope only. *)
EmitWhileScope(n) == Visits(n.parts)

EmitWhile(n) == Visits(n.values \o n.parts)

(* for: the iterator and a range, which is no emitter.  The loop remembers *)
(* a big literal, but asks for the range itself and not for its step.      *)
Step(n) == n.values[2].values[3]
EmitFor(n) ==
    Visits(n.values \o n.parts)
    \o If(IsBig(n.values[2]), <<Remember(n, OwnConstant(n.values[2]))>>)

(* An assignment remembers a big literal on its right, negated for -=.     *)
EmitAssignment(n) ==
    Visits(n.values) \o If(n.sym.big, <<Remember(n, OwnConstant(n))>>)

EmitTasks(n) ==
    CASE n.kind = "type"   -> EmitType(n)
      [] n.kind = "field"  -> EmitField(n)
      [] n.kind = "local"  -> Puts(Declared(n))
      [] n.kind = "method" -> EmitMethod(n)
      [] n.kind = "if"     -> EmitIf(n)
      [] n.kind = "while"  -> EmitWhile(n)
      [] n.kind = "for"    -> EmitFor(n)
      [] n.kind \in {"assign", "decrease"} -> EmitAssignment(n)
      [] n.kind \in {"call", "new"}        -> <<Put(Method(n))>> \o Visits(n.values)
      [] n.kind = "cast"   -> Visits(n.values) \o Puts(If(n.sym.class # "", <<Class(n.sym.class)>>))
      [] n.kind \in {"reference", "string", "double", "float"} \/ IsBig(n)
                           -> <<Remember(n, OwnConstant(n))>>
      [] n.kind \in NoEmitters            -> <<>>
      [] OTHER             -> Visits(n.values \o n.parts)

(* Only fields that remember an index are initialised in <clinit>.         *)
IsStatic(f) == f.values # <<>> /\ f.id \in DOMAIN cpi
BuildStatic(f) == If(IsStatic(f), Visits(f.values) \o <<Load([f EXCEPT !.kind = "field"])>>)

BuildType(n) ==
    Gets(Classes(<<n.sym.name, n.sym.super>>)) \o <<Count>>
    \o Gets(Classes(n.sym.interfaces))
    \o Visits(n.values) \o Visits(n.parts)
    \o [k \in DOMAIN n.values |-> Visit([n.values[k] EXCEPT !.kind = "static"])]
    \o If(\E k \in DOMAIN n.values : IsStatic(n.values[k]),
          Gets(<<Utf8("Code"), Utf8("<clinit>"), Utf8("()V")>>))
    \o Gets(<<Utf8("SourceFile"), Utf8(n.sym.source)>>)

(* Every local of the method is in its table; with inner scopes the object *)
(* and array locals are named in the frames too.                           *)
BuildMethod(n) ==
    Gets(<<Utf8(n.sym.name), Utf8(n.sym.descriptor), Utf8("Code")>>)
    \o Visits(n.parts) \o <<Get(Utf8("LocalVariableTable"))>> \o Visits(n.sym.locals)
    \o If(HasInnerScopes(n),
          <<Get(Utf8("StackMapTable"))>>
          \o [k \in DOMAIN n.sym.locals |-> Visit([n.sym.locals[k] EXCEPT !.kind = "frame"])])
    \o If(n.sym.throws # <<>>, <<Get(Utf8("Exceptions"))>> \o Gets(Classes(n.sym.throws)))

(* The body of a branch is built before its condition; an else has none.   *)
BuildIf(n) ==
    LET branches == Len(n.values)
    IN  Visits([k \in 1..(2 * branches) |->
                   IF k % 2 = 1 THEN n.parts[(k + 1) \div 2] ELSE n.values[k \div 2]])
        \o Visits(SubSeq(n.parts, branches + 1, Len(n.parts)))

(* A step that is an int literal becomes an increment by the loop's index. *)
BuildFor(n) ==
    LET range == n.values[2].values
    IN  <<Visit(range[1]), Visit(n.parts[2])>>
        \o (IF IsInt(Step(n)) THEN If(IsBig(Step(n)), <<Load(n)>>) ELSE <<Visit(Step(n))>>)
        \o <<Visit(range[2])>>

(* Assigning to a field uses the index its reference remembers.            *)
BuildAssign(n) ==
    <<Visit(n.values[2])>> \o If(n.values[1].kind = "reference", <<Load(n.values[1])>>)

BuildTasks(n) ==
    CASE n.kind = "type"   -> BuildType(n)
      [] n.kind = "static" -> BuildStatic(n)
      [] n.kind \in {"field", "local"} -> Gets(<<Utf8(n.sym.name), Utf8(n.sym.descriptor)>>)
      [] n.kind = "frame"  -> Gets(If(n.sym.class # "", <<Class(n.sym.class)>>))
      [] n.kind = "method" -> BuildMethod(n)
      [] n.kind = "scope"  -> Visits(n.parts)
      [] n.kind = "if"     -> BuildIf(n)
      [] n.kind = "while"  -> Visits(n.parts \o n.values)
      [] n.kind = "for"    -> BuildFor(n)
      [] n.kind = "assign" -> BuildAssign(n)
      [] n.kind = "decrease" -> If(n.sym.big, <<Load(n)>>)
      [] n.kind = "call"   -> Visits(n.values) \o <<Get(Method(n))>>
      [] n.kind = "new"    -> <<Get(Class(n.sym.owner))>> \o Visits(n.values) \o <<Get(Method(n))>>
      [] n.kind = "superCall" -> <<Get(SuperConstructor(n))>>
      [] n.kind \in {"cast", "array"}
                           -> Visits(n.values) \o Gets(If(n.sym.class # "", <<Class(n.sym.class)>>))
      [] n.kind \in {"reference", "string", "double", "float"} \/ IsBig(n) -> <<Load(n)>>
      [] OTHER             -> Visits(n.values)

-----------------------------------------------------------------------------
(* What the parser and the analyzer make of a tree.  Every node is an      *)
(* object of its own, which its number stands for, in the order in which   *)
(* they are met going down; "static" and "frame" are no kinds of nodes but *)
(* roles in the second walk.  Every type has a method, if only the         *)
(* constructor that the analyzer adds.                                     *)
Elements(s) == {s[k] : k \in DOMAIN s}
Children(n) == Elements(n.values) \cup Elements(n.parts)

WellFormed(n, nodes) ==
    /\ DOMAIN n = {"kind", "id", "sym", "values", "parts"}
    /\ n.id \in Nat \ {NoNode} /\ n.kind \notin {"static", "frame"}
    /\ n.values \in Seq(nodes) /\ n.parts \in Seq(nodes)
    /\ n.kind = "type" => /\ n.sym.interfaces \in Seq(STRING)
                          /\ \A f \in Elements(n.values) : f.kind = "field"
                          /\ \E m \in Elements(n.parts) : m.kind = "method"
    /\ n.kind = "method" => /\ n.sym.throws \in Seq(STRING) /\ n.sym.locals \in Seq(nodes)
                            /\ \A l \in Elements(n.sym.locals) : l.kind = "local"
    /\ n.kind = "if" => Len(n.values) <= Len(n.parts)
    /\ n.kind = "for" => /\ Len(n.values) = 2 /\ Len(n.parts) = 2
                         /\ n.values[2].kind = "range" /\ Len(n.values[2].values) = 3
    /\ n.kind = "assign" => Len(n.values) = 2
    /\ n.kind \in {"field", "assign", "decrease", "call", "new", "cast"} => n.parts = <<>>
    /\ n.kind \in {"local", "reference", "string", "double", "float", "int"} => Children(n) = {}

ASSUME TreeAssumption ==
    \A t \in Types :
        /\ t.kind = "type" /\ t \in NodesOf(t)
        /\ \A top \in NodesOf(t) :
               top \in NodesOf(top) /\ \A n \in NodesOf(top) : WellFormed(n, NodesOf(top))
        /\ \A n \in NodesOf(t) :
               /\ \A m \in NodesOf(t) : m.id = n.id => m = n
               /\ n = t \/ \E m \in NodesOf(t) : m.id < n.id /\ n \in Children(m)
               /\ n.kind = "superCall" => n.sym.super = t.sym.super

-----------------------------------------------------------------------------
(* Steps *)

Init ==
    /\ type \in Types
    /\ phase = "emit"
    /\ tasks = <<Visit(type)>>
    /\ pool = EmptyPool
    /\ cpi = [id \in {} |-> 0]
    /\ loads = {}

Doing(what) == tasks # <<>> /\ Head(tasks).do = what

VisitToEmit ==
    /\ phase = "emit" /\ Doing("visit")
    /\ tasks' = EmitTasks(Head(tasks).node) \o Tail(tasks)
    /\ UNCHANGED <<phase, type, pool, cpi, loads>>

(* Mutant: the next index, also when the entry is there. *)
IndexBeforeAdding(p, q, c) == p.index

IndexGiven(p, q, c) == q.slot[EntryOf(q, c)]

(* Put a constant into the pool, and let the node remember its index.      *)
PutConstant ==
    /\ Doing("put")
    /\ \E ltr \in BOOLEAN : pool' = GetOrCreate(pool, Head(tasks).constant, ltr)
    /\ cpi' = IF Head(tasks).id = NoNode
                THEN cpi
                ELSE [id \in DOMAIN cpi \cup {Head(tasks).id} |->
                         IF id = Head(tasks).id
                           THEN IndexGiven(pool, pool', Head(tasks).constant)
                           ELSE cpi[id]]
    /\ tasks' = Tail(tasks)
    /\ UNCHANGED <<phase, type, loads>>

(* The pool is complete; the builder walks the tree again. *)
StartBuild ==
    /\ phase = "emit" /\ tasks = <<>>
    /\ phase' = "build"
    /\ tasks' = <<Visit(type)>>
    /\ UNCHANGED <<type, pool, cpi, loads>>

VisitToBuild ==
    /\ phase = "build" /\ Doing("visit")
    /\ tasks' = BuildTasks(Head(tasks).node) \o Tail(tasks)
    /\ UNCHANGED <<phase, type, pool, cpi, loads>>

GetIndex ==
    /\ Doing("get") /\ Has(pool, Head(tasks).constant)
    /\ tasks' = Tail(tasks)
    /\ UNCHANGED <<phase, type, pool, cpi, loads>>

(* An exception of a lookup is caught nowhere. *)
Throw ==
    /\ phase' = "threw"
    /\ tasks' = <<>>
    /\ UNCHANGED <<type, pool, cpi, loads>>

GetMissing == Doing("get") /\ ~Has(pool, Head(tasks).constant) /\ Throw

(* Mutant: no limit. *)
NeverTooBig(p) == FALSE

(* constant_pool_count is size() + 1, which is the next index. *)
TooBig(p) == p.index > MaxCount

CountEntries ==
    /\ Doing("count")
    /\ IF TooBig(pool)
         THEN phase' = "fatal" /\ tasks' = <<>>
         ELSE phase' = phase /\ tasks' = Tail(tasks)
    /\ UNCHANGED <<type, pool, cpi, loads>>

IsField(n) == n.kind \in {"reference", "field"}

(* The operand in the code: one byte for LDC, two for the others.          *)
Operand(n, i) == IF IsField(n) \/ n.kind = "double" THEN i % IndexSpan ELSE i % LdcSpan

Loaded(n, operand) ==
    /\ loads' = loads \cup {[node |-> n, operand |-> operand]}
    /\ tasks' = Tail(tasks)
    /\ UNCHANGED <<phase, type, pool, cpi>>

UseIndex ==
    /\ Doing("load")
    /\ LET n == Head(tasks).node
       IN  n.id \in DOMAIN cpi /\ Loaded(n, Operand(n, cpi[n.id]))

(* Without an index a field or an int literal throws; the other literals   *)
(* read an empty optional, which gives any value.                          *)
Unchecked(n) == n.kind \in {"string", "double", "float"}

UseMissing ==
    /\ Doing("load")
    /\ LET n == Head(tasks).node
       IN  /\ n.id \notin DOMAIN cpi
           /\ \/ ~Unchecked(n) /\ Throw
              \/ Unchecked(n) /\ \E garbage \in Garbage : Loaded(n, Operand(n, garbage))

Finish ==
    /\ phase = "build" /\ tasks = <<>>
    /\ phase' = "done"
    /\ UNCHANGED <<tasks, type, pool, cpi, loads>>

Next == \/ VisitToEmit \/ PutConstant \/ StartBuild
        \/ VisitToBuild \/ GetIndex \/ GetMissing \/ CountEntries
        \/ UseIndex \/ UseMissing \/ Finish

Spec == Init /\ [][Next]_vars

-----------------------------------------------------------------------------
(* Properties *)

(* Types of the variables; an operand fits the bytes it is written to.     *)
TypeOK ==
    /\ phase \in {"emit", "build", "done", "fatal", "threw"}
    /\ type \in Types
    /\ pool.index \in Nat \ {0}
    /\ \A e \in DOMAIN pool.slot : pool.slot[e] \in Nat \ {0}
    /\ \A id \in DOMAIN cpi : cpi[id] \in Nat \ {0}
    /\ \A l \in loads :
           l.operand \in 0..((IF IsField(l.node) \/ l.node.kind = "double" THEN IndexSpan ELSE LdcSpan) - 1)

DisjointSlots(p) ==
    /\ \A e \in DOMAIN p.slot : 1 <= p.slot[e] /\ p.slot[e] + Slots(e) <= p.index
    /\ \A e, f \in DOMAIN p.slot :
           \/ e = f
           \/ p.slot[e] + Slots(e) <= p.slot[f]
           \/ p.slot[f] + Slots(f) <= p.slot[e]

(* No two entries share a slot, the second slot of a Double included, and  *)
(* the next index lies beyond all (goc_constant advances by the width of   *)
(* what it inserts).                                                       *)
SlotsDisjoint == DisjointSlots(pool)

(* In a class file that is written, every reference of an entry leads to   *)
(* an entry of the kind the reader expects there: the two bytes of a       *)
(* reference lose nothing in a pool that passed the limit.                 *)
Expected(tag) ==
    CASE tag \in Named         -> <<"Utf8">>
      [] tag = "NameAndType"   -> <<"Utf8", "Utf8">>
      [] tag \in Members       -> <<"Class", "NameAndType">>
      [] OTHER                 -> <<>>
ReferencesResolve ==
    phase = "done" =>
        \A e \in DOMAIN pool.slot :
            /\ DOMAIN e.refs = DOMAIN Expected(e.tag)
            /\ \A k \in DOMAIN e.refs :
                   \E f \in DOMAIN pool.slot : pool.slot[f] = e.refs[k] /\ f.tag = Expected(e.tag)[k]

(* An instruction whose node remembers an index names the node's constant, *)
(* where the index fits the operand.                                       *)
Names(operand, c) == Has(pool, c) /\ pool.slot[EntryOf(pool, c)] = operand
LoadsNameTheirConstant ==
    phase = "done" =>
        \A l \in loads :
            l.node.id \in DOMAIN cpi /\ (IsField(l.node) \/ cpi[l.node.id] < LdcSpan)
                => Names(l.operand, OwnConstant(l.node))

(* Where the second walk goes and the first does not. *)
Skipped(n) ==
    CASE n.kind \in NoEmitters -> Children(n)
      [] n.kind = "if"         -> Elements(n.values)
      [] OTHER                 -> {}
Hidden(t) == {m \in NodesOf(t) : \E n \in NodesOf(t) : \E v \in Skipped(n) : m \in NodesOf(v)}

(* A node in the second walk finds what it asks of the pool or of itself.  *)
Finds(n) ==
    \A x \in Elements(BuildTasks(n)) :
        /\ x.do = "get" => Has(pool, x.constant)
        /\ x.do = "load" => x.node.id \in DOMAIN cpi

(* The class of the elements of a new array and a big step are forgotten.  *)
Forgets(n) == n.kind = "array" \/ (n.kind = "for" /\ IsBig(Step(n)))

(* Whatever a node asks for in the second walk was put there by the first, *)
(* unless the first walk never came to the node, or it forgets: the two    *)
(* methods of every kind of node agree.                                    *)
OnlyHiddenMiss ==
    phase = "build" /\ Doing("visit") =>
        LET n == Head(tasks).node
        IN  Finds(n) \/ Forgets(n) \/ \E m \in Hidden(type) : m.id = n.id
=============================================================================
