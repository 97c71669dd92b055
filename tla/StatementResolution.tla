------------------------ MODULE StatementResolution ------------------------
(***************************************************************************)
(* The bodies of methods and the initialisers of static fields, from the   *)
(* statements the parser leaves to what the semantic analyzer makes of     *)
(* them (semantic_analyzer/statement/): which variable a name means, which *)
(* method a call calls, whether a value fits the place it is put in, and   *)
(* what is reported.  Code is generated for a body that nothing was        *)
(* reported for, so what is wrong with it and goes unreported is compiled. *)
(*                                                                         *)
(* Positions are what makes this hard to test.  Local variables enter      *)
(* their scope before any statement is resolved; that a read comes after   *)
(* the declaration is found out by comparing indexes of statements, given  *)
(* when the parser adds a statement and shifted when prepare() puts a      *)
(* super call before the body.  Values are resolved on both sides of an    *)
(* operator before it is checked, conditions are asked for their type even *)
(* when they could not be resolved, and a value may be wrapped in a cast   *)
(* between two looks at it.                                                *)
(*                                                                         *)
(* A statement or a value is a record with a kind k; its text, its place   *)
(* in the file and its name's spelling are left out.  What a name of       *)
(* several parts means is given (Imported): NameResolution models that     *)
(* search.  The types of the world are resolved, as pass three leaves them *)
(* for the bodies.                                                         *)
(***************************************************************************)
EXTENDS Integers, SequencesExt

CONSTANTS
    World,      \* class -> [super, ifaces, interface, fields, methods]
    Imported,   \* <<part, ...>> -> [kind, type]: what a qualified name means
    Widening,   \* <<from, to>>: primitive types that widen
    Primitives, \* names of primitive types
    SizeMax,    \* stands for size_t(-1), the index nobody has set
    Values,     \* the values that occur, and the operands of each of them
    Statements, \* the statements, and those of their inner scopes
    Depth,      \* how deep values and statements are nested in each
    Cases       \* the bodies to analyse

Class == DOMAIN World
None == "none"
Ctor == "<init>"

(***************************************************************************)
(* Types.  Absent is the null pointer an element has for its type when its *)
(* array has none (an error of the parser's has it too, but bodies with    *)
(* one are never resolved: the driver stops before); Throws stands for a   *)
(* get_type() that ends in an exception, as that of a variable or a call   *)
(* does before it is resolved.  A range is of a class of its own, which    *)
(* nothing resolves: no class of the world has its name.                   *)
(***************************************************************************)
Type(base) == [base |-> base, dims |-> 0]
Absent == Type("absent")
Throws == Type("throws")
RangeType == Type("range")

\* What a declaration may say, and what a value may be of besides.
NoTypes == {"absent", "throws", "null", "range"}
Types == [base : STRING \ NoTypes, dims : Nat]
ValueTypes == Types \cup {Type("null"), RangeType}

IsPrimitive(t) == t.base \in Primitives
IsCustom(t) == t.base \in Class
Known(t) == IsPrimitive(t) \/ IsCustom(t) \/ t.base = "null"

\* is_subtype_of: d is reached from c by super types.
SuperTypes(c) == World[c].ifaces \cup ({World[c].super} \ {None})
Subtype(c, d) ==
    \A up \in SUBSET Class :
        (c \in up /\ \A b \in up : SuperTypes(b) \subseteq up) => d \in up

\* The types from c up, as far as the first of those in `ends'.
Climbed(c, ends) ==
    {d \in Class : \A up \in SUBSET Class :
        (c \in up /\ \A b \in up \ ends : World[b].super \in up \cup {None})
        => d \in up}

\* do_types_match: equal descriptors, or null for what is not primitive.
\* All types that are not resolved have one descriptor, but for the dimensions.
TypesMatch(from, to) ==
    IF from.base = "null" THEN ~IsPrimitive(to)
    ELSE from = to \/ (~Known(from) /\ ~Known(to) /\ from.dims = to.dims)

\* can_widen_to and can_poly_cast_to look at the base types only.
Widens(from, to) == <<from.base, to.base>> \in Widening
PolyCasts(from, to) ==
    IsCustom(from) /\ IsCustom(to) /\ Subtype(from.base, to.base)

\* make_widening_cast_maybe
Compatible(from, to) ==
    TypesMatch(from, to) \/ Widens(from, to) \/ PolyCasts(from, to)

\* The types of the world are resolved.
KnownTypes == {t \in Types : Known(t)}
Methods == [params : Seq(KnownTypes), static : BOOLEAN, returns : KnownTypes,
            sins : SUBSET STRING]

ASSUME WorldAssumption ==
    /\ Class \subseteq STRING \ NoTypes /\ None \notin Class
    /\ Widening \subseteq (Primitives \X Primitives)
    /\ Primitives \subseteq STRING \ NoTypes /\ {"int", "boolean", "void"} \subseteq Primitives
    /\ SizeMax \in Nat
    /\ \A c \in Class :
        /\ World[c].super \in Class \cup {None} /\ World[c].ifaces \subseteq Class
        /\ World[c].interface \in BOOLEAN
        /\ \A x \in DOMAIN World[c].fields : World[c].fields[x].type \in KnownTypes
        /\ \A x \in DOMAIN World[c].methods : World[c].methods[x] \in Seq(Methods)
    /\ \A path \in DOMAIN Imported :
        Imported[path].kind = "field" => Imported[path].type \in KnownTypes

(***************************************************************************)
(* The trees the parser builds: values and statements of every kind, whose *)
(* parts are nested less deep.                                             *)
(***************************************************************************)
Deeper(n, parts) == \A p \in parts : Depth[p] < Depth[n]

\* A list of statements is counted in a size_t.
IsScope(stmts) == stmts \in Seq(Statements) /\ Len(stmts) < SizeMax

IsValue(v) ==
    \/ v.k = "literal" /\ v.t \in KnownTypes \cup {Type("null")}
    \/ /\ v.k = "name" /\ v.assoc \in {None, "this", "super"}
       /\ v.parts \in Seq(STRING) /\ v.parts # <<>>
    \/ /\ v.k = "new" /\ v.cls \in STRING \ NoTypes
       /\ v.args \in Seq(Values) /\ Deeper(v, Range(v.args))
    \/ /\ v.k = "call" /\ v.assoc \in {None, "this", "super", "expr"}
       /\ v.parts \in Seq(STRING) /\ v.parts # <<>>
       /\ v.args \in Seq(Values) /\ Deeper(v, Range(v.args))
       /\ v.assoc = "expr" => v.recv \in Values /\ Deeper(v, {v.recv})
    \/ v.k = "binary" /\ {v.l, v.r} \subseteq Values /\ Deeper(v, {v.l, v.r})
    \/ /\ v.k = "range" /\ {v.l, v.r, v.s} \subseteq Values
       /\ Deeper(v, {v.l, v.r, v.s})
    \/ v.k \in {"unary", "length"} /\ v.c \in Values /\ Deeper(v, {v.c})
    \/ v.k = "access" /\ {v.a, v.i} \subseteq Values /\ Deeper(v, {v.a, v.i})
    \/ v.k = "cast" /\ v.c \in Values /\ Deeper(v, {v.c}) /\ v.t \in Types
    \/ v.k = "newarray" /\ v.d \in Values /\ Deeper(v, {v.d}) /\ v.t \in Types

IsStatement(s) ==
    \/ s.k = "let" /\ s.x \in STRING /\ s.t \in Types /\ s.v \in Values
    \/ s.k = "assign" /\ {s.target, s.v} \subseteq Values /\ s.target.k = "name"
    \/ s.k = "assignelement" /\ {s.target, s.v} \subseteq Values /\ s.target.k = "access"
    \/ /\ s.k = "if" /\ s.conds \in Seq(Values) /\ s.bodies \in Seq(Seq(Statements))
       /\ \A b \in Range(s.bodies) : IsScope(b) /\ Deeper(s, Range(b))
       /\ Len(s.bodies) - Len(s.conds) \in {0, 1}
    \/ /\ s.k = "while" /\ s.c \in Values
       /\ IsScope(s.body) /\ Deeper(s, Range(s.body))
    \/ /\ s.k = "for" /\ s.x \in STRING /\ s.t \in Types /\ s.coll \in Values
       /\ IsScope(s.body) /\ Deeper(s, Range(s.body))
    \/ s.k = "return" /\ s.v \in Values
    \/ s.k \in {"super", "end"}
    \/ s.k \in {"call", "new"} /\ s \in Values

IsCase(m) ==
    /\ m.cls \in Class /\ m.returns \in KnownTypes /\ m.sins \subseteq STRING
    /\ {m.static, m.reversed} \subseteq BOOLEAN /\ m.ub \in {"ends", "goes on"}
    /\ IF m.kind = "initializer"
       THEN \E v \in Values : m.stmts = <<v>>
       ELSE IsScope(m.stmts)
    /\ m.params \in Seq([name : STRING, type : Types, from : {0}, to : Nat, at : {<<0>>}])

ASSUME SyntaxAssumption ==
    /\ Depth \in [Values \cup Statements -> Nat]
    /\ \A v \in Values : IsValue(v)
    /\ \A s \in Statements : IsStatement(s)
    /\ {[k |-> "super"], [k |-> "end"]} \subseteq Statements
    /\ \A m \in Cases : IsCase(m)

(***************************************************************************)
(* What resolving a part of a body leaves: whether it succeeded (ok), the  *)
(* type get_type() answers from then on, what was reported, and whether an *)
(* exception ended the compiler.  For the properties it also keeps the     *)
(* nodes left without a meaning (holes), the places values were put in     *)
(* (puts) and the reads of local variables (reads).                        *)
(***************************************************************************)
Result(ty) == [ok |-> TRUE, ty |-> ty, errs |-> {}, ended |-> FALSE,
               holes |-> {}, puts |-> {}, reads |-> {}]

\* a, then b; nothing follows an exception.
Both(a, b) ==
    IF a.ended THEN a
    ELSE [ok |-> a.ok /\ b.ok, ty |-> b.ty, errs |-> a.errs \cup b.errs,
          ended |-> b.ended, holes |-> a.holes \cup b.holes,
          puts |-> a.puts \cup b.puts, reads |-> a.reads \cup b.reads]

\* One after the other.
InTurn(results) ==
    LET upTo[n \in 0..Len(results)] ==
            IF n = 0 THEN Result(Absent) ELSE Both(upTo[n - 1], results[n])
    IN  upTo[Len(results)]

Report(r, err) == [r EXCEPT !.ok = FALSE, !.errs = @ \cup {err}]
ReportIf(cond, r, err) == IF cond /\ ~r.ended THEN Report(r, err) ELSE r
Put(r, want, got, how) ==
    [r EXCEPT !.puts = @ \cup {[want |-> want, got |-> got, how |-> how]}]
Typed(r, ty) == [r EXCEPT !.ty = ty]
Hole(v, r, ty) ==
    [r EXCEPT !.ok = FALSE, !.ty = ty, !.holes = @ \cup {v}]

(***************************************************************************)
(* Undefined behaviour (a destroyed symbol, a null type, a missing method) *)
(* either ends the compiler or goes unnoticed, as the case says.           *)
(***************************************************************************)
Undefined(r, e) == IF e.m.ub = "ends" THEN [r EXCEPT !.ended = TRUE] ELSE r

(***************************************************************************)
(* The scope of a list of statements, as the parser leaves it: a let adds  *)
(* its variable, from the index its assignment is about to get, and        *)
(* mark_end says up to which index.  `at' is the path of the let, for the  *)
(* properties.                                                             *)
(***************************************************************************)
Declared(stmts, n, path) ==
    IF stmts[n].k # "let" THEN <<>>
    ELSE <<[name |-> stmts[n].x, type |-> stmts[n].t,
            from |-> n - 1, to |-> Len(stmts) - 1, at |-> Append(path, n)]>>

LocalsOf(stmts, path) ==
    LET upTo[n \in 0..Len(stmts)] ==
            IF n = 0 THEN <<>> ELSE upTo[n - 1] \o Declared(stmts, n, path)
    IN  upTo[Len(stmts)]

\* add_variable does not replace: the first variable of a name stays.
FirstOf(locals, x) ==
    locals[Min({i \in DOMAIN locals : locals[i].name = x})]

\* The types of the variables of a scope that have symbols, ...
SymbolTypes(locals) ==
    {FirstOf(locals, locals[n].name).type : n \in DOMAIN locals}

\* ... and of those of the scopes inside a statement.
TypesInside(inner, stmts) ==
    SymbolTypes(LocalsOf(stmts, <<>>)) \cup UNION {inner[s] : s \in Range(stmts)}

InnerTypes[s \in Statements] ==
    CASE s.k = "if" -> UNION {TypesInside(InnerTypes, b) : b \in Range(s.bodies)}
      [] s.k = "while" -> TypesInside(InnerTypes, s.body)
      [] s.k = "for" -> {s.t} \cup TypesInside(InnerTypes, s.body)
      [] OTHER -> {}

(***************************************************************************)
(* The environment of a value: the method m, the scopes from the innermost *)
(* out, the index of the statement it stands in (idx) and that statement's *)
(* path (at).  An initialiser has no method_info (init).                   *)
(***************************************************************************)
LevelOf(chain, x) ==
    LET named == {l \in DOMAIN chain :
                    \E i \in DOMAIN chain[l] : chain[l][i].name = x}
    IN  IF named = {} THEN 0 ELSE Min(named)

\* is_accessible: an outer scope's variable always is.
IsAccessible(local, level, idx) ==
    level = 1 => (local.from <= idx /\ idx <= local.to)

Read(local, e, how) == {[decl |-> local.at, at |-> e.at, how |-> how]}

(***************************************************************************)
(* variable_reference::resolve.                                            *)
(***************************************************************************)
\* A resolved variable: its type may still be unknown, which is reported.
Variable(ty) == ReportIf(~Known(ty), Result(ty), "no such type")

LocalVariable(x, level, e) ==
    LET local == FirstOf(e.chain[level], x)
        r == [Variable(local.type) EXCEPT !.reads = Read(local, e, "name")]
    IN  IF r.ok /\ ~IsAccessible(local, level, e.idx)
        THEN [r EXCEPT !.errs = {"before creation"}]
        ELSE r

(* Mutant: the look into the type's fields is silent, like resolve_own. *)
SilentFieldVariable(v, x, e) ==
    LET fields == World[e.m.cls].fields
    IN  IF x \in DOMAIN fields THEN Variable(fields[x].type)
        ELSE Hole(v, Result(Throws), Throws)

FieldVariable(v, x, e) ==
    LET fields == World[e.m.cls].fields
    IN  IF x \in DOMAIN fields THEN Variable(fields[x].type)
        ELSE Report(Hole(v, Result(Throws), Throws), "no such symbol")

\* find_super_field_symbol: the nearest super type that has the field.
SuperFieldVariable(v, x, e) ==
    LET above == World[e.m.cls].super
        having == {c \in Class : x \in DOMAIN World[c].fields}
        found == IF above = None THEN {} ELSE having \cap Climbed(above, having)
    IN  IF found # {}
        THEN Variable(World[CHOOSE c \in found : TRUE].fields[x].type)
        ELSE Report(Hole(v, Result(Throws), Throws), "no such symbol")

\* find_local_symbol: the scopes, the type's fields, its methods, types.
SingleName(v, x, e) ==
    LET level == LevelOf(e.chain, x)
        own == World[e.m.cls]
    IN  CASE level # 0 -> LocalVariable(x, level, e)
          [] level = 0 /\ x \in DOMAIN own.fields -> FieldVariable(v, x, e)
          [] OTHER -> Report(Hole(v, Result(Throws), Throws),
                IF x \in DOMAIN own.methods \cup Class
                THEN "not a variable" ELSE "no such symbol")

QualifiedName(v) ==
    IF v.parts \in DOMAIN Imported /\ Imported[v.parts].kind = "field"
    THEN Variable(Imported[v.parts].type)
    ELSE Report(Hole(v, Result(Throws), Throws), "not a variable")

NameValue(v, e) ==
    CASE v.assoc = "this" /\ ~e.init -> FieldVariable(v, Last(v.parts), e)
      [] v.assoc = "super" /\ ~e.init -> SuperFieldVariable(v, Last(v.parts), e)
      [] v.assoc = None /\ Len(v.parts) > 1 -> QualifiedName(v)
      [] v.assoc = None /\ Len(v.parts) = 1 /\ ~e.init ->
            SingleName(v, Head(v.parts), e)
      [] OTHER -> Hole(v, Result(Throws), Throws)

(***************************************************************************)
(* The variable a let assigns is that of its declaration.  When the scope  *)
(* had one of that name, the symbol the declaration points to was          *)
(* destroyed as it was to be added.                                        *)
(***************************************************************************)
DeclaredVariable(s, e) ==
    IF FirstOf(e.chain[1], s.x).at = e.at
    THEN Result(s.t)
    ELSE Undefined([Result(s.t) EXCEPT
            !.holes = {[k |-> "let", x |-> s.x]}], e)

(***************************************************************************)
(* Choosing a method: the first type up the hierarchy that has the name,   *)
(* there the first overload that takes the arguments as they are, else the *)
(* first that takes them widened.  The overloads are in the order of a     *)
(* hash table.                                                             *)
(***************************************************************************)
Has(c, name) == name \in DOMAIN World[c].methods

\* The types the search for a method of that name comes to.
Searched(c, name) == Climbed(c, {b \in Class : Has(b, name)})

Overloads(c, name) ==
    LET found == {d \in Searched(c, name) : Has(d, name)}
    IN  IF found = {} THEN <<>>
        ELSE World[CHOOSE d \in found : TRUE].methods[name]

ArgsMatch(tys, params, widening) ==
    /\ Len(tys) = Len(params)
    /\ \A i \in DOMAIN tys :
        \/ TypesMatch(tys[i], params[i])
        \/ PolyCasts(tys[i], params[i])
        \/ widening /\ Widens(tys[i], params[i])

ChosenOverload(overloads, tys) ==
    LET takes(w) == {i \in DOMAIN overloads :
                        ArgsMatch(tys, overloads[i].params, w)}
    IN  IF takes(FALSE) # {} THEN Min(takes(FALSE))
        ELSE IF takes(TRUE) # {} THEN Min(takes(TRUE)) ELSE 0

(***************************************************************************)
(* resolve_call_parent_type: the type a call is looked up in, if any, what *)
(* is reported, whether a variable is the receiver.                        *)
(***************************************************************************)
Parent(c) == [cls |-> c, r |-> Result(Absent), var |-> FALSE]
NoParent(r) == [cls |-> None, r |-> r, var |-> FALSE]
NoSuchType == NoParent(Report(Result(Absent), "no such type"))

\* `rcv' is what resolving the receiver left; its failure is not looked at.
ExpressionParent(v, rcv, e) ==
    CASE v.recv \in rcv.holes /\ v.recv.k \in {"name", "call", "new"} ->
            NoParent(Result(Absent))
      [] OTHER ->
            IF IsCustom(rcv.ty)
            THEN [Parent(rcv.ty.base) EXCEPT
                    !.r = Put(@, Type(rcv.ty.base), rcv.ty, "receiver")]
            ELSE IF rcv.ty = Throws
            THEN NoParent([Result(Absent) EXCEPT !.ended = TRUE])
            ELSE IF rcv.ty = Absent
            THEN NoParent(Undefined(Report(Result(Absent), "no such type"), e))
            ELSE NoSuchType

\* A variable named by the first part: the parts between are not looked at.
ReceiverVariable(x, e) ==
    LET level == LevelOf(e.chain, x)
        local == FirstOf(e.chain[level], x)
        fields == World[e.m.cls].fields
    IN  CASE e.init -> Result(Absent)
          [] ~e.init /\ level # 0 ->
                [Result(local.type) EXCEPT
                    !.reads = Read(local, e, "receiver")]
          [] ~e.init /\ level = 0 /\ x \in DOMAIN fields ->
                Result(fields[x].type)
          [] OTHER -> Result(Absent)

QualifiedParent(v, e) ==
    LET rcv == ReceiverVariable(Head(v.parts), e)
        path == Front(v.parts)
    IN  CASE IsCustom(rcv.ty) ->
                [cls |-> rcv.ty.base, var |-> TRUE,
                 r |-> Put(rcv, Type(rcv.ty.base), rcv.ty, "receiver")]
          [] ~IsCustom(rcv.ty) /\ path \notin DOMAIN Imported -> NoSuchType
          [] ~IsCustom(rcv.ty) /\ path \in DOMAIN Imported ->
                LET found == Imported[path]
                IN  IF IsCustom(found.type)
                    THEN [Parent(found.type.base) EXCEPT
                            !.var = found.kind = "field"]
                    ELSE NoSuchType

ParentType(v, rcv, e) ==
    CASE v.k = "new" -> IF v.cls \in Class THEN Parent(v.cls) ELSE NoSuchType
      [] v.k = "call" /\ v.assoc = "expr" -> ExpressionParent(v, rcv, e)
      [] v.k = "call" /\ v.assoc = "super" ->
            IF e.init THEN NoParent(Result(Absent))
            ELSE IF World[e.m.cls].super = None THEN NoSuchType
            ELSE Parent(World[e.m.cls].super)
      [] v.k = "call" /\ (v.assoc = "this" \/ Len(v.parts) = 1)
            /\ v.assoc \notin {"expr", "super"} ->
            IF e.init THEN NoParent(Result(Absent)) ELSE Parent(e.m.cls)
      [] OTHER -> QualifiedParent(v, e)

(***************************************************************************)
(* post_resolve: `this' is put before the arguments of a method that needs *)
(* it, the receiver if there is one, else the caller's; and the sins of    *)
(* the method must be declared by the caller.                              *)
(***************************************************************************)
NeedsThis(v, method, parent) ==
    ~method.static /\ v.k # "new" /\ v.assoc # "expr" /\ ~parent.var

\* prepend_implicit_this_argument: an initialiser has no method to ask.
ImplicitThis(v, r, parent, e) ==
    IF e.init THEN Undefined([r EXCEPT !.holes = {v}], e)
    ELSE IF e.m.static THEN Report(r, "non-static call")
    ELSE Put(r, Type(parent.cls), Type(e.m.cls),
             IF v.assoc = None THEN "implicit this" ELSE "this")

\* validate_sins_thrown
SinsDeclared(method, r, e) ==
    ReportIf(~e.init /\ ~(method.sins \subseteq e.m.sins), r, "undeclared sin")

PostResolve(v, method, parent, tys, e) ==
    LET puts == [n \in DOMAIN tys |-> [want |-> method.params[n],
                                       got |-> tys[n], how |-> "argument"]]
        bound == [Result(IF v.k = "new" THEN Type(v.cls) ELSE method.returns)
                    EXCEPT !.puts = Range(puts)]
        self == IF NeedsThis(v, method, parent)
                THEN ImplicitThis(v, bound, parent, e) ELSE bound
    IN  IF self.ok THEN SinsDeclared(method, self, e) ELSE self

InOrder(overloads, e) == IF e.m.reversed THEN Reverse(overloads) ELSE overloads
CalledName(v) == IF v.k = "new" THEN Ctor ELSE Last(v.parts)

\* b after a, with b's success: the failure of a receiver is not looked at.
After(a, b) == [Both(a, b) EXCEPT !.ok = b.ok]

\* resolve_method_call, from what its arguments and its receiver left.
BoundCall(v, before, parent, tys, overloads, unbound, e) ==
    LET chosen == ChosenOverload(overloads, tys)
    IN  IF overloads = <<>>
        THEN Hole(v, Report(before, "no such method"), unbound)
        ELSE IF chosen = 0
        THEN Hole(v, Report(before, "arguments mismatch"), unbound)
        ELSE After(before, PostResolve(v, overloads[chosen], parent, tys, e))

FoundParent(v, before, parent, tys, unbound, e) ==
    IF before.ended \/ parent.cls = None THEN Hole(v, before, unbound)
    ELSE BoundCall(v, before, parent, tys,
                   InOrder(Overloads(parent.cls, CalledName(v)), e), unbound, e)

CallValue(v, args, rcv, e) ==
    LET unbound == IF v.k = "new" THEN Type(v.cls) ELSE Throws
        parent == ParentType(v, rcv, e)
    IN  CASE args.r.ended -> args.r
          [] ~args.r.ended /\ (~args.r.ok \/ Absent \in Range(args.tys)) ->
                Hole(v, args.r, unbound)
          [] OTHER -> FoundParent(v, Both(Both(args.r, rcv), parent.r), parent,
                                  args.tys, unbound, e)

\* Two sides brought to one type: the narrower one is wrapped in a cast.
Wrapped(t, other) == IF Widens(t, other) THEN Type(other.base) ELSE t
WrappedRight(r, l) == IF Widens(l, r) THEN r ELSE Wrapped(r, l)

BinaryValue(v, l, r) ==
    LET left == Wrapped(l.ty, r.ty)
        both == Both(l, r)
        ty == IF v.op = "boolean" THEN Type("boolean")
              ELSE IF both.ok THEN left ELSE l.ty
    IN  Typed(ReportIf(both.ok /\ ~TypesMatch(left, WrappedRight(r.ty, l.ty)),
                       both, "operands mismatch"), ty)

LengthValue(c) ==
    Typed(ReportIf(c.ok /\ c.ty.dims = 0, c, "not an array"), Type("int"))

\* resolve_array_index and is_primitive_type: an index is an int.
IndexValue(i) ==
    IF i.ok THEN Put(ReportIf(i.ty.base # "int", i, "not an index"),
                     Type("int"), i.ty, "index")
    ELSE i

\* The index is resolved in any case, but checked only for an array.
AccessValue(v, a, i) ==
    IF a.ok /\ a.ty.dims > 0
    THEN Typed(Both(a, IndexValue(i)), [a.ty EXCEPT !.dims = @ - 1])
    ELSE Hole(v, Both(ReportIf(a.ok, a, "not an array"), i), Absent)

\* cast::resolve: between primitives, along the hierarchy, or from or to
\* what a source declares as an interface.
Interfaces == {c \in Class : World[c].interface}

CastValue(v, c) ==
    LET unrelated == /\ IsCustom(c.ty) /\ IsCustom(v.t)
                     /\ ~Subtype(c.ty.base, v.t.base)
                     /\ ~Subtype(v.t.base, c.ty.base)
                     /\ {c.ty.base, v.t.base} \cap Interfaces = {}
    IN  Typed(IF ~c.ok THEN c
              ELSE IF ~Known(v.t) THEN Report(c, "no such type")
              ELSE ReportIf(IsPrimitive(c.ty) # IsPrimitive(v.t) \/ unrelated,
                            c, "invalid cast"), v.t)

NewArrayValue(v, d) ==
    Typed(ReportIf(~Known(Type(v.t.base)), IndexValue(d), "no such type"), v.t)

(***************************************************************************)
(* The environments a value or a statement is resolved in: what the        *)
(* semantic context tells of the method, the scopes, the place.            *)
(***************************************************************************)
Contexts == [cls : Class, static : BOOLEAN, returns : KnownTypes,
             sins : SUBSET STRING, reversed : BOOLEAN, ub : {"ends", "goes on"}]
Variables == [name : STRING, type : Types, from : Nat, to : Nat, at : Seq(Nat)]
Environments == [m : Contexts, init : BOOLEAN, chain : Seq(Seq(Variables)),
                 idx : Nat, at : Seq(Nat)]

(***************************************************************************)
(* statement::resolve and resolve_value, for values: a value without a     *)
(* type is not one, and is not reported.  The index of the statement       *)
(* reaches neither the operand of a cast nor the size of a new array, as   *)
(* their nodes do not pass it on.  resolved[v][e] is what resolving an     *)
(* operand v leaves.                                                       *)
(***************************************************************************)
WithType(v, r) ==
    IF r.ok /\ ~r.ended /\ r.ty = Absent THEN Hole(v, r, Absent) ELSE r
Unindexed(e) == [e EXCEPT !.idx = SizeMax]

\* resolve_arguments: every one of them, whether or not one failed.
ResolveEach(resolved, vs, e) ==
    [r   |-> InTurn([n \in DOMAIN vs |-> resolved[vs[n]][e]]),
     tys |-> [n \in DOMAIN vs |-> resolved[vs[n]][e].ty]]

ResolveFrom(resolved, v, e) ==
    LET Of(w, in) == WithType(w, resolved[w][in])
    IN  CASE v.k = "name" -> NameValue(v, e)
          [] v.k \in {"call", "new"} ->
                CallValue(v, ResolveEach(resolved, v.args, e),
                          IF v.k = "call" /\ v.assoc = "expr"
                          THEN resolved[v.recv][e] ELSE Result(Absent), e)
          [] v.k = "binary" -> BinaryValue(v, Of(v.l, e), Of(v.r, e))
          [] v.k = "unary" -> Of(v.c, e)
          [] v.k = "length" -> LengthValue(Of(v.c, e))
          [] v.k = "access" -> AccessValue(v, Of(v.a, e), Of(v.i, e))
          [] v.k = "cast" -> CastValue(v, Of(v.c, Unindexed(e)))
          [] v.k = "newarray" -> NewArrayValue(v, Of(v.d, Unindexed(e)))
          [] v.k = "range" ->
                Typed(Both(Both(Of(v.l, e), Of(v.r, e)), Of(v.s, e)), RangeType)
          [] v.k = "literal" -> Result(v.t)

Resolve[v \in Values] == [e \in Environments |-> ResolveFrom(Resolve, v, e)]
Value(v, e) == WithType(v, Resolve[v][e])

(***************************************************************************)
(* Assignments.  A variable's get_left() is the variable, whatever cast it *)
(* was wrapped in; that of an element is the cast.                         *)
(***************************************************************************)
(* Mutant: a variable on the left is looked at through the widening cast. *)
WrappedVariable(left, right) == Wrapped(left, right)

LeftVariable(left, right) == left
LeftElement(left, right) == Wrapped(left, right)

Assigned(l, r, left, how) ==
    IF Both(l, r).ok
    THEN ReportIf(/\ ~TypesMatch(left, WrappedRight(r.ty, l.ty))
                  /\ ~PolyCasts(WrappedRight(r.ty, l.ty), left),
                  Put(Both(l, r), l.ty, r.ty, how), "operands mismatch")
    ELSE Both(l, r)

AssignVariable(l, r) == Assigned(l, r, LeftVariable(l.ty, r.ty), "assign")
AssignElement(l, r) == Assigned(l, r, LeftElement(l.ty, r.ty), "element")

\* is_condition_boolean asks for the type of what was not resolved, too.
Conditioned(c, inner) ==
    IF c.ty = Throws THEN [Both(c, inner) EXCEPT !.ended = TRUE]
    ELSE ReportIf(c.ty.base # "boolean",
            IF c.ok THEN Put(Both(c, inner), Type("boolean"), c.ty, "condition")
            ELSE Both(c, inner), "not a condition")

\* Only a range is a collection.
ForValue(s, coll, first, inner) ==
    IF s.coll.k = "range"
    THEN Put(Both(coll, inner), s.t, first, "iterate")
    ELSE Report(Both(coll, inner), "not a collection")

\* The iterator has a scope of its own around that of the body.
Iterator(s, e) ==
    <<[name |-> s.x, type |-> s.t, from |-> 0, to |-> SizeMax, at |-> e.at]>>
Around(locals_, e) == [e EXCEPT !.chain = <<locals_>> \o @]

ReturnValue(v, e) ==
    IF ~v.ok THEN v
    ELSE ReportIf(~Compatible(v.ty, e.m.returns),
            Put(v, e.m.returns, v.ty, "return"), "return mismatch")

(***************************************************************************)
(* statement::resolve for statements, and resolve_scope: every statement   *)
(* of an inner scope in turn, with the indexes of that scope.              *)
(***************************************************************************)
StatementAt(e, n) == [e EXCEPT !.idx = n - 1, !.at = Append(@, n)]

\* The n-th inner scope of a statement; done[s][e] is what s in it leaves.
Nested(done, stmts, n, e) ==
    LET path == Append(e.at, n)
        inner == [Around(LocalsOf(stmts, path), e) EXCEPT !.at = path]
    IN  InTurn([i \in DOMAIN stmts |-> done[stmts[i]][StatementAt(inner, i)]])

Otherwise(done, s, e) ==
    IF Len(s.bodies) > Len(s.conds)
    THEN Nested(done, Last(s.bodies), Len(s.bodies), e) ELSE Result(Absent)

Branches(done, s, e) ==
    [n \in DOMAIN s.conds |->
        Conditioned(Value(s.conds[n], e), Nested(done, s.bodies[n], n, e))]

StatementFrom(done, s, e) ==
    CASE s.k = "let" -> AssignVariable(DeclaredVariable(s, e), Value(s.v, e))
      [] s.k = "assign" -> AssignVariable(Value(s.target, e), Value(s.v, e))
      [] s.k = "assignelement" ->
            AssignElement(Value(s.target, e), Value(s.v, e))
      [] s.k = "if" -> Both(InTurn(Branches(done, s, e)), Otherwise(done, s, e))
      [] s.k = "while" -> Conditioned(Value(s.c, e), Nested(done, s.body, 1, e))
      [] s.k = "for" ->
            ForValue(s, Value(s.coll, e),
                     IF s.coll.k = "range" THEN Resolve[s.coll.l][e].ty
                     ELSE Absent,
                     Nested(done, s.body, 1, Around(Iterator(s, e), e)))
      [] s.k = "return" -> ReturnValue(Value(s.v, e), e)
      [] s.k \in {"super", "end"} -> Result(Absent)
      [] OTHER -> Resolve[s][e]

Statement[s \in Statements] ==
    [e \in Environments |-> StatementFrom(Statement, s, e)]
-----------------------------------------------------------------------------
VARIABLES
    method,     \* the body being analysed, as written
    body,       \* its statements with their indexes: prepare() changes them
    locals,     \* the local variables of its scope, parameters first
    phase,      \* parse, prepare, collect, resolve, done
    next,       \* the statement resolve_method_bodies looks at next
    out         \* what was reported and found so far

vars == <<method, body, locals, phase, next, out>>

IsInitializer == method.kind = "initializer"

Init ==
    /\ method \in Cases
    /\ body = <<>> /\ locals = <<>> /\ phase = "parse" /\ next = 1
    /\ out = Result(Absent)

(***************************************************************************)
(* parse_method_scope: parameters enter the scope while it is empty.       *)
(***************************************************************************)
Parse ==
    /\ phase = "parse"
    /\ body' = [n \in DOMAIN method.stmts |->
                    [s |-> method.stmts[n], idx |-> n - 1, at |-> <<n>>]]
    /\ LET last == IF method.stmts = <<>> THEN SizeMax
                   ELSE Len(method.stmts) - 1
           params == [n \in DOMAIN method.params |->
                        [method.params[n] EXCEPT !.to = last]]
       IN  locals' = params \o LocalsOf(method.stmts, <<>>)
    /\ phase' = IF IsInitializer THEN "resolve" ELSE "prepare"
    /\ UNCHANGED <<method, next, out>>

StartsWith(kind) == body # <<>> /\ Head(body).s.k = kind

(* Mutant: push_front_statement leaves the ranges of the variables alone. *)
UnshiftedLocals(vars_) == vars_

\* push_front_statement moves the statements and the variables by one.
Next1(n) == (n + 1) % (SizeMax + 1)
ShiftedLocals(vars_) ==
    [n \in DOMAIN vars_ |-> [vars_[n] EXCEPT !.from = Next1(@),
                                             !.to = Next1(@)]]
ShiftedBody == [n \in DOMAIN body |-> [body[n] EXCEPT !.idx = @ + 1]]

(***************************************************************************)
(* add_default_super_call and add_default_return_statement.                *)
(***************************************************************************)
Prepare ==
    /\ phase = "prepare"
    /\ LET super == method.kind = "constructor" /\ ~StartsWith("super")
           called == IF super
                     THEN <<[s |-> [k |-> "super"], idx |-> 0, at |-> <<0>>]>>
                          \o ShiftedBody
                     ELSE body
           returns == /\ method.returns = Type("void")
                      /\ (called = <<>> \/ Head(called).s.k # "return")
           n == Len(called)
       IN  /\ locals' = IF super THEN ShiftedLocals(locals) ELSE locals
           /\ body' = IF returns
                      THEN Append(called, [s |-> [k |-> "end"], idx |-> n,
                                           at |-> <<n + 1>>])
                      ELSE called
    /\ phase' = "collect"
    /\ UNCHANGED <<method, next, out>>

(***************************************************************************)
(* Pass two makes symbols of the variables of all scopes and numbers them  *)
(* for the whole method; pass three resolves their types.                  *)
(***************************************************************************)
Collect ==
    /\ phase = "collect"
    /\ out' = ReportIf(\E t \in SymbolTypes(locals)
                            \cup UNION {InnerTypes[body[n].s] : n \in DOMAIN body} :
                          ~Known(Type(t.base)),
                       out, "no such type")
    /\ phase' = "resolve"
    /\ UNCHANGED <<method, body, locals, next>>

Context ==
    [cls |-> method.cls, static |-> method.static, returns |-> method.returns,
     sins |-> method.sins, reversed |-> method.reversed, ub |-> method.ub]

Environment(n) ==
    [m |-> Context, init |-> FALSE, chain |-> <<locals>>,
     idx |-> body[n].idx, at |-> body[n].at]

ResolveStatement ==
    /\ phase = "resolve" /\ ~IsInitializer
    /\ next <= Len(body) /\ ~out.ended
    /\ out' = Both(out, Statement[body[next].s][Environment(next)])
    /\ next' = next + 1
    /\ UNCHANGED <<method, body, locals, phase>>

(***************************************************************************)
(* field_declaration::resolve: the value of a field is resolved on its own *)
(* and its type is not compared with the field's.                          *)
(***************************************************************************)
ResolveInitializer ==
    /\ phase = "resolve" /\ IsInitializer /\ next = 1
    /\ LET e == [m |-> Context, init |-> TRUE, chain |-> <<>>,
                 idx |-> SizeMax, at |-> <<1>>]
           r == Resolve[body[1].s][e]
       IN  out' = IF ~method.static
                  THEN Report(out, "initialised per object")
                  ELSE IF r.ok /\ ~r.ended
                  THEN Put(r, method.returns, r.ty, "initializer") ELSE r
    /\ next' = 2
    /\ UNCHANGED <<method, body, locals, phase>>

Finish ==
    /\ phase = "resolve" /\ (next > Len(body) \/ out.ended)
    /\ phase' = "done"
    /\ UNCHANGED <<method, body, locals, next, out>>

Done == phase = "done" /\ UNCHANGED vars

Next == \/ Parse \/ Prepare \/ Collect \/ ResolveStatement
        \/ ResolveInitializer \/ Finish \/ Done

Spec == Init /\ [][Next]_vars
-----------------------------------------------------------------------------
Accepted == phase = "done" /\ out.errs = {} /\ ~out.ended

(***************************************************************************)
(* No name, call or element that was left without a meaning gets past the  *)
(* analyzer: something is reported before code is generated for it or an   *)
(* exception ends the run.  Two things are not: a second variable of one   *)
(* name in a scope, whose symbol is destroyed, and the names in the        *)
(* initialiser of a field.                                                 *)
(***************************************************************************)
HolesReported ==
    (phase = "done" /\ out.errs = {}) =>
        IsInitializer \/ \A v \in out.holes : v.k = "let"

(***************************************************************************)
(* In a body that was accepted every value fits the place it was put in:   *)
(* of the same type, or widening or referring up to it.  What the code     *)
(* does not look at is listed: whether a type is an array when the base    *)
(* types go together; the type of a field's initial value; the iterator of *)
(* a for; the caller's `this' passed to the method of another type; an     *)
(* element of a narrower type than its value; and a range assigned to a    *)
(* variable whose type does not exist either, which goes unreported for a  *)
(* second variable of its name only.                                       *)
(***************************************************************************)
Fits(got, want) ==
    \/ got = want
    \/ got.dims = 0 /\ want.dims = 0 /\ Widens(got, want)
    \/ got.dims = want.dims /\ PolyCasts(got, want)
    \/ got.base = "null" /\ (want.dims > 0 \/ ~IsPrimitive(want))

ArrayOverlooked(got, want) ==
    /\ got.dims + want.dims > 0
    /\ \/ got.base = want.base
       \/ Widens(got, want)
       \/ PolyCasts(got, want)

Overlooked(p) ==
    \/ ArrayOverlooked(p.got, p.want)
    \/ p.how \in {"initializer", "iterate", "implicit this"}
    \/ p.how = "element" /\ Widens(p.want, p.got)
    \/ p.how = "assign" /\ ~Known(p.want) /\ ~Known(p.got)

ValuesFit ==
    Accepted => \A p \in out.puts : Fits(p.got, p.want) \/ Overlooked(p)

(***************************************************************************)
(* In a body that was accepted every local variable is read after its      *)
(* declaration, through the shift a super call brings.  Not looked at are: *)
(* a variable in its own initial value, reads from an inner scope and the  *)
(* receiver of a call.                                                     *)
(***************************************************************************)
Before(p, q) ==
    \E n \in DOMAIN p \cap DOMAIN q :
        /\ \A i \in 1..(n - 1) : p[i] = q[i]
        /\ \/ p[n] < q[n]
           \/ p[n] = q[n] /\ Len(p) = n /\ Len(q) > n

ReadsAfterDeclaration ==
    Accepted => \A r \in out.reads :
        \/ Before(r.decl, r.at)
        \/ r.decl = r.at
        \/ Len(r.decl) < Len(r.at)
        \/ r.how = "receiver"

(***************************************************************************)
(* A variable is reported as read before its creation only where it is, as *)
(* the example of the assignment operators takes for granted: it adds a    *)
(* variable of its method, cast to a float, to another.                    *)
(***************************************************************************)
DeclaredReadsAccepted ==
    (phase = "done" /\ "before creation" \in out.errs) =>
        \E r \in out.reads : r.decl # r.at /\ ~Before(r.decl, r.at)
=============================================================================
