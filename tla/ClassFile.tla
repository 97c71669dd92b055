------------------------------- MODULE ClassFile -------------------------------
(***************************************************************************)
(* One class, from its accepted declaration to the symbols another         *)
(* compilation reads: the class_file structure (class_file_builder.cpp),   *)
(* the bytes of it (class_file_writer.cpp), and those bytes read by the    *)
(* compiler's own loader (class_file_loader.cpp), which skips what it does *)
(* not need by the lengths the builder computed before anything was        *)
(* written.                                                                *)
(*                                                                         *)
(* A text is a sequence of tokens, each of them one byte: the characters   *)
(* of a descriptor, or a whole name.  The bytes of numbers are 0 .. 255,   *)
(* those of tokens are told apart from them by adding 256.                 *)
(***************************************************************************)
EXTENDS Integers, FiniteSets, SequencesExt

CONSTANTS Classes,  \* the declarations to compile
          Tokens,   \* the tokens of their texts, in some order
          Cuts,     \* how many of its last bytes a file may lose
          Stale     \* what an uninitialized byte may hold

ASSUME TokensDistinct == \A i, j \in DOMAIN Tokens : Tokens[i] = Tokens[j] => i = j

VARIABLES decl,     \* the declaration
          phase,    \* what happens next
          class,    \* the structure that is built, or what there is of it
          file,     \* the bytes written
          stale,    \* what a read past their end gives
          pos,      \* how many of them the loader has read
          slot,     \* the index of the constant it reads
          strings,  \* its cp_strings
          refs,     \* its class_ref_indices
          left,     \* the members it has still to read
          methodsAt,\* where the methods start
          symbol    \* the type symbol it fills

built  == <<decl, class>>
loaded == <<stale, pos, slot, strings, refs, left, methodsAt, symbol>>
vars   == <<decl, phase, class, file, stale, pos, slot, strings, refs, left, methodsAt, symbol>>

Concat(Op(_), s) == FlattenSeq([i \in DOMAIN s |-> Op(s[i])])
Total(Op(_), s)  == FoldSeq(LAMBDA x, sum : sum + Op(x), 0, s)
FirstThat(P(_), s) == LET hits == {i \in DOMAIN s : P(s[i])}
                      IN IF hits = {} THEN 0 ELSE CHOOSE i \in hits : \A j \in hits : i <= j

-----------------------------------------------------------------------------
(* Types, attributes and their texts. *)

Letters == {"B", "C", "D", "F", "I", "J", "S", "Z", "V"}

TypeText(ty) == [i \in 1 .. ty.dims |-> "["] \o
                (IF ty.base \in Letters THEN <<ty.base>> ELSE <<"L", ty.base, ";">>)

ThisOf(c)     == [dims |-> 0, base |-> c.name]
(* add_this_param_to_non_static_methods *)
Parameters(c, m) == (IF m.attrs.static THEN <<>> ELSE <<ThisOf(c)>>) \o m.params

ParametersText(c, m) ==
  Concat(TypeText, IF m.attrs.static THEN Parameters(c, m) ELSE Tail(Parameters(c, m)))
MethodText(c, m)   == <<"(">> \o ParametersText(c, m) \o <<")">> \o TypeText(m.ret)

VisibilityFlag(v) == CASE v = "public" -> 1 [] v = "private" -> 2 [] v = "protected" -> 4 [] OTHER -> 0
AccessFlags(a) == VisibilityFlag(a.visibility) + (IF a.static THEN 8 ELSE 0)
                  + (IF a.final THEN 16 ELSE 0) + (IF a.abstract THEN 1024 ELSE 0)
SuperPublic    == 32 + 1

Has(flags, flag) == (flags \div flag) % 2 = 1
FlagsToAttributes(flags) ==
  [visibility |-> CASE Has(flags, 1) -> "public"  [] Has(flags, 2) -> "private"
                    [] Has(flags, 4) -> "protected" [] OTHER -> "package",
   static   |-> Has(flags, 8),
   final    |-> Has(flags, 16),
   abstract |-> Has(flags, 1024) \/ Has(flags, 512)]

-----------------------------------------------------------------------------
(* The constant pool: its slots in order, Phantom after a wide constant. *)

Utf8(text)          == [tag |-> "Utf8", text |-> text, refs |-> <<>>]
Composed(tag, es)   == [tag |-> tag, text |-> <<>>, refs |-> es]
Literal(tag)        == Composed(tag, <<>>)
ClassRef(name)      == Composed("Class", <<Utf8(name)>>)
NameAndType(n, d)   == Composed("NameAndType", <<Utf8(n), Utf8(d)>>)
Member(tag, c, n, d) == Composed(tag, <<ClassRef(c), NameAndType(n, d)>>)
WideConstant(e)     == e.tag \in {"Long", "Double"}
Phantom             == Literal("Phantom")

RECURSIVE WithParts(_)
WithParts(e) == Concat(WithParts, e.refs) \o <<e>>

Goc(pool, e) == IF Contains(pool, e) THEN pool
                ELSE pool \o (IF WideConstant(e) THEN <<e, Phantom>> ELSE <<e>>)

(* A class entry for what a frame may hold: the descriptor of an array, the *)
(* name of a class.                                                         *)
FrameClass(ty) == IF ty.dims > 0 THEN <<ClassRef(TypeText(ty))>>
                  ELSE IF ty.base \in Letters THEN <<>> ELSE <<ClassRef(<<ty.base>>)>>
VariableConstants(v) == <<Utf8(<<v.name>>), Utf8(TypeText(v.type))>> \o FrameClass(v.type)

StaticInit(f) == f.value # "none" /\ f.attrs.static
FieldConstants(c, f) ==
  VariableConstants(f) \o
  (IF StaticInit(f)
     THEN <<Utf8(<<"<clinit>">>), Utf8(<<"(", ")", "V">>), Literal(f.value),
            Member("Fieldref", <<c.name>>, <<f.name>>, TypeText(f.type))>>
     ELSE <<>>)

MethodConstants(c, m) ==
  <<Utf8(<<"Code">>), Utf8(<<"LocalVariableTable">>)>> \o
  (IF m.inner THEN <<Utf8(<<"StackMapTable">>)>> ELSE <<>>) \o
  (IF m.sins # <<>> THEN <<Utf8(<<"Exceptions">>)>> ELSE <<>>) \o
  [i \in DOMAIN m.sins |-> ClassRef(<<m.sins[i]>>)] \o
  Concat(VariableConstants, SubSeq(m.locals, 1, Len(Parameters(c, m)))) \o
  <<NameAndType(<<m.name>>, MethodText(c, m))>> \o
  Concat(VariableConstants, m.locals) \o
  [i \in DOMAIN m.literals |-> Literal(m.literals[i])]

ClassConstants(c) ==
  <<Utf8(<<"source">>), Utf8(<<"SourceFile">>), ClassRef(<<c.name>>),
    Utf8(TypeText(ThisOf(c))), ClassRef(<<c.super>>)>> \o
  [i \in DOMAIN c.interfaces |-> ClassRef(<<c.interfaces[i]>>)] \o
  <<Member("Methodref", <<c.super>>, <<"<init>">>, <<"(", ")", "V">>)>> \o
  Concat(LAMBDA f : FieldConstants(c, f), c.fields) \o
  Concat(LAMBDA m : MethodConstants(c, m), c.methods)

Pool      == class.pool
IndexOf(pool, e)  == CHOOSE i \in DOMAIN pool : pool[i] = e
TextIndex(text)   == IndexOf(Pool, Utf8(text))
ClassIndex(name)  == IndexOf(Pool, ClassRef(name))

-----------------------------------------------------------------------------
(* Building the structure.  A length is what is declared, not what follows. *)

Attribute(name, length, body) == [name |-> TextIndex(<<name>>), length |-> length,
                                  kind |-> name, body |-> body]

VerificationSize(ty) == IF FrameClass(ty) # <<>> THEN 3 ELSE 1
(* Mutant: every local of a full frame is taken for one byte. *)
FrameSizeFlat(f) ==
  CASE f.kind = "same" -> 1 [] f.kind \in {"same_extended", "chop"} -> 3
    [] f.kind = "append" -> 3 + Total(VerificationSize, f.locals)
    [] f.kind = "full"   -> 7 + Len(f.locals)
FrameSize(f) ==
  CASE f.kind = "same" -> 1 [] f.kind \in {"same_extended", "chop"} -> 3
    [] f.kind = "append" -> 3 + Total(VerificationSize, f.locals)
    [] f.kind = "full"   -> 7 + Total(VerificationSize, f.locals)

StackMapTable(m) == Attribute("StackMapTable", 2 + Total(FrameSize, m.frames), m.frames)

LocalVariableTable(m) ==
  Attribute("LocalVariableTable", 2 + 10 * Len(m.locals),
    [i \in DOMAIN m.locals |->
       <<m.locals[i].start, m.locals[i].length, TextIndex(<<m.locals[i].name>>),
         TextIndex(TypeText(m.locals[i].type)), m.locals[i].index>>])

(* finalize_code_attr *)
CodeAttribute(stack, slots, size, attributes) ==
  Attribute("Code", 12 + Total(LAMBDA a : 6 + a.length, attributes) + size,
            [stack |-> stack, slots |-> slots, size |-> size, attributes |-> attributes])

ExceptionsAttribute(m) ==
  Attribute("Exceptions", 2 + 2 * Len(m.sins), [i \in DOMAIN m.sins |-> ClassIndex(<<m.sins[i]>>)])

Entry(flags, name, text, attributes) ==
  [flags |-> flags, name |-> TextIndex(<<name>>), descriptor |-> TextIndex(text),
   attributes |-> attributes]

MethodEntry(m) ==
  Entry(AccessFlags(m.attrs), m.name, MethodText(decl, m),
        <<CodeAttribute(m.stack, m.slots, m.size,
                        <<LocalVariableTable(m)>> \o (IF m.inner THEN <<StackMapTable(m)>> ELSE <<>>))>>
        \o (IF m.sins # <<>> THEN <<ExceptionsAttribute(m)>> ELSE <<>>))

(* The pool is filled before the builder is made, and not changed by it. *)
EmitConstants ==
  /\ phase = "emit"
  /\ class' = [pool |-> FoldLeft(Goc, Pool, WithParts(Head(class.todo))), todo |-> Tail(class.todo)]
  /\ phase' = IF Len(class.todo) = 1 THEN "build" ELSE "emit"
  /\ UNCHANGED <<decl, file, loaded>>

(* The class is public whatever its attributes say. *)
Build ==
  /\ phase = "build"
  /\ class' = [pool |-> Pool, flags |-> SuperPublic,
               this |-> ClassIndex(<<decl.name>>), super |-> ClassIndex(<<decl.super>>),
               interfaces |-> [i \in DOMAIN decl.interfaces |-> ClassIndex(<<decl.interfaces[i]>>)],
               fields |-> <<>>, methods |-> <<>>, attributes |-> <<>>]
  /\ phase' = "members"
  /\ UNCHANGED <<decl, file, loaded>>

AddField ==
  /\ phase = "members" /\ Len(class.fields) < Len(decl.fields)
  /\ LET f == decl.fields[Len(class.fields) + 1]
     IN class' = [class EXCEPT !.fields =
                    Append(@, Entry(AccessFlags(f.attrs), f.name, TypeText(f.type), <<>>))]
  /\ UNCHANGED <<decl, phase, file, loaded>>

AddMethod ==
  /\ phase = "members" /\ Len(class.fields) = Len(decl.fields)
  /\ Len(class.methods) < Len(decl.methods)
  /\ class' = [class EXCEPT !.methods = Append(@, MethodEntry(decl.methods[Len(@) + 1]))]
  /\ UNCHANGED <<decl, phase, file, loaded>>

StaticInitFields == SelectSeq(decl.fields, StaticInit)
(* Each initialiser loads its value and puts it in three bytes; a return    *)
(* ends the code.                                                           *)
StaticInitializer ==
  Entry(8, "<clinit>", <<"(", ")", "V">>,
        <<CodeAttribute(2, 0, Total(LAMBDA f : f.size + 3, StaticInitFields) + 1, <<>>)>>)

Initializers == IF StaticInitFields = <<>> THEN <<>> ELSE <<StaticInitializer>>

FinishBuild ==
  /\ phase = "members"
  /\ Len(class.fields) = Len(decl.fields) /\ Len(class.methods) = Len(decl.methods)
  /\ class' = [class EXCEPT
       !.methods = @ \o Initializers,
       !.attributes = <<Attribute("SourceFile", 2, <<TextIndex(<<"source">>)>>)>>]
  /\ phase' = "write"
  /\ UNCHANGED <<decl, file, loaded>>

-----------------------------------------------------------------------------
(* Writing. *)

Bytes(width, n)  == [i \in 1 .. width |-> (n \div 256 ^ (width - i)) % 256]
U1(n)            == Bytes(1, n)
U2(n)            == Bytes(2, n)
U4(n)            == Bytes(4, n)
TokenByte(token) == 256 + (CHOOSE i \in DOMAIN Tokens : Tokens[i] = token)
TextBytes(text)  == [i \in DOMAIN text |-> TokenByte(text[i])]

TagNumber(tag) ==
  CASE tag = "Utf8" -> 1 [] tag = "Integer" -> 3 [] tag = "Float" -> 4 [] tag = "Long" -> 5
    [] tag = "Double" -> 6 [] tag = "Class" -> 7 [] tag = "String" -> 8 [] tag = "Fieldref" -> 9
    [] tag = "Methodref" -> 10 [] tag = "NameAndType" -> 12

ConstantBytes(e) ==
  U1(TagNumber(e.tag)) \o
  (CASE e.tag = "Utf8"               -> U2(Len(e.text)) \o TextBytes(e.text)
     [] e.tag \in {"Integer", "Float"} -> U4(1)
     [] WideConstant(e)              -> U4(0) \o U4(1)
     [] OTHER                        -> Concat(LAMBDA r : U2(IndexOf(Pool, r)), e.refs))

VerificationBytes(ty) ==
  IF FrameClass(ty) # <<>> THEN U1(7) \o U2(IndexOf(Pool, FrameClass(ty)[1]))
  ELSE U1(CASE ty.base = "J" -> 4 [] ty.base = "D" -> 3 [] ty.base = "F" -> 2
            [] ty.base = "top" -> 0 [] OTHER -> 1)

FrameBytes(f) ==
  CASE f.kind = "same"          -> U1(f.delta)
    [] f.kind = "same_extended" -> U1(251) \o U2(f.delta)
    [] f.kind = "chop"          -> U1(251 - f.chopped) \o U2(f.delta)
    [] f.kind = "append"        -> U1(251 + Len(f.locals)) \o U2(f.delta)
                                   \o Concat(VerificationBytes, f.locals)
    [] f.kind = "full"          -> U1(255) \o U2(f.delta) \o U2(Len(f.locals))
                                   \o Concat(VerificationBytes, f.locals) \o U2(0)

RECURSIVE AttributeBytes(_)
AttributeBytes(a) ==
  U2(a.name) \o U4(a.length) \o
  (CASE a.kind = "Code" -> U2(a.body.stack) \o U2(a.body.slots) \o U4(a.body.size)
                           \o [i \in 1 .. a.body.size |-> 177] \o U2(0)
                           \o U2(Len(a.body.attributes)) \o Concat(AttributeBytes, a.body.attributes)
     [] a.kind = "LocalVariableTable" -> U2(Len(a.body)) \o Concat(LAMBDA e : Concat(U2, e), a.body)
     [] a.kind = "StackMapTable"      -> U2(Len(a.body)) \o Concat(FrameBytes, a.body)
     [] a.kind = "SourceFile"         -> U2(a.body[1])
     [] a.kind = "Exceptions"         -> U2(Len(a.body)) \o Concat(U2, a.body))

EntryBytes(e) == U2(e.flags) \o U2(e.name) \o U2(e.descriptor)
                 \o U2(Len(e.attributes)) \o Concat(AttributeBytes, e.attributes)

Magic == <<202, 254, 186, 190>>
Slots == SelectSeq(Pool, LAMBDA e : e # Phantom)

WholeFile == Magic \o U2(0) \o U2(65) \o U2(Len(Pool) + 1) \o Concat(ConstantBytes, Slots)
             \o U2(class.flags) \o U2(class.this) \o U2(class.super)
             \o U2(Len(class.interfaces)) \o Concat(U2, class.interfaces)
             \o U2(Len(class.fields)) \o Concat(EntryBytes, class.fields)
             \o U2(Len(class.methods)) \o Concat(EntryBytes, class.methods)
             \o U2(Len(class.attributes)) \o Concat(AttributeBytes, class.attributes)

(* Nobody looks at the state of the stream after a write: on a full disk    *)
(* the file is shorter.                                                     *)
WriteToFile ==
  /\ phase = "write"
  /\ \E cut \in Cuts : file' = SubSeq(WholeFile, 1, Len(WholeFile) - cut)
  /\ stale' \in IF file' = WholeFile THEN {0} ELSE Stale
  /\ phase' = "load"
  /\ UNCHANGED <<built, pos, slot, strings, refs, left, methodsAt, symbol>>

-----------------------------------------------------------------------------
(* Loading.  A read past the end of the file leaves the byte as it was, and *)
(* it was never set; one file reads the same one all along.                 *)

Byte(at)        == IF at < Len(file) THEN file[at + 1] % 256 ELSE stale
U(at, width)    == FoldLeft(LAMBDA n, i : 256 * n + Byte(at + i - 1), 0, [i \in 1 .. width |-> i])
TextAt(at, len) == [i \in 1 .. len |->
                      IF at + i <= Len(file) /\ file[at + i] >= 256 THEN Tokens[file[at + i] - 256] ELSE "?"]

Throw == phase' = "threw" /\ UNCHANGED <<built, file, loaded>>

ReadHeader ==
  /\ phase = "load"
  /\ pos' = 10 /\ slot' = 1
  /\ phase' = IF IsPrefix(Magic, file) THEN "constants" ELSE "threw"
  /\ UNCHANGED <<built, file, stale, strings, refs, left, methodsAt, symbol>>

ConstantCount == U(8, 2)
Operands(tag) == CASE tag \in {3, 4, 9, 10, 11, 12, 17, 18} -> 4
                   [] tag \in {5, 6} -> 8 [] tag \in {8, 16, 19, 20} -> 2 [] tag = 15 -> 3
                   [] OTHER -> -1
(* Mutant: the loop counts a wide constant once. *)
SlotsTakenOne(tag) == 1
SlotsTaken(tag) == IF tag \in {5, 6} THEN 2 ELSE 1

ParseConstant ==
  /\ phase = "constants" /\ slot < ConstantCount
  /\ LET tag  == Byte(pos)
         next(width) == /\ pos' = pos + 1 + width
                        /\ slot' = slot + SlotsTaken(tag)
                        /\ UNCHANGED <<built, phase, file, stale, left, methodsAt, symbol>>
     IN \/ /\ tag = 1
           /\ strings' = (slot :> TextAt(pos + 3, U(pos + 1, 2))) @@ strings
           /\ next(2 + U(pos + 1, 2)) /\ UNCHANGED refs
        \/ /\ tag = 7
           /\ refs' = (slot :> U(pos + 1, 2)) @@ refs
           /\ next(2) /\ UNCHANGED strings
        \/ /\ tag \notin {1, 7} /\ Operands(tag) >= 0
           /\ next(Operands(tag)) /\ UNCHANGED <<strings, refs>>
        \/ /\ tag \notin {1, 7} /\ Operands(tag) < 0
           /\ Throw

(* The names of the class references are looked up when all are read. *)
ResolveClassRefs ==
  /\ phase = "constants" /\ slot >= ConstantCount
  /\ \/ /\ \E i \in DOMAIN refs : refs[i] \notin DOMAIN strings
        /\ Throw
     \/ /\ \A i \in DOMAIN refs : refs[i] \in DOMAIN strings
        /\ strings' = strings @@ [i \in DOMAIN refs |-> strings[refs[i]]]
        /\ phase' = "type"
        /\ UNCHANGED <<built, file, stale, pos, slot, refs, left, methodsAt, symbol>>

Known(is) == \A i \in is : i \in DOMAIN strings

ParseType ==
  /\ phase = "type"
  /\ LET count == U(pos + 6, 2)
         named == <<U(pos + 2, 2), U(pos + 4, 2)>> \o [i \in 1 .. count |-> U(pos + 6 + 2 * i, 2)]
         start == pos + 8 + 2 * count
     IN \/ ~Known(ToSet(named)) /\ Throw
        \/ /\ Known(ToSet(named))
           /\ symbol' = [name       |-> strings[named[1]],
                         super      |-> strings[named[2]],
                         interfaces |-> [i \in 1 .. count |-> strings[named[i + 2]]],
                         attrs      |-> FlagsToAttributes(U(pos, 2)),
                         fields     |-> <<>>, methods |-> <<>>]
           /\ left' = U(start, 2) /\ pos' = start + 2
           /\ phase' = "fields"
           /\ UNCHANGED <<built, file, stale, slot, strings, refs, methodsAt>>

(* from_descriptor: the type that starts at p, and where the next starts,   *)
(* or 0 when there is none.                                                 *)
NoType == [type |-> [dims |-> 0, base |-> "?"], after |-> 0]
TypeAt(text, p) ==
  LET letters == {i \in p .. Len(text) : text[i] # "["}
      at      == CHOOSE i \in letters : \A j \in letters : i <= j
      ends    == {i \in at + 1 .. Len(text) : text[i] = ";"}
      end     == CHOOSE i \in ends : \A j \in ends : i <= j
      found(base, after) == [type |-> [dims |-> at - p, base |-> base], after |-> after]
  IN IF letters = {} THEN NoType
     ELSE IF text[at] \in Letters THEN found(text[at], at + 1)
     ELSE IF text[at] = "L" /\ ends # {} THEN found(text[at + 1], end + 1)
     ELSE NoType

RECURSIVE TypesAt(_, _)
TypesAt(text, p) ==
  IF p > Len(text) \/ text[p] = ")" THEN <<>>
  ELSE LET first == TypeAt(text, p)
       IN IF first.after = 0 THEN <<first.type>> ELSE <<first.type>> \o TypesAt(text, first.after)

(* A stream that failed does not move. *)
AfterAttribute(at) == IF at + 6 > Len(file) THEN at ELSE at + 6 + U(at + 2, 4)
RECURSIVE SkipAttributes(_, _)
SkipAttributes(at, count) == IF count = 0 THEN at ELSE SkipAttributes(AfterAttribute(at), count - 1)

(* add_field_symbol, add_method_symbol: an emplace keeps what is there. *)
Emplace(table, key, value) == table @@ (key :> value)

ParseField ==
  /\ phase = "fields" /\ left > 0
  /\ LET names == {U(pos + 2, 2), U(pos + 4, 2)}
         text  == strings[U(pos + 4, 2)]
         readable == Known(names) => TypeAt(text, 1).after # 0
     IN \/ (Known(names) => ~readable) /\ Throw
        \/ /\ Known(names) /\ readable
           /\ symbol' = [symbol EXCEPT !.fields =
                 Emplace(@, strings[U(pos + 2, 2)],
                         [attrs |-> FlagsToAttributes(U(pos, 2)), type |-> TypeAt(text, 1).type])]
           /\ pos' = SkipAttributes(pos + 8, U(pos + 6, 2))
           /\ left' = left - 1
           /\ UNCHANGED <<built, phase, file, stale, slot, strings, refs, methodsAt>>

CountMethods ==
  /\ phase = "fields" /\ left = 0
  /\ left' = U(pos, 2) /\ pos' = pos + 2 /\ methodsAt' = pos + 2
  /\ phase' = "methods"
  /\ UNCHANGED <<built, file, stale, slot, strings, refs, symbol>>

(* The attributes of a method: where they end, and the sins of the last     *)
(* Exceptions among them.                                                   *)
RECURSIVE MethodAttributes(_, _, _)
MethodAttributes(at, count, sins) ==
  IF count = 0 THEN [after |-> at, sins |-> sins]
  ELSE IF U(at, 2) \in DOMAIN strings /\ strings[U(at, 2)] = <<"Exceptions">>
    THEN LET n == U(at + 6, 2)
         IN MethodAttributes(at + 8 + 2 * n, count - 1, [i \in 1 .. n |-> U(at + 6 + 2 * i, 2)])
    ELSE MethodAttributes(AfterAttribute(at), count - 1, sins)

ParseMethod ==
  /\ phase = "methods" /\ left > 0
  /\ LET read  == MethodAttributes(pos + 8, U(pos + 6, 2), <<>>)
         named == {U(pos + 2, 2), U(pos + 4, 2)} \cup ToSet(read.sins)
         text  == strings[U(pos + 4, 2)]
         close == FirstThat(LAMBDA t : t = ")", text)
         key   == <<strings[U(pos + 2, 2)], SubSeq(text, 2, close - 1)>>
         readable == Known(named) => close # 0 /\ TypeAt(text, close + 1).after # 0
     IN \/ (Known(named) => ~readable) /\ Throw
        \/ /\ Known(named) /\ readable
           /\ symbol' = [symbol EXCEPT !.methods =
                 Emplace(@, key, [attrs  |-> FlagsToAttributes(U(pos, 2)),
                                  params |-> TypesAt(text, 2),
                                  ret    |-> TypeAt(text, close + 1).type,
                                  sins   |-> [i \in DOMAIN read.sins |-> strings[read.sins[i]]]])]
           /\ pos' = read.after
           /\ left' = left - 1
           /\ UNCHANGED <<built, phase, file, stale, slot, strings, refs, methodsAt>>

FinishLoad ==
  /\ phase = "methods" /\ left = 0
  /\ phase' = "loaded"
  /\ UNCHANGED <<built, file, loaded>>

Stop == phase \in {"loaded", "threw"} /\ UNCHANGED vars

Init ==
  /\ decl \in Classes
  /\ phase = "emit"
  /\ class = [pool |-> <<>>, todo |-> ClassConstants(decl)] /\ file = <<>> /\ stale = 0
  /\ pos = 0 /\ slot = 0 /\ strings = <<>> /\ refs = <<>> /\ left = 0 /\ methodsAt = 0
  /\ symbol = [name |-> <<>>]

Next == \/ EmitConstants \/ Build \/ AddField \/ AddMethod \/ FinishBuild \/ WriteToFile
        \/ ReadHeader \/ ParseConstant \/ ResolveClassRefs \/ ParseType
        \/ ParseField \/ CountMethods \/ ParseMethod \/ FinishLoad \/ Stop

Spec == Init /\ [][Next]_vars

-----------------------------------------------------------------------------
(* The same bytes read by structure, as the class file format has them:    *)
(* where an attribute ends is told by what it counts, not by its length.   *)

Whole       == Len(file) = Len(WholeFile)
NameOf(at)  == Pool[U(at, 2)].text[1]
CodeEnd(at) == at + 14 + U(at + 10, 4)

LocalSize(at) == IF Byte(at) \in {7, 8} THEN 3 ELSE 1
RECURSIVE LocalsEnd(_, _)
LocalsEnd(at, n) == IF n = 0 THEN at ELSE LocalsEnd(at + LocalSize(at), n - 1)

FrameEnd(at) ==
  LET type == Byte(at)
  IN IF type < 64 THEN at + 1
     ELSE IF type \in 248 .. 251 THEN at + 3
     ELSE IF type \in 252 .. 254 THEN LocalsEnd(at + 3, type - 251)
     ELSE LocalsEnd(at + 5, U(at + 3, 2)) + 2
FrameDelta(at) == IF Byte(at) < 64 THEN Byte(at) ELSE U(at + 1, 2)
RECURSIVE FramesFrom(_, _)
FramesFrom(at, n) == IF n = 0 THEN <<at>> ELSE <<at>> \o FramesFrom(FrameEnd(at), n - 1)

RECURSIVE AttributeEnd(_), AttributesFrom(_, _)
AttributeEnd(at) ==
  CASE NameOf(at) = "Code"               -> LET table == CodeEnd(at) + 2 + 8 * U(CodeEnd(at), 2)
                                            IN Last(AttributesFrom(table + 2, U(table, 2)))
    [] NameOf(at) = "StackMapTable"      -> Last(FramesFrom(at + 8, U(at + 6, 2)))
    [] NameOf(at) = "LocalVariableTable" -> at + 8 + 10 * U(at + 6, 2)
    [] NameOf(at) = "Exceptions"         -> at + 8 + 2 * U(at + 6, 2)
    [] NameOf(at) = "SourceFile"         -> at + 8
(* Where count attributes start and the last of them ends. *)
AttributesFrom(at, count) ==
  IF count = 0 THEN <<at>> ELSE <<at>> \o AttributesFrom(AttributeEnd(at), count - 1)

RECURSIVE MethodsFrom(_, _)
MethodsFrom(at, count) ==
  IF count = 0 THEN <<at>>
  ELSE <<at>> \o MethodsFrom(Last(AttributesFrom(at + 8, U(at + 6, 2))), count - 1)
MethodStarts == MethodsFrom(methodsAt, U(methodsAt - 2, 2))

LengthsOf(starts) == \A i \in 1 .. Len(starts) - 1 : starts[i] + 6 + U(starts[i] + 2, 4) = starts[i + 1]
MethodStart(i)    == MethodStarts[i]
AttributesOf(i)   == AttributesFrom(MethodStart(i) + 8, U(MethodStart(i) + 6, 2))
InCodeOf(i)       == LET table == CodeEnd(AttributesOf(i)[1]) IN AttributesFrom(table + 4, U(table + 2, 2))
FramesOf(i)       == FramesFrom(InCodeOf(i)[2] + 8, U(InCodeOf(i)[2] + 6, 2))

-----------------------------------------------------------------------------
(* Properties. *)

(* What another compilation finds in the class is what its declaration     *)
(* says: every member with its own types, modifiers and sins, and nothing  *)
(* but them and the static initializer.  Two things are lost by the code,  *)
(* and nothing else is: the modifiers of the class itself (class_file_     *)
(* builder.cpp:56 writes ACC_PUBLIC for every class) and a field whose     *)
(* name an earlier field has.                                              *)
PlainAttributes == [visibility |-> "public", static |-> FALSE, final |-> FALSE, abstract |-> FALSE]
Shadowed(i)     == \E j \in 1 .. i - 1 : decl.fields[j].name = decl.fields[i].name
MemberKey(m)    == <<<<m.name>>, Concat(TypeText, m.params)>>
AsDeclared(m)   == [attrs |-> m.attrs, params |-> m.params, ret |-> m.ret,
                    sins |-> [i \in DOMAIN m.sins |-> <<m.sins[i]>>]]
InitializerKeys == IF StaticInitFields = <<>> THEN {} ELSE {<<<<"<clinit>">>, <<>>>>}
ReadsWhatWasDeclared ==
  phase \in {"loaded", "threw"} /\ Whole =>
    /\ phase = "loaded"
    /\ symbol.name = <<decl.name>> /\ symbol.super = <<decl.super>>
    /\ symbol.interfaces = [i \in DOMAIN decl.interfaces |-> <<decl.interfaces[i]>>]
    /\ symbol.attrs = decl.attrs \/ decl.attrs # PlainAttributes
    /\ DOMAIN symbol.fields = {<<f.name>> : f \in ToSet(decl.fields)}
    /\ \A i \in DOMAIN decl.fields :
         \/ symbol.fields[<<decl.fields[i].name>>] = [attrs |-> decl.fields[i].attrs, type |-> decl.fields[i].type]
         \/ Shadowed(i)
    /\ DOMAIN symbol.methods = {MemberKey(m) : m \in ToSet(decl.methods)} \cup InitializerKeys
    /\ \A m \in ToSet(decl.methods) : symbol.methods[MemberKey(m)] = AsDeclared(m)

(* Every attribute, in the class, in a method and in its code, is as long  *)
(* as the length written before it says, down to the last byte of the      *)
(* file, and the frames of a method are where its StackMapTable has them:  *)
(* the builder adds the lengths up from the sizes of frames, locals and    *)
(* nested attributes before the writer decides what their bytes are.       *)
LengthsTrue ==
  phase = "loaded" /\ Whole =>
    /\ Last(MethodStarts) = pos
    /\ \A i \in 1 .. Len(MethodStarts) - 1 : LengthsOf(AttributesOf(i)) /\ LengthsOf(InCodeOf(i))
    /\ LET own == AttributesFrom(pos + 2, U(pos, 2)) IN LengthsOf(own) /\ Last(own) = Len(file)
    /\ \A i \in DOMAIN decl.methods :
         decl.methods[i].inner =>
           [j \in DOMAIN decl.methods[i].frames |-> FrameDelta(FramesOf(i)[j])]
             = [j \in DOMAIN decl.methods[i].frames |-> decl.methods[i].frames[j].delta]

Refused(e) ==
  LET a == FlagsToAttributes(e.flags)
  IN \/ a.abstract /\ (e.attributes # <<>> \/ a.static \/ a.final \/ a.visibility = "private")
     \/ Pool[e.name].text = <<"<init>">> /\ (a.static \/ a.final \/ a.abstract)
TwiceIn(es) == \E i, j \in DOMAIN es : i # j /\ es[i].name = es[j].name /\ es[i].descriptor = es[j].descriptor

(* The format's rules hold in what is written.  Lengths are true.  Fields  *)
(* differ in name or type, an abstract method has no code and is neither   *)
(* static, private nor final, a constructor has no modifier but its        *)
(* visibility; declarations that break this are accepted, and they are     *)
(* the only way to a file the virtual machine refuses.                     *)
FormatKept ==
  /\ LengthsTrue
  /\ phase = "write" =>
    /\ TwiceIn(class.fields) => \E i \in DOMAIN decl.fields : Shadowed(i)
    /\ ~TwiceIn(class.methods)
    /\ \A e \in ToSet(class.methods) :
         Refused(e) => \E m \in ToSet(decl.methods) :
                         /\ Pool[e.name].text = <<m.name>>
                         /\ m.attrs.abstract \/ (m.name = "<init>" /\ (m.attrs.static \/ m.attrs.final))

==============================================================================
