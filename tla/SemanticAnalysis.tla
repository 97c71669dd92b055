------------------------- MODULE SemanticAnalysis -------------------------
(***************************************************************************)
(* The three-pass semantic analysis of codeshc (analyze_asts in main.cpp   *)
(* and semantic_analyzer/).  Every file goes through pass one (types enter *)
(* their country), every file through pass two (methods enter the          *)
(* overloads table of their type, under a key spelled as in the source),   *)
(* and then each file in turn through pass three: the signatures of its    *)
(* types are resolved, which MOVES each method to the key of its resolved  *)
(* parameter types; the abstract methods of its types are collected and    *)
(* checked; its bodies are resolved; its Bereshit methods are renamed.     *)
(*                                                                         *)
(* The overloads tables are keyed by strings which mean different things   *)
(* in different passes, the abstract methods are memoised the first time   *)
(* a type is reached, and files are analysed in the order the operating    *)
(* system lists them.  The module keeps these mechanisms and abstracts the *)
(* program text to its declarations.                                       *)
(***************************************************************************)
EXTENDS Integers, Sequences, FiniteSets

CONSTANTS
    File, Class, DeclId,    \* source files, types, method declarations
    Name, Notation,         \* method names, ways to spell a parameter type
    Programs,               \* the programs that may be compiled
    Widens,                 \* <<from, to>>: primitive widening conversions
    Bereshit, MainName,     \* the alias of main, and main
    StringArray,            \* the one parameter type of Bereshit
    External,               \* "file" of a type loaded from a class file
    NoFile, NoClass, NoDecl

(***************************************************************************)
(* A declaration and a call, as the parser leaves them after prepare().    *)
(* A method of a source class has no `this' in params: UnresolvedKey adds  *)
(* the one add_this_param prepends.                                        *)
(***************************************************************************)
Declaration == [cls: Class, name: Name, params: Seq(Notation),
                static: BOOLEAN, abstract: BOOLEAN, public: BOOLEAN]

Call == [from: DeclId, on: Class, name: Name, args: Seq(Notation)]

(***************************************************************************)
(* A program: where each type lives, what it extends and implements, how   *)
(* it is named, which type each notation denotes, its declarations (those  *)
(* in decls), its calls, and whether the parser reported a blasphemy.      *)
(***************************************************************************)
Program == [file: [Class -> File \cup {External}],
            super: [Class -> Class \cup {NoClass}],
            ifaces: [Class -> SUBSET Class],
            spelled: [Class -> Notation],
            denotes: [Notation -> Notation],
            decls: SUBSET DeclId,
            decl: [DeclId -> Declaration],
            calls: SUBSET Call,
            broken: BOOLEAN]

ASSUME ProgramsAssumption == Programs \subseteq Program
ASSUME ConstantsAssumption ==
    /\ Bereshit \in Name /\ MainName \in Name /\ Bereshit # MainName
    /\ StringArray \in Notation
    /\ Widens \subseteq Notation \X Notation
    /\ External \notin File /\ NoFile \notin File
    /\ NoClass \notin Class /\ NoDecl \notin DeclId
ASSUME FiniteFiles == IsFiniteSet(File)

(* A class file holds no two methods of one name and descriptor. *)
ASSUME ExternalsAssumption ==
    \A p \in Programs : \A d1, d2 \in p.decls :
        (/\ p.decl[d1].cls = p.decl[d2].cls /\ p.decl[d1].name = p.decl[d2].name
         /\ p.file[p.decl[d1].cls] = External
         /\ [i \in DOMAIN p.decl[d1].params |-> p.denotes[p.decl[d1].params[i]]]
              = [i \in DOMAIN p.decl[d2].params |-> p.denotes[p.decl[d2].params[i]]])
        => d1 = d2

VARIABLES
    prog,       \* the program being compiled (never changes)
    position,   \* the order in which the files are analysed (never changes)
    phase,      \* the pass, the stage of pass three, or the verdict
    left,       \* files the current pass has not begun
    file,       \* the file being processed
    types,      \* its types the current stage has not begun
    type,       \* the type whose signatures are being resolved
    pending,    \* method declarations the current stage has not processed
    declared,   \* types in the scopes of their countries
    overloads,  \* [cls, name, key, decl]: the overloads tables of all types
    rekeyed,    \* declarations whose signature has been resolved
    abstracts,  \* per type, the abstract methods memoised for it
    collected,  \* types whose abstract methods are memoised
    errors,     \* the blasphemies reported
    bound,      \* <<call, decl>>: the method each resolved call refers to
    mains       \* types registered as holding a Bereshit method

vars == <<prog, position, phase, left, file, types, type, pending, declared,
          overloads, rekeyed, abstracts, collected, errors, bound, mains>>

Verdicts == {"accepted", "rejected", "crashed"}

-----------------------------------------------------------------------------
(* The program *)

Decls == prog.decls
ClassesOf(f) == {c \in Class : prog.file[c] = f}
SourceClasses == {c \in Class : prog.file[c] # External}
MethodsOf(c) == {d \in Decls : prog.decl[d].cls = c}

MethodsIn(f) == {d \in Decls : prog.file[prog.decl[d].cls] = f}
IsSource(d) == prog.file[prog.decl[d].cls] # External
TypeName(c) == prog.denotes[prog.spelled[c]]

Denoted(s) == [i \in DOMAIN s |-> prog.denotes[s[i]]]

(* generate_parameters_descriptor(false): as spelled, `this' included. *)
UnresolvedKey(d) ==
    IF prog.decl[d].static THEN prog.decl[d].params
    ELSE <<prog.spelled[prog.decl[d].cls]>> \o prog.decl[d].params

(* generate_parameters_descriptor(): resolved types, `this' left out. *)
ResolvedKey(d) == Denoted(prog.decl[d].params)

Parents == [c \in Class |-> prog.ifaces[c] \cup ({prog.super[c]} \ {NoClass})]

(* Everything above c; it holds c itself when the hierarchy is cyclic. *)
Ancestors(c) ==
    {a \in Class : \A T \in SUBSET Class :
        Parents[c] \subseteq T /\ (\A t \in T : Parents[t] \subseteq T) => a \in T}

(* A recursion over the parents of c does not end. *)
Endless(c) == \E a \in Ancestors(c) \cup {c} : a \in Ancestors(a)

(* The classes reached from c by following super types, nearest first. *)
Walk(c) ==
    LET hop[n \in Nat] ==
            IF n = 0 THEN c
            ELSE IF hop[n - 1] = NoClass THEN NoClass ELSE prog.super[hop[n - 1]]
    IN  [n \in 0..Cardinality(Class) |-> hop[n]]
SuperChain(c) == {Walk(c)[n] : n \in DOMAIN Walk(c)} \ {NoClass}

Error(kind, c, d, k) == [kind |-> kind, cls |-> c, decl |-> d, key |-> k]

-----------------------------------------------------------------------------
(* The overloads tables: named_symbol_map *)

Slot(o) == <<o.cls, o.name, o.key>>
Entry(d, n, k) == [cls |-> prog.decl[d].cls, name |-> n, key |-> k, decl |-> d]

At(c, n, k) == {o \in overloads : Slot(o) = <<c, n, k>>}
Bucket(c, n) == {o \in overloads : o.cls = c /\ o.name = n}

(* Mutant: one table for the methods of all types. *)
EmplaceAcrossTypes(table, new) ==
    table \cup {n \in new : \A o \in table : <<o.name, o.key>> # <<n.name, n.key>>}

(* std::unordered_map::emplace: an occupied slot keeps what it holds and
   the new symbol is destroyed. *)
Emplace(table, new) ==
    table \cup {n \in new : \A o \in table : Slot(o) # Slot(n)}

Lost == {d \in Decls : \A o \in overloads : o.decl # d}

-----------------------------------------------------------------------------
(* Pass one: analyzer::collect_symbols *)

Init ==
    /\ prog \in Programs
    /\ position \in {p \in [File -> 1..Cardinality(File)] :
                        \A f, g \in File : p[f] = p[g] => f = g}
    /\ phase = "symbols"
    /\ left = File /\ file = NoFile
    /\ types = {} /\ type = NoClass /\ pending = {}
    /\ declared = {}
    /\ overloads = {Entry(d, prog.decl[d].name, ResolvedKey(d)) :
                        d \in {e \in Decls : ~IsSource(e)}}
    /\ rekeyed = {d \in Decls : ~IsSource(d)}
    /\ abstracts = [c \in Class |-> {}] /\ collected = {}
    /\ errors = IF prog.broken THEN {Error("Parse", NoClass, NoDecl, <<>>)} ELSE {}
    /\ bound = {} /\ mains = {}

(* The loops over the contexts in analyze_asts. *)
BeginFile(f) ==
    /\ phase \in {"symbols", "methods", "types"}
    /\ file = NoFile /\ f \in left
    /\ \A g \in left : position[f] <= position[g]
    /\ file' = f /\ left' = left \ {f}
    /\ types' = IF phase = "methods" THEN {} ELSE ClassesOf(f)
    /\ pending' = IF phase = "methods" THEN MethodsIn(f) ELSE {}
    /\ UNCHANGED <<prog, position, phase, type, declared, overloads, rekeyed,
                   abstracts, collected, errors, bound, mains>>

(* type_declaration::collect: a second type of the same name is reported
   and stays out of the country. *)
CollectType(c) ==
    /\ phase = "symbols" /\ c \in types
    /\ types' = types \ {c}
    /\ IF \E other \in declared : TypeName(other) = TypeName(c)
       THEN /\ errors' = errors \cup {Error("DuplicateType", c, NoDecl, <<>>)}
            /\ UNCHANGED declared
       ELSE /\ declared' = declared \cup {c}
            /\ UNCHANGED errors
    /\ UNCHANGED <<prog, position, phase, left, file, type, pending, overloads,
                   rekeyed, abstracts, collected, bound, mains>>

-----------------------------------------------------------------------------
(* Pass two: analyzer::post_collect *)

(* method_declaration::collect: the method enters the overloads table under
   the types as they are spelled. *)
CollectMethod(d) ==
    LET entry == Entry(d, prog.decl[d].name, UnresolvedKey(d)) IN
    /\ phase = "methods" /\ d \in pending
    /\ pending' = pending \ {d}
    /\ overloads' = Emplace(overloads, {entry})
    /\ errors' = errors \cup
           {Error("DuplicateMethod", o.cls, d, o.key) :
                o \in {o \in overloads : Slot(o) = Slot(entry)}}
    /\ UNCHANGED <<prog, position, phase, left, file, types, type, declared,
                   rekeyed, abstracts, collected, bound, mains>>

(* The file is done: the next iteration of the pass. *)
EndFile ==
    /\ phase \in {"symbols", "methods", "aliases"}
    /\ file # NoFile /\ types = {} /\ pending = {}
    /\ file' = NoFile
    /\ phase' = IF phase = "aliases" THEN "types" ELSE phase
    /\ UNCHANGED <<prog, position, left, types, type, pending, declared, overloads,
                   rekeyed, abstracts, collected, errors, bound, mains>>

(* What follows a pass that reported nothing. *)
Following(p) ==
    CASE p = "symbols" -> "methods"
      [] p = "methods" -> "types"
      [] OTHER         -> "accepted"

(* Mutant: no has_errors() after pass two. *)
UngatedPhaseAfter(p) ==
    IF errors # {} /\ p # "methods" THEN "rejected" ELSE Following(p)

(* has_errors() between the passes, and the verdict of compile(). *)
PhaseAfter(p) == IF errors # {} THEN "rejected" ELSE Following(p)

EndPass ==
    /\ phase \in {"symbols", "methods", "types"}
    /\ file = NoFile /\ left = {}
    /\ phase' = PhaseAfter(phase)
    /\ left' = IF phase' \in Verdicts THEN {} ELSE File
    /\ UNCHANGED <<prog, position, file, types, type, pending, declared, overloads,
                   rekeyed, abstracts, collected, errors, bound, mains>>

-----------------------------------------------------------------------------
(* Pass three: analyzer::analyze, type by type *)

BeginType(c) ==
    /\ phase = "types" /\ type = NoClass /\ c \in types
    /\ type' = c /\ types' = types \ {c}
    /\ pending' = MethodsOf(c)
    /\ UNCHANGED <<prog, position, phase, left, file, declared, overloads, rekeyed,
                   abstracts, collected, errors, bound, mains>>

(* resolve_method_signature: the symbol found under the unresolved key moves
   to the resolved one.  No such symbol is a null dereference. *)
ResolveMethodSignature(d) ==
    LET found == At(type, prog.decl[d].name, UnresolvedKey(d))
        moved == {[o EXCEPT !.key = ResolvedKey(d)] : o \in found}
    IN
    /\ phase = "types" /\ type # NoClass /\ d \in pending
    /\ pending' = pending \ {d}
    /\ overloads' = Emplace(overloads \ found, moved)
    /\ rekeyed' = rekeyed \cup {d}
    /\ phase' = IF found = {} THEN "crashed" ELSE phase
    /\ UNCHANGED <<prog, position, left, file, types, type, declared, abstracts,
                   collected, errors, bound, mains>>

(* The abstract methods a type declares itself, as keyed at this moment. *)
OwnAbstracts(c) ==
    {[name |-> o.name, key |-> o.key, decl |-> o.decl] :
        o \in {o \in overloads : o.cls = c /\ prog.decl[o.decl].abstract}}

(* The types the recursion of collect_abstract_methods visits from c: it
   stops at the ones whose methods are memoised. *)
Visited(c) ==
    {a \in (Ancestors(c) \cup {c}) \ collected :
        \A T \in SUBSET Class :
            c \in T /\ (\A t \in T \ collected : Parents[t] \subseteq T) => a \in T}

AbstractsOf(c) ==
    IF c \in collected THEN abstracts[c]
    ELSE UNION ({OwnAbstracts(v) : v \in Visited(c)}
                  \cup {abstracts[p] : p \in collected \cap UNION {Parents[v] : v \in Visited(c)}})

(* Mutant: only the type itself is searched. *)
ImplementedHere(c, m) == At(c, m.name, m.key) # {}

(* Mutant: the interfaces are searched too. *)
ImplementedAnywhere(c, m) ==
    \E h \in Ancestors(c) \cup {c} : At(h, m.name, m.key) # {}

(* is_method_implemented_in_hierarchy: a symbol under that name and key in
   the type or above it, abstract or not. *)
ImplementedInHierarchy(c, m) ==
    \E h \in SuperChain(c) : At(h, m.name, m.key) # {}

(* collect_abstract_methods and check_unimplemented_methods. *)
FinishType ==
    LET memo == [c \in Class |-> IF c \in Visited(type) THEN AbstractsOf(c)
                                 ELSE abstracts[c]]
    IN
    /\ phase = "types" /\ type # NoClass /\ pending = {}
    /\ type' = NoClass
    /\ IF Endless(type)
       THEN /\ phase' = "crashed"
            /\ UNCHANGED <<abstracts, collected, errors>>
       ELSE /\ UNCHANGED phase
            /\ abstracts' = memo
            /\ collected' = collected \cup Visited(type)
            /\ errors' = errors \cup
                   {Error("Unimplemented", type, m.decl, m.key) :
                       m \in {m \in UNION {memo[p] : p \in Parents[type]} :
                                 ~ImplementedInHierarchy(type, m)}}
    /\ UNCHANGED <<prog, position, left, file, types, pending, declared, overloads,
                   rekeyed, bound, mains>>

-----------------------------------------------------------------------------
(* Pass three: the bodies of the file *)

BeginBodies ==
    /\ phase = "types" /\ file # NoFile /\ types = {} /\ type = NoClass
    /\ phase' = "bodies"
    /\ pending' = MethodsIn(file)
    /\ UNCHANGED <<prog, position, left, file, types, type, declared, overloads,
                   rekeyed, abstracts, collected, errors, bound, mains>>

CallsFrom(d) == {k \in prog.calls : k.from = d}

(* Mutant: any type above with methods of that name. *)
AnyContainer(k) == {c \in SuperChain(k.on) : Bucket(c, k.name) # {}}

(* resolve_method_in_hierarchy: the nearest type with methods of that name. *)
Container(k) ==
    LET walk == Walk(k.on)
        Has(n) == walk[n] # NoClass /\ Bucket(walk[n], k.name) # {}
    IN  {walk[n] : n \in {n \in DOMAIN walk :
                            Has(n) /\ \A m \in 0..(n - 1) : ~Has(m)}}

(* More steps than there are classes, and still no end of the super types. *)
Unending(c) == NoClass \notin {Walk(c)[n] : n \in DOMAIN Walk(c)}
Hangs(k) == Container(k) = {} /\ Unending(k.on)

(* do_types_match or can_poly_cast_to. *)
Exact(from, to) ==
    \/ from = to
    \/ \E sub, sup \in Class :
           TypeName(sub) = from /\ TypeName(sup) = to /\ sup \in Ancestors(sub)

(* check_args_match for the overloads of that name, the exact ones first. *)
Candidates(k) ==
    LET sized == {d \in DeclId : \E c \in Container(k) :
                     /\ \E o \in Bucket(c, k.name) : o.decl = d
                     /\ Len(prog.decl[d].params) = Len(k.args)}
        exact == {d \in sized : \A i \in DOMAIN k.args :
                     Exact(k.args[i], ResolvedKey(d)[i])}
        widened == {d \in sized : \A i \in DOMAIN k.args :
                     \/ Exact(k.args[i], ResolvedKey(d)[i])
                     \/ <<k.args[i], ResolvedKey(d)[i]>> \in Widens}
    IN  IF exact # {} THEN exact ELSE widened

CallError(k) ==
    Error(IF Container(k) = {} THEN "MethodNotFound" ELSE "ArgumentMismatch",
          k.on, k.from, k.args)

(* resolve_method_bodies.  The overloads are searched in the order of a hash
   table.  A declaration whose symbol was destroyed hands out a dangling
   reference: the build may stop there or read the freed symbol. *)
ResolveMethodBody(d) ==
    /\ phase = "bodies" /\ d \in pending
    /\ pending' = pending \ {d}
    /\ \/ /\ d \in Lost \/ \E k \in CallsFrom(d) : Hangs(k)
          /\ phase' = "crashed"
          /\ UNCHANGED <<errors, bound>>
       \/ /\ \A k \in CallsFrom(d) : ~Hangs(k)
          /\ UNCHANGED phase
          /\ \E pick \in [{k \in CallsFrom(d) : Candidates(k) # {}} -> DeclId] :
                /\ \A k \in DOMAIN pick : pick[k] \in Candidates(k)
                /\ bound' = bound \cup {<<k, pick[k]>> : k \in DOMAIN pick}
          /\ errors' = errors \cup
                 {CallError(k) : k \in {k \in CallsFrom(d) : Candidates(k) = {}}}
    /\ UNCHANGED <<prog, position, left, file, types, type, declared, overloads,
                   rekeyed, abstracts, collected, mains>>

-----------------------------------------------------------------------------
(* Pass three: the aliases of the file *)

BeginAliases ==
    /\ phase = "bodies" /\ pending = {}
    /\ phase' = "aliases"
    /\ types' = ClassesOf(file)
    /\ UNCHANGED <<prog, position, left, file, type, pending, declared, overloads,
                   rekeyed, abstracts, collected, errors, bound, mains>>

(* Mutant: the symbol leaves its table and enters no other. *)
ForgetAlias(c) ==
    /\ phase = "aliases" /\ c \in types
    /\ types' = types \ {c}
    /\ mains' = mains \cup {o.cls : o \in At(c, Bereshit, <<StringArray>>)}
    /\ overloads' = overloads \ At(c, Bereshit, <<StringArray>>)
    /\ UNCHANGED <<prog, position, phase, left, file, type, pending, declared,
                   rekeyed, abstracts, collected, errors, bound>>

(* method_declaration::resolve_aliases: a Bereshit with the signature of main
   registers its type, and is moved to the name main when it has its flags. *)
ResolveAliases(c) ==
    LET bereshit == At(c, Bereshit, <<StringArray>>)
        renamed == {o \in bereshit : /\ prog.decl[o.decl].public
                                     /\ prog.decl[o.decl].static}
    IN
    /\ phase = "aliases" /\ c \in types
    /\ types' = types \ {c}
    /\ mains' = IF bereshit = {} THEN mains ELSE mains \cup {c}
    /\ overloads' = Emplace(overloads \ renamed,
                            {[o EXCEPT !.name = MainName] : o \in renamed})
    /\ UNCHANGED <<prog, position, phase, left, file, type, pending, declared,
                   rekeyed, abstracts, collected, errors, bound>>

(* The analysis has answered, or never will. *)
Done == phase \in Verdicts /\ UNCHANGED vars

Next ==
    \/ \E f \in File : BeginFile(f)
    \/ \E c \in Class : CollectType(c)
    \/ \E d \in DeclId : CollectMethod(d)
    \/ EndFile
    \/ EndPass
    \/ \E c \in Class : BeginType(c)
    \/ \E d \in DeclId : ResolveMethodSignature(d)
    \/ FinishType
    \/ BeginBodies
    \/ \E d \in DeclId : ResolveMethodBody(d)
    \/ BeginAliases
    \/ \E c \in Class : ResolveAliases(c)
    \/ Done

(* The compiler is one thread that runs to the end of its loops. *)
Spec == Init /\ [][Next]_vars /\ WF_vars(Next)

-----------------------------------------------------------------------------
(* Properties *)

MethodEntry == [cls: Class, name: Name, key: Seq(Notation), decl: DeclId]
AbstractEntry == [name: Name, key: Seq(Notation), decl: DeclId]
Blasphemy == [kind: {"Parse", "DuplicateType", "DuplicateMethod", "Unimplemented",
                     "MethodNotFound", "ArgumentMismatch"},
              cls: Class \cup {NoClass}, decl: DeclId \cup {NoDecl},
              key: Seq(Notation)]

(* Every variable of the analysis holds a value of its type. *)
TypeOK ==
    /\ prog \in Programs
    /\ position \in [File -> 1..Cardinality(File)]
    /\ phase \in {"symbols", "methods", "types", "bodies", "aliases"} \cup Verdicts
    /\ left \subseteq File /\ file \in File \cup {NoFile}
    /\ types \subseteq Class /\ type \in Class \cup {NoClass}
    /\ pending \subseteq Decls /\ rekeyed \subseteq Decls
    /\ declared \subseteq Class /\ collected \subseteq Class /\ mains \subseteq Class
    /\ overloads \subseteq MethodEntry
    /\ abstracts \in [Class -> SUBSET AbstractEntry]
    /\ errors \subseteq Blasphemy
    /\ bound \subseteq prog.calls \X DeclId

(* When its type is resolved, each declaration that has not been re-keyed is
   still the symbol found under its unresolved descriptor: none of the moves
   of other methods takes its place, so resolve_method_signature never
   dereferences an empty pointer nor re-keys the symbol of another method. *)
SignatureFound ==
    phase \in {"types", "bodies", "aliases"} =>
        \A d \in Decls \ rekeyed :
            Entry(d, prog.decl[d].name, UnresolvedKey(d)) \in overloads

(* The symbol of d may be destroyed because of e: a method not yet re-keyed,
   spelled as d resolves, one that resolves to the same types, or a method
   main in the way of a Bereshit. *)
Collides(d, e) ==
    /\ prog.decl[e].cls = prog.decl[d].cls
    /\ \/ /\ prog.decl[e].name = prog.decl[d].name
          /\ ResolvedKey(d) \in {UnresolvedKey(e), ResolvedKey(e)}
       \/ /\ prog.decl[d].name = Bereshit /\ prog.decl[e].name = MainName
          /\ ResolvedKey(d) = ResolvedKey(e)

(* A symbol that left the tables of methods was destroyed by a collision of
   those kinds, through all the moves of the passes. *)
LostOnlyByCollision ==
    phase \in {"types", "bodies", "aliases", "accepted"} =>
        \A d \in Lost : \E e \in Decls \ {d} : Collides(d, e)

(* The declarations which, by the program text alone, c has or inherits
   under a name and parameter types. *)
Declares(c, n, k) ==
    {d \in Decls : /\ prog.decl[d].cls \in SuperChain(c)
                   /\ prog.decl[d].name = n /\ ResolvedKey(d) = k}

(* Methods above c that the tables hide from a look-up by name and resolved
   descriptor while c is checked: one whose file comes later (or a later type
   of the same file), still under its unresolved descriptor; a Bereshit
   renamed to main with an earlier file; and one a collision may destroy. *)
Hidden(c, i) ==
    LET here == position[prog.file[c]]
        there == position[prog.file[prog.decl[i].cls]]
    IN  \/ /\ IsSource(i) /\ there >= here /\ prog.decl[i].cls # c
           /\ UnresolvedKey(i) # ResolvedKey(i)
        \/ IsSource(i) /\ there < here /\ prog.decl[i].name = Bereshit
        \/ \E e \in Decls \ {i} : Collides(i, e)

(* The abstract method a was memoised as it is spelled: some type below it,
   no later than c and no later than a's own type, was checked first. *)
MemoisedEarly(c, a) ==
    /\ IsSource(a)
    /\ \E x \in SourceClasses :
           /\ prog.decl[a].cls \in Ancestors(x) /\ prog.decl[a].cls # x
           /\ position[prog.file[x]] <= position[prog.file[c]]
           /\ position[prog.file[x]] <= position[prog.file[prog.decl[a].cls]]

(* A type is blamed for an abstract method that it does not implement.
   Whatever the order of the files, types and methods, the blame is real, but
   for two effects of that order: the abstract method was memoised before its
   own signature was resolved, or each implementation above the type is
   hidden at that moment. *)
BlameHasCause ==
    [][\A e \in errors' \ errors :
          e.kind = "Unimplemented" =>
              \/ e.key = UnresolvedKey(e.decl) /\ MemoisedEarly(e.cls, e.decl)
              \/ /\ e.key = ResolvedKey(e.decl)
                 /\ \A i \in Declares(e.cls, prog.decl[e.decl].name, e.key) :
                        Hidden(e.cls, i)]_vars

(* The abstract methods of the types of class files that c must implement. *)
ExternalContract(c) ==
    {d \in Decls : /\ prog.decl[d].abstract /\ ~IsSource(d)
                   /\ prog.decl[d].cls \in Ancestors(c)}

(* Methods above c that stand, while c is checked, where an implementation of
   d would: one whose file comes later (or a later type of the same file), not
   re-keyed yet and spelled, its `this' included, as d resolves; and a Bereshit
   renamed to main with an earlier file. *)
Impostors(c, d) ==
    {e \in Decls :
        /\ IsSource(e) /\ prog.decl[e].cls \in SuperChain(c)
        /\ LET here == position[prog.file[c]]
               there == position[prog.file[prog.decl[e].cls]]
           IN  \/ /\ there >= here /\ prog.decl[e].cls # c
                  /\ prog.decl[e].name = prog.decl[d].name
                  /\ UnresolvedKey(e) = ResolvedKey(d)
               \/ /\ there < here
                  /\ prog.decl[e].name = Bereshit /\ prog.decl[d].name = MainName
                  /\ ResolvedKey(e) = ResolvedKey(d)}

(* A program accepted keeps the contracts of the interfaces of the class
   files it implements, however the files were ordered and whichever type
   was memoised first, unless an impostor stood in for the implementation. *)
ExternalContractKept ==
    phase = "accepted" =>
        \A c \in SourceClasses : \A d \in ExternalContract(c) :
            \/ Declares(c, prog.decl[d].name, ResolvedKey(d)) # {}
            \/ Impostors(c, d) # {}

(* A call is bound to a method of its name that takes as many arguments, in
   the first type with methods of that name among those met on the way up
   from the type of the call: no method that is not destroyed stands nearer. *)
BoundToNearest ==
    \A b \in bound :
        LET k == b[1]
            d == b[2]
            walk == Walk(k.on)
        IN  /\ Len(prog.decl[d].params) = Len(k.args)
            /\ \/ prog.decl[d].name = k.name
               \/ prog.decl[d].name = Bereshit /\ k.name = MainName
            /\ \E n \in DOMAIN walk :
                /\ walk[n] = prog.decl[d].cls
                /\ k.name # Bereshit =>
                       \A m \in 0..(n - 1) : \A e \in Decls \ Lost :
                           ~ (prog.decl[e].cls = walk[m] /\ prog.decl[e].name = k.name)

(* When the program is accepted, a type whose only Bereshit over an array of
   strings is public and static is registered and holds a method main of that
   signature, the one the Java virtual machine looks for: whether its
   parameter was spelled by its alias or in full, and whichever calls to the
   old name were bound before the move.  Only another Bereshit whose types are
   spelled as an array of strings and mean something else can prevent it. *)
BereshitIsMain ==
    phase = "accepted" =>
        \A c \in SourceClasses :
            LET own == {d \in MethodsOf(c) : /\ prog.decl[d].name = Bereshit
                                             /\ ResolvedKey(d) = <<StringArray>>}
            IN  (/\ \E d \in own : own = {d} /\ prog.decl[d].public /\ prog.decl[d].static
             /\ \A d \in MethodsOf(c) \ own :
                    prog.decl[d].name = Bereshit => UnresolvedKey(d) # <<StringArray>>)
            => c \in mains /\ At(c, MainName, <<StringArray>>) # {}

(* By its text alone: a type of the sources above which the hierarchy leads
   back to itself, a call on a type whose super types have no end, or two
   methods that collide. *)
Unanswerable ==
    \/ \E c \in SourceClasses : Endless(c)
    \/ \E k \in prog.calls : Unending(k.on)
    \/ \E d \in Decls : \E e \in Decls \ {d} : Collides(d, e)

(* The compiler accepts or rejects every other program: whatever the order of
   files and the moves of the passes, no look-up dereferences a symbol that is
   not there, and no walk up the hierarchy fails to return. *)
AnswersUnlessCyclicOrColliding ==
    <>(phase \in {"accepted", "rejected"} \/ Unanswerable)

=============================================================================
