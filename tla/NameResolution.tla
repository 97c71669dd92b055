--------------------------- MODULE NameResolution ---------------------------
(***************************************************************************)
(* What a name means: the countries (packages), the types in them, and     *)
(* the class files that looking a name up loads into them                  *)
(* (semantic_analyzer/symbol_table/, builtins.cpp, util.cpp, analyzer.cpp  *)
(* and classpath/loader/).                                                 *)
(*                                                                         *)
(* A symbol is known by its path in the tree of countries.  The files are  *)
(* analysed one after another over one tree, each with its own list of     *)
(* countries to search; every super type is resolved by whoever meets it   *)
(* first.  What the methods of a type are is in SemanticAnalysis; here a   *)
(* type has the names of its fields and methods.                           *)
(***************************************************************************)
EXTENDS Integers, SequencesExt

CONSTANTS Programs,        \* source files with the class path they are compiled against
          DefaultImports,  \* the countries that every file imports
          Talmud,          \* the country of the aliases
          Aliases          \* a sequence of [alias, of]: the builtin types

(* A name has parts; a class file says which type it holds.                *)
PathName == Seq(STRING)
Class == [name : PathName \ {<<>>}, super : PathName,
          fields : SUBSET STRING, methods : SUBSET STRING]
Declaration == [name : STRING, super : PathName, fields : SUBSET STRING,
                methods : SUBSET STRING]
Use == [kind : {"type", "field", "call"}, in : STRING, name : PathName \ {<<>>}]
SourceFile == [country : PathName, imports : Seq(PathName), misplaced : BOOLEAN,
               types : Seq(Declaration), uses : Seq(Use)]

(* A name is used in a type of its file, and the class files of the        *)
(* builtins lie where their names say.                                     *)
ASSUME ProgramsAssumption ==
    \A p \in Programs :
        /\ p.files \in Seq(SourceFile) /\ p.files # <<>> /\ p.java \in BOOLEAN
        /\ \A f \in DOMAIN p.files : \A i \in DOMAIN p.files[f].uses :
                \E k \in DOMAIN p.files[f].types :
                    p.files[f].types[k].name = p.files[f].uses[i].in
        /\ \A l \in DOMAIN p.holds : \A path \in DOMAIN p.holds[l] :
                /\ p.holds[l][path] \in Class
                /\ \A j \in DOMAIN Aliases :
                        path = Aliases[j].of => p.holds[l][path].name = path

ASSUME NamesAssumption ==
    /\ DefaultImports \in Seq(PathName) /\ Talmud \in PathName
    /\ Aliases \in Seq([alias : STRING, of : PathName]) /\ Aliases # <<>>

VARIABLES program,         \* the one being compiled
          order,           \* the class loaders, as their hash table lists them
          at,              \* the tree: path -> Country, or the number of a type
          types,           \* every type symbol ever made, by number
          phase, next,     \* the pass, and the file or builtin in turn
          item,            \* in the last pass: which name of the file
          walk,            \* the climb in progress over super types
          collected,       \* the types whose abstract methods are collected
          errors,          \* the names reported, with the file in turn
          answers          \* history: the types that names were found to mean

vars == <<program, order, at, types, phase, next, item, walk, collected, errors, answers>>

Country == 0
Global == <<>>
NoSuper == <<>>
Unbound == 0
Nothing == [kind |-> "nothing"]
NoWalk == [type |-> 0, seeks |-> ""]

Parts == [name : PathName, by : Int, super : PathName, bound : Nat,
          fields : SUBSET STRING, methods : SUBSET STRING]
TypeOK ==
    /\ program \in Programs /\ order \in SetToSeqs(DOMAIN program.holds)
    /\ DOMAIN at \subseteq PathName /\ \A path \in DOMAIN at : at[path] \in 0..Len(types)
    /\ types \in Seq(Parts)
    /\ \A i \in DOMAIN types : /\ types[i].by \in -1..Len(program.files)
                              /\ types[i].bound \in 0..Len(types)
    /\ phase \in {"contexts", "collect", "builtins", "members", "bodies", "done", "crashed"}
    /\ next \in Nat /\ item \in Nat \ {0}
    /\ phase # "crashed" =>
            next \in 1..Len(IF phase = "builtins" THEN Aliases ELSE program.files)
    /\ walk \in {NoWalk} \cup [type : DOMAIN types, seeks : STRING \cup {""}]
    /\ collected \subseteq DOMAIN types
    /\ errors \subseteq [file : DOMAIN program.files, name : PathName]
    /\ answers \in Seq([file : DOMAIN program.files, name : PathName,
                        type : DOMAIN types, path : PathName])

Files == program.files
IsType(tree, path) == path \in DOMAIN tree /\ tree[path] # Country
Alive(type) == \E path \in DOMAIN at : at[path] = type

(* A type symbol.  by is the file that declares it, 0 for a class file; a  *)
(* placeholder of an alias comes from neither.                             *)
Symbol(name, by, super, fields, methods) ==
    [name |-> name, by |-> by, super |-> super, bound |-> Unbound,
     fields |-> fields, methods |-> methods]
Placeholder(builtin) == Symbol(builtin.of, -1, NoSuper, {}, {})

-----------------------------------------------------------------------------
(* Countries *)

With(tree, added) ==
    [path \in DOMAIN tree \cup DOMAIN added |->
        IF path \in DOMAIN added THEN added[path] ELSE tree[path]]

(* find_or_create_country: dynamic_cast of a reference throws bad_cast if  *)
(* a type stands on the way.                                               *)
Blocked(tree, path) == \E i \in 1..Len(path) : IsType(tree, SubSeq(path, 1, i))
WithCountries(tree, paths) ==
    With(tree, [p \in UNION {Prefixes(path) : path \in paths} |-> Country])
WithCountry(tree, path) == WithCountries(tree, {path})

(* collect_lookup_countries: in the order in which they are searched.  The *)
(* code leaves out repetitions, where a search never gets.                 *)
LookupCountries(file) ==
    <<Global, Files[file].country>> \o Files[file].imports \o DefaultImports

(* resolve_method_from_scope_container: follow the name down from a symbol *)
(* of the tree; the last part may be a field, or else a method, of a type. *)
Reach(tree, symbols, from, name) ==
    LET path == from \o name
        owner == tree[Front(path)]
        Member(kind) == [kind |-> kind, type |-> owner, path |-> path]
    IN  CASE path \in DOMAIN tree ->
                [kind |-> IF tree[path] = Country THEN "country" ELSE "type",
                 type |-> tree[path], path |-> path]
          [] path \notin DOMAIN tree /\ IsType(tree, Front(path))
             /\ Last(path) \in symbols[owner].fields -> Member("field")
          [] path \notin DOMAIN tree /\ IsType(tree, Front(path))
             /\ Last(path) \in symbols[owner].methods \ symbols[owner].fields -> Member("method")
          [] OTHER -> Nothing

Answering(tree, symbols, file, name) ==
    {i \in DOMAIN LookupCountries(file) :
        Reach(tree, symbols, LookupCountries(file)[i], name) # Nothing}

(* Mutant: the country listed last is asked first.                         *)
ResolveFromLast(tree, symbols, file, name) ==
    LET answering == Answering(tree, symbols, file, name)
    IN  IF answering = {} THEN Nothing
        ELSE Reach(tree, symbols, LookupCountries(file)[Max(answering)], name)

(* resolve_from_imports: the first country that has an answer. *)
ResolveFromImports(tree, symbols, file, name) ==
    LET answering == Answering(tree, symbols, file, name)
    IN  IF answering = {} THEN Nothing
        ELSE Reach(tree, symbols, LookupCountries(file)[Min(answering)], name)

-----------------------------------------------------------------------------
(* Loading class files *)

(* try_load_prefixes and try_load_any_candidate: the name as written, then *)
(* under the default imports, then under the countries of the file, each   *)
(* time the longest part of it first.                                      *)
Candidates(file, name) ==
    LET bases == <<Global>> \o DefaultImports \o LookupCountries(file)
        n == Len(name)
    IN  [k \in 1..(Len(bases) * n) |->
            LET base == bases[(k - 1) \div n + 1]
                length == n - ((k - 1) % n)
            IN  [name |-> base \o SubSeq(name, 1, length),
                 suffix |-> SubSeq(name, length + 1, n)]]

(* try_load_candidate: the loaders are asked in the order of the hash      *)
(* table, and a file found by its path may declare another name.           *)
Holders(name) == {k \in DOMAIN order : name \in DOMAIN program.holds[order[k]]}
Loadable(name) == Holders(name) # {}
ClassAt(name) == program.holds[order[Min(Holders(name))]][name]

(* Mutant: a type that is there already is replaced.                       *)
LoadReplacing(tree, symbols, class) ==
    LET broken == \/ Blocked(tree, Front(class.name))
                  \/ class.name \in DOMAIN tree /\ tree[class.name] = Country
    IN  IF broken THEN [crashed |-> TRUE, at |-> tree, types |-> symbols]
        ELSE [crashed |-> FALSE,
              at |-> With(WithCountry(tree, Front(class.name)),
                          [path \in {class.name} |-> Len(symbols) + 1]),
              types |-> Append(symbols, Symbol(class.name, 0, class.super, class.fields,
                                               class.methods))]

(* class_file_loader: the country is made, and the type is emplaced: a     *)
(* type that is there already stays, and gets the members of the class     *)
(* file next to its own.  A country of that name is taken for a type,      *)
(* which is undefined.                                                     *)
Load(tree, symbols, class) ==
    LET broken == \/ Blocked(tree, Front(class.name))
                  \/ class.name \in DOMAIN tree /\ tree[class.name] = Country
        countries == WithCountry(tree, Front(class.name))
        new == Len(symbols) + 1
    IN  CASE broken -> [crashed |-> TRUE, at |-> tree, types |-> symbols]
          [] ~broken /\ IsType(tree, class.name) ->
                [crashed |-> FALSE, at |-> tree,
                 types |-> [symbols EXCEPT ![tree[class.name]].fields = @ \cup class.fields,
                                           ![tree[class.name]].methods = @ \cup class.methods]]
          [] OTHER ->
                [crashed |-> FALSE, at |-> With(countries, [path \in {class.name} |-> new]),
                 types |-> Append(symbols, Symbol(class.name, 0, class.super, class.fields,
                                                  class.methods))]

(* Mutant: a qualified name is loaded without a look into the tree.        *)
KnownUnqualified(file, name) ==
    IF Len(name) > 1 THEN Nothing ELSE ResolveFromImports(at, types, file, name)

Known(file, name) == ResolveFromImports(at, types, file, name)

(* symbol_table::resolve, short of its report: what is in the tree, or     *)
(* else what the first class file that can be loaded turns out to hold.    *)
Lookup(file, name) ==
    LET here == Known(file, name)
        candidates == Candidates(file, name)
        loadable == {k \in DOMAIN candidates : Loadable(candidates[k].name)}
        first == candidates[Min(loadable)]
        loaded == Load(at, types, ClassAt(first.name))
        class == ResolveFromImports(loaded.at, loaded.types, file, first.name)
        Answer(load, sym) == [crashed |-> load.crashed, at |-> load.at, types |-> load.types,
                              sym |-> sym]
        Unchanged == [crashed |-> FALSE, at |-> at, types |-> types]
    IN  CASE here # Nothing -> Answer(Unchanged, here)
          [] here = Nothing /\ loadable = {} -> Answer(Unchanged, Nothing)
          [] here = Nothing /\ loadable # {} ->
                Answer(loaded, IF class = Nothing \/ first.suffix = <<>> THEN class
                               ELSE Reach(loaded.at, loaded.types, class.path, first.suffix))

-----------------------------------------------------------------------------
(* The passes before the bodies (main.cpp analyze_asts) *)

ToPhase(name) == phase' = name /\ next' = 1
(* The next file or builtin, or else the next pass. *)
Advance(length, then) ==
    IF next < length THEN next' = next + 1 /\ UNCHANGED phase ELSE ToPhase(then)
Crash == phase' = "crashed" /\ UNCHANGED next

Init ==
    /\ program \in Programs
    /\ order \in SetToSeqs(DOMAIN program.holds)
    /\ at = With(WithCountry(<<>>, Talmud),
                 [path \in {Talmud \o <<Aliases[j].alias>> : j \in DOMAIN Aliases} |->
                    CHOOSE j \in DOMAIN Aliases : path = Talmud \o <<Aliases[j].alias>>])
    /\ types = [j \in DOMAIN Aliases |-> Placeholder(Aliases[j])]
    /\ phase = "contexts" /\ next = 1 /\ item = 1
    /\ walk = NoWalk /\ collected = {} /\ errors = {} /\ answers = <<>>

(* make_context: the countries of a file are made before any type is.      *)
MakeContext ==
    /\ phase = "contexts"
    /\ LET countries == ToSet(Tail(LookupCountries(next))) IN
       IF \E country \in countries : Blocked(at, country)
       THEN Crash /\ UNCHANGED at
       ELSE /\ at' = WithCountries(at, countries)
            /\ Advance(Len(Files), "collect")
    /\ UNCHANGED <<program, order, types, item, walk, collected, errors, answers>>

(* collect_symbols: a country that is not the directory of the file is     *)
(* reported, and so is a name that is taken in the country, whose symbol   *)
(* is destroyed.                                                           *)
Collect ==
    /\ phase = "collect"
    /\ LET file == Files[next]
           Path(i) == file.country \o <<file.types[i].name>>
           taken == {i \in DOMAIN file.types : \/ Path(i) \in DOMAIN at
                                               \/ \E j \in 1..(i - 1) : Path(j) = Path(i)}
           fresh == DOMAIN file.types \ taken
       IN  /\ at' = With(at, [path \in {Path(i) : i \in fresh} |->
                                Len(types) + (CHOOSE i \in fresh : Path(i) = path)])
           /\ types' = types \o [i \in DOMAIN file.types |->
                        Symbol(Path(i), next, file.types[i].super, {}, {})]
           /\ errors' = errors \cup {[file |-> next, name |-> Path(i)] : i \in taken}
                \cup (IF file.misplaced THEN {[file |-> next, name |-> file.country]} ELSE {})
           /\ IF next = Len(Files) /\ errors' # {}
              THEN ToPhase("done")
              ELSE Advance(Len(Files), IF program.java THEN "builtins" ELSE "members")
    /\ UNCHANGED <<program, order, item, walk, collected, answers>>

(* resolve_builtin_alias: the class file is loaded under its own name and  *)
(* the symbol moved over the placeholder, which is destroyed.              *)
ResolveBuiltin ==
    /\ phase = "builtins"
    /\ LET builtin == Aliases[next]
           alias == Talmud \o <<builtin.alias>>
           loaded == Load(at, types, ClassAt(builtin.of))
           Moved(tree) == [p \in DOMAIN tree \ {builtin.of} |->
                                IF p = alias THEN tree[builtin.of] ELSE tree[p]]
       IN  CASE ~Loadable(builtin.of) ->
                    Advance(Len(Aliases), "members") /\ UNCHANGED <<at, types>>
             [] Loadable(builtin.of) /\ loaded.crashed -> Crash /\ UNCHANGED <<at, types>>
             [] OTHER -> /\ at' = Moved(loaded.at)
                         /\ types' = loaded.types
                         /\ Advance(Len(Aliases), "members")
    /\ UNCHANGED <<program, order, item, walk, collected, errors, answers>>

(* post_collect: fields and methods; a type that is no longer in its       *)
(* country is passed over.                                                 *)
PostCollect ==
    /\ phase = "members"
    /\ LET file == Files[next]
           Declared(i) == {k \in DOMAIN file.types :
                            LET path == file.country \o <<file.types[k].name>>
                            IN  IsType(at, path) /\ at[path] = i}
       IN  types' = [i \in DOMAIN types |->
                        [types[i] EXCEPT
                            !.fields = @ \cup UNION {file.types[k].fields : k \in Declared(i)},
                            !.methods = @ \cup UNION {file.types[k].methods : k \in Declared(i)}]]
    /\ Advance(Len(Files), "bodies")
    /\ UNCHANGED <<program, order, at, item, walk, collected, errors, answers>>

-----------------------------------------------------------------------------
(* The last pass (analyzer.cpp analyze), file after file: the super types  *)
(* of its types with the abstract methods above them, then the bodies.     *)

Items(f) ==
    LET In(type) == Files[f].country \o <<type>>
    IN  [i \in DOMAIN Files[f].types |->
            [kind |-> "super", in |-> In(Files[f].types[i].name),
             name |-> Files[f].types[i].super]]
        \o [i \in DOMAIN Files[f].uses |->
            [kind |-> Files[f].uses[i].kind, in |-> In(Files[f].uses[i].in),
             name |-> Files[f].uses[i].name]]

Busy == phase = "bodies" /\ item \in DOMAIN Items(next)
Item == Items(next)[item]
Done == item' = item + 1 /\ UNCHANGED <<phase, next>>
Report(name) == errors' = errors \cup {[file |-> next, name |-> name]}
Recorded(name, sym) ==
    Append(answers, [file |-> next, name |-> name, type |-> sym.type, path |-> sym.path])

(* Mutant: only the node of the declaration is bound.                      *)
BindDeclaration(symbols, type, super) == symbols

(* The symbol's own node of its super type is bound along with the one of  *)
(* the declaration.                                                        *)
Bind(symbols, type, super) == [symbols EXCEPT ![type].bound = super]

(* type_declaration::resolve; value() throws when the type has been moved  *)
(* away, and no symbol of the tree is looked for under another name.       *)
ResolveSuper ==
    /\ Busy /\ Item.kind = "super" /\ walk = NoWalk
    /\ LET found == Lookup(next, Item.name)
           self == at[Item.in]
       IN  IF ~IsType(at, Item.in) \/ found.crashed
           THEN Crash /\ UNCHANGED <<at, types, item, walk, errors, answers>>
           ELSE /\ at' = found.at
                /\ walk' = [type |-> self, seeks |-> ""]
                /\ IF found.sym # Nothing /\ found.sym.kind = "type"
                   THEN /\ types' = Bind(found.types, self, found.sym.type)
                        /\ answers' = Recorded(Item.name, found.sym)
                        /\ UNCHANGED errors
                   ELSE types' = found.types /\ Report(Item.name) /\ UNCHANGED answers
                /\ UNCHANGED <<phase, next, item>>
    /\ UNCHANGED <<program, order, collected>>

(* The climb ends without what it seeks. *)
GiveUp(name) == walk' = NoWalk /\ Done /\ IF name = <<>> THEN UNCHANGED errors ELSE Report(name)

(* collect_abstract_methods and resolve_method_in_hierarchy, one type of   *)
(* the hierarchy: a super type not bound yet is looked up for the file in  *)
(* turn, whichever file declares the type.                                 *)
Arrived == \/ walk.seeks = "" /\ walk.type \in collected
           \/ walk.seeks # "" /\ walk.seeks \in types[walk.type].methods
Mark == collected' = IF walk.seeks = "" THEN collected \cup {walk.type} ELSE collected
Sought == IF walk.seeks = "" THEN <<>> ELSE Item.name

Arrive ==
    /\ Busy /\ walk # NoWalk /\ Arrived
    /\ walk' = NoWalk /\ Done
    /\ UNCHANGED <<program, order, at, types, collected, errors, answers>>

ClimbBound ==
    /\ Busy /\ walk # NoWalk /\ ~Arrived
    /\ types[walk.type].bound # Unbound
    /\ Mark
    /\ walk' = [walk EXCEPT !.type = types[walk.type].bound]
    /\ UNCHANGED <<program, order, at, types, phase, next, item, errors, answers>>

ClimbOut ==
    /\ Busy /\ walk # NoWalk /\ ~Arrived
    /\ types[walk.type].bound = Unbound /\ types[walk.type].super = NoSuper
    /\ Mark /\ GiveUp(Sought)
    /\ UNCHANGED <<program, order, at, types, answers>>

ClimbUnbound ==
    /\ Busy /\ walk # NoWalk /\ ~Arrived
    /\ types[walk.type].bound = Unbound /\ types[walk.type].super # NoSuper
    /\ LET super == types[walk.type].super
           found == Lookup(next, super)
       IN  CASE found.crashed ->
                    Crash /\ UNCHANGED <<at, types, item, walk, collected, errors, answers>>
             [] ~found.crashed /\ found.sym # Nothing /\ found.sym.kind = "type" ->
                    /\ at' = found.at
                    /\ types' = Bind(found.types, walk.type, found.sym.type)
                    /\ answers' = Recorded(super, found.sym)
                    /\ Mark
                    /\ walk' = [walk EXCEPT !.type = found.sym.type]
                    /\ UNCHANGED <<phase, next, item, errors>>
             [] OTHER ->
                    /\ at' = found.at /\ types' = found.types
                    /\ Mark /\ walk' = NoWalk /\ Done
                    /\ errors' = errors \cup {[file |-> next, name |-> n] :
                                                n \in {super, Sought} \ {<<>>}}
                    /\ UNCHANGED answers
    /\ UNCHANGED <<program, order>>

(* A type named in a body, or a field named through its type.              *)
Wanted(kind) == IF kind = "type" THEN "type" ELSE "field"
ResolveUse ==
    /\ Busy /\ Item.kind \in {"type", "field"} /\ walk = NoWalk
    /\ LET found == Lookup(next, Item.name)
       IN  IF found.crashed
           THEN Crash /\ UNCHANGED <<at, types, item, errors, answers>>
           ELSE /\ at' = found.at /\ types' = found.types
                /\ IF found.sym # Nothing /\ found.sym.kind = Wanted(Item.kind)
                   THEN answers' = Recorded(Item.name, found.sym) /\ UNCHANGED errors
                   ELSE Report(Item.name) /\ UNCHANGED answers
                /\ Done
    /\ UNCHANGED <<program, order, walk, collected>>

(* A call: of a method of the type itself when the name has one part, or   *)
(* of one named through its type; then the hierarchy is climbed.           *)
ResolveCall ==
    /\ Busy /\ Item.kind = "call" /\ walk = NoWalk
    /\ LET single == Len(Item.name) = 1
           found == Lookup(next, Front(Item.name))
           From(type) == walk' = [type |-> type, seeks |-> Last(Item.name)]
       IN  CASE single -> From(at[Item.in]) /\ UNCHANGED <<at, types, phase, next, item, errors, answers>>
             [] ~single /\ found.crashed ->
                    Crash /\ UNCHANGED <<at, types, item, walk, errors, answers>>
             [] ~single /\ ~found.crashed /\ found.sym # Nothing /\ found.sym.kind = "type" ->
                    /\ at' = found.at /\ types' = found.types
                    /\ From(found.sym.type)
                    /\ answers' = Recorded(Front(Item.name), found.sym)
                    /\ UNCHANGED <<phase, next, item, errors>>
             [] OTHER -> /\ at' = found.at /\ types' = found.types
                         /\ Report(Item.name) /\ Done
                         /\ UNCHANGED <<walk, answers>>
    /\ UNCHANGED <<program, order, collected>>

(* The files are analysed one after another.                               *)
NextFile ==
    /\ phase = "bodies" /\ ~Busy
    /\ item' = 1 /\ Advance(Len(Files), "done")
    /\ UNCHANGED <<program, order, at, types, walk, collected, errors, answers>>

Ended == phase \in {"done", "crashed"} /\ UNCHANGED vars

Next == \/ MakeContext \/ Collect \/ ResolveBuiltin \/ PostCollect
        \/ ResolveSuper \/ Arrive \/ ClimbBound \/ ClimbOut \/ ClimbUnbound
        \/ ResolveUse \/ ResolveCall \/ NextFile \/ Ended

Spec == Init /\ [][Next]_vars
-----------------------------------------------------------------------------
(* Properties *)

(* References to symbols are kept in the nodes of the tree and never       *)
(* looked up again, while the builtins destroy and move symbols.  No       *)
(* super type in use and no name of a body is bound to a symbol that has   *)
(* been destroyed or that stands for another name.                         *)
BindingsAlive ==
    /\ \A i \in DOMAIN types : Alive(i) /\ types[i].bound # Unbound => Alive(types[i].bound)
    /\ \A k \in DOMAIN answers :
            LET owner == IF answers[k].path \in DOMAIN at THEN answers[k].path
                         ELSE Front(answers[k].path)
            IN  IsType(at, owner) /\ at[owner] = answers[k].type

(* Looking names up fills the tree that is searched.  A name found under   *)
(* one of the countries of a file changes its meaning within the file only *)
(* for that of a country searched before, and only when a class file has   *)
(* brought the type there, or the field into a type that lacked it; never  *)
(* because something the sources declare comes to answer, or stops to.     *)
Places(file, name, path) ==
    {i \in DOMAIN LookupCountries(file) : LookupCountries(file)[i] \o name = path}
InClassFile(field, type) ==
    \E l \in DOMAIN program.holds : \E path \in DOMAIN program.holds[l] :
        LET class == program.holds[l][path]
        IN  IsType(at, class.name) /\ at[class.name] = type /\ field \in class.fields
MeaningKept ==
    \A a, b \in DOMAIN answers :
        LET earlier == answers[a]
            later == answers[b]
            before == Places(earlier.file, earlier.name, earlier.path)
            after == Places(later.file, later.name, later.path)
        IN  /\ a < b
            /\ earlier.file = later.file /\ earlier.name = later.name
            /\ earlier.type # later.type
            /\ before # {}
            => /\ \E j \in after : \A i \in before : j < i
               /\ \/ types[later.type].by = 0
                  \/ later.path \notin DOMAIN at /\ InClassFile(Last(later.path), later.type)

(* Old class files of the sources may be on the class path.  A type of the *)
(* sources gets members of a class file only when a name goes, from one of *)
(* the countries of the file in turn, through the type to something it     *)
(* lacks, or when the class file is not where its name says.               *)
Asked == IF walk # NoWalk THEN types[walk.type].super
         ELSE IF Item.kind = "call" THEN Front(Item.name) ELSE Item.name
Members(i) == types[i].fields \cup types[i].methods
ClassesInPlace == \A l \in DOMAIN program.holds : \A path \in DOMAIN program.holds[l] :
                        program.holds[l][path].name = path
OnlyForMissingMembers(i) ==
    types'[i].fields \cup types'[i].methods # Members(i)
    => \E k \in 1..(Len(Asked) - 1) : \E country \in ToSet(LookupCountries(next)) :
            LET through == country \o SubSeq(Asked, 1, k)
            IN  IsType(at, through) /\ at[through] = i
SourceMembersKept ==
    [][Busy /\ ClassesInPlace
        => \A i \in DOMAIN types : types[i].by > 0 => OnlyForMissingMembers(i)]_vars

(* Every hierarchy is climbed for the file in turn.  A file is blamed for  *)
(* a name it does not contain only when the name is the super type of a    *)
(* class file, or of a type whose own file is still to come or is blamed   *)
(* for it as well, or of a builtin that the sources declare: its symbol is *)
(* moved, and the declaration may then bind one that is loaded after it.   *)
Written(file) ==
    {Files[file].country} \cup {Files[file].uses[i].name : i \in DOMAIN Files[file].uses}
    \cup UNION {{type.super, Files[file].country \o <<type.name>>} :
                    type \in ToSet(Files[file].types)}
BlamedForLaterFiles ==
    \A e \in errors : e.name \notin Written(e.file) =>
        \E i \in DOMAIN types : /\ types[i].super = e.name
                               /\ \/ types[i].by > e.file
                                  \/ types[i].by = 0
                                  \/ [e EXCEPT !.file = types[i].by] \in errors
                                  \/ \E j \in DOMAIN Aliases : types[i].name = Aliases[j].of
=============================================================================
