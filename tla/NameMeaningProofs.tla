-------------------------- MODULE NameMeaningProofs --------------------------
(***************************************************************************)
(* For all programs, class paths and orders of the loaders: a name changes *)
(* its meaning within a file only by what class files bring (MeaningKept), *)
(* and a file is blamed for a name it does not contain only for types that *)
(* were not looked at before it (BlamedForLaterFiles).                     *)
(*                                                                         *)
(* A name that was found under a country of the file is found there ever   *)
(* after, so that it is never loaded again; what answers it before that    *)
(* country was not there when it was found first.  A type of the sources   *)
(* stays where it was declared, and its super type is bound or reported    *)
(* when its file comes to it: only types not come to yet are looked up for *)
(* another file.                                                           *)
(***************************************************************************)
EXTENDS NameResolutionProofs

-----------------------------------------------------------------------------
(* What a step of the last pass adds *)

(* Only loading fills the tree: new types and new fields are those of      *)
(* class files.                                                            *)
Filled ==
    /\ program' = program
    /\ \A p \in DOMAIN at : p \in DOMAIN at' /\ at'[p] = at[p]
    /\ \A p \in DOMAIN at' : p \notin DOMAIN at =>
            ~ IsType(at, Front(p)) /\ (IsType(at', p) => types'[at'[p]].by = 0)
    /\ \A i \in DOMAIN types :
            /\ i \in DOMAIN types' /\ types'[i].name = types[i].name
            /\ types'[i].by = types[i].by /\ types'[i].super = types[i].super
            /\ types[i].fields \subseteq types'[i].fields
            /\ types[i].methods \subseteq types'[i].methods
            /\ types[i].bound # Unbound => types'[i].bound # Unbound
            /\ \A field \in types'[i].fields : field \notin types[i].fields
                    => InClassFile(field, i)
    /\ \A i \in DOMAIN types' : i \notin DOMAIN types => types'[i].by = 0

LEMMA LoadAdds ==
    ASSUME NEW tree, NEW symbols, Rooted(tree, symbols), NEW class \in Class,
           NEW i \in DOMAIN symbols, NEW field \in Load(tree, symbols, class).types[i].fields,
           field \notin symbols[i].fields
    PROVE  IsType(tree, class.name) /\ tree[class.name] = i /\ field \in class.fields
<1> DEFINE load == Load(tree, symbols, class)
<1>1. IsType(tree, class.name) /\ tree[class.name] = i
    <2>1. load.types[i].fields # symbols[i].fields
        OBVIOUS
    <2> QED BY <2>1, LoadTouches
<1>2. /\ symbols \in Seq(Parts) /\ DOMAIN symbols = 1..Len(symbols)
      /\ symbols[i] \in Parts
    BY LenProperties, ElementOfSeq DEF Rooted
<1>3. CASE \/ Blocked(tree, Front(class.name))
           \/ class.name \in DOMAIN tree /\ tree[class.name] = Country
    <2>1. load.types = symbols
        BY <1>3 DEF Load
    <2> QED BY <2>1
<1>4. CASE ~ (\/ Blocked(tree, Front(class.name))
              \/ class.name \in DOMAIN tree /\ tree[class.name] = Country)
    <2>1. load.types = [symbols EXCEPT ![i].fields = @ \cup class.fields,
                                       ![i].methods = @ \cup class.methods]
        BY <1>1, <1>4 DEF Load
    <2>2. load.types[i].fields = symbols[i].fields \cup class.fields
        BY <2>1, <1>2 DEF Parts
    <2> QED BY <2>2, <1>1
<1> QED BY <1>3, <1>4

LEMMA LookupAdds ==
    ASSUME IInv, Busy, NEW name \in PathName, NEW i \in DOMAIN types,
           NEW field \in Lookup(next, name).types[i].fields, field \notin types[i].fields
    PROVE  InClassFile(field, i)
<1> DEFINE found == Lookup(next, name)
<1>1. /\ program \in Programs /\ order \in SetToSeqs(DOMAIN program.holds)
      /\ next \in DOMAIN Files /\ Rooted(at, types)
    BY BusyFacts
<1>2. PICK first : Loadable(first) /\ found.types = Load(at, types, ClassAt(first)).types
    <2> HIDE DEF found
    <2>1. found.types # types
        BY DEF found
    <2>2. \/ found.types = types
          \/ \E c \in DOMAIN LookupCountries(next), n \in 1..Len(name) :
                LET first == LookupCountries(next)[c] \o SubSeq(name, 1, n)
                IN  Loadable(first) /\ found.types = Load(at, types, ClassAt(first)).types
        BY <1>1, LookupGood DEF found
    <2> QED BY <2>1, <2>2
<1>3. /\ ClassAt(first) \in Class
      /\ \E l \in DOMAIN program.holds :
            first \in DOMAIN program.holds[l] /\ ClassAt(first) = program.holds[l][first]
    BY <1>1, <1>2, LoadableClass
<1>4. /\ IsType(at, ClassAt(first).name) /\ at[ClassAt(first).name] = i
      /\ field \in ClassAt(first).fields
    BY <1>1, <1>2, <1>3, LoadAdds
<1> QED BY <1>3, <1>4 DEF InClassFile
(* A step of the last pass adds no more than that.                         *)
LEMMA StepFills == IInv /\ Busy /\ Next => Filled
<1> SUFFICES ASSUME IInv, Busy, Next PROVE Filled
    OBVIOUS
<1> DEFINE found == Lookup(next, Asked)
           r == found.types
<1>1. /\ types \in Seq(Parts) /\ DOMAIN types = 1..Len(types) /\ Rooted(at, types)
      /\ program' = program /\ Asked \in PathName
    BY BusyFacts, StepAsks
<1>2. CASE at' = at /\ types' = types /\ answers' = answers
    BY <1>1, <1>2 DEF Filled
<1>3. CASE Follows(found)
    <2>1. /\ Loads(r) /\ DOMAIN types' = DOMAIN r
          /\ \A i \in DOMAIN r :
                /\ types'[i].fields = r[i].fields /\ types'[i].methods = r[i].methods
                /\ types'[i].name = r[i].name /\ types'[i].by = r[i].by
                /\ types'[i].super = r[i].super
                /\ types'[i].bound = r[i].bound \/ types'[i].bound # Unbound
        BY <1>3, MembersFound
    <2>2. ASSUME NEW i \in DOMAIN types, NEW field \in r[i].fields, field \notin types[i].fields
          PROVE  InClassFile(field, i)
        BY <1>1, <2>2, LookupAdds
    <2>3. Rooted(at', r) /\ Grown(at, types, at', r)
        BY <2>1 DEF Loads
    <2> HIDE DEF found, r
    <2>4. \A i \in DOMAIN types :
            /\ i \in DOMAIN types' /\ types'[i].name = types[i].name
            /\ types'[i].by = types[i].by /\ types'[i].super = types[i].super
            /\ types[i].fields \subseteq types'[i].fields
            /\ types[i].methods \subseteq types'[i].methods
            /\ types[i].bound # Unbound => types'[i].bound # Unbound
        BY <2>1, <2>3 DEF Grown
    <2>5. \A i \in DOMAIN types' : i \notin DOMAIN types => types'[i].by = 0
        BY <2>1, <2>3 DEF Grown
    <2>6. ASSUME NEW p \in DOMAIN at', p \notin DOMAIN at, IsType(at', p)
          PROVE  types'[at'[p]].by = 0
        <3>1. at'[p] \notin DOMAIN types
            BY <2>3, <2>6 DEF Grown, IsType
        <3>2. at'[p] \in DOMAIN r
            BY <2>3, <2>6, LenProperties DEF Rooted, IsType, Country
        <3> QED BY <3>1, <3>2, <2>1, <2>5
    <2>7. ASSUME NEW i \in DOMAIN types, NEW field \in types'[i].fields, field \notin types[i].fields
          PROVE  InClassFile(field, i)
        <3>1. field \in r[i].fields
            BY <2>1, <2>3 DEF Grown
        <3> QED BY <3>1, <2>2, <2>7
    <2>8. /\ \A p \in DOMAIN at : p \in DOMAIN at' /\ at'[p] = at[p]
          /\ \A p \in DOMAIN at' : p \notin DOMAIN at => ~ IsType(at, Front(p))
        BY <2>3 DEF Grown
    <2> QED BY <1>1, <2>4, <2>5, <2>6, <2>7, <2>8 DEF Filled
<1> QED BY <1>2, <1>3, StepAsks

-----------------------------------------------------------------------------
(* The meaning of a name *)

(* A path that leads to a symbol.                                          *)
There(tree, symbols, path) ==
    \/ path \in DOMAIN tree
    \/ /\ IsType(tree, Front(path))
       /\ \/ Last(path) \in symbols[tree[Front(path)]].fields
          \/ Last(path) \in symbols[tree[Front(path)]].methods

(* A path that leads only to what class files have brought.                *)
Brought(path) ==
    /\ IsType(at, path) => types[at[path]].by = 0
    /\ /\ path \notin DOMAIN at /\ IsType(at, Front(path))
       /\ Last(path) \in types[at[Front(path)]].fields
       => \/ types[at[Front(path)]].by = 0
          \/ InClassFile(Last(path), at[Front(path)])

LEMMA ReachThere ==
    ASSUME NEW tree, NEW symbols, NEW from, NEW name
    PROVE  Reach(tree, symbols, from, name) # Nothing <=> There(tree, symbols, from \o name)
<1> DEFINE path == from \o name
           owner == tree[Front(path)]
           sym == Reach(tree, symbols, from, name)
<1>1. CASE path \in DOMAIN tree
    <2>1. sym.kind \in {"country", "type"}
        BY <1>1 DEF Reach
    <2>2. Nothing.kind = "nothing"
        BY DEF Nothing
    <2> QED BY <2>1, <2>2, <1>1 DEF There
<1>2. CASE /\ path \notin DOMAIN tree /\ IsType(tree, Front(path))
           /\ Last(path) \in symbols[owner].fields
    <2>1. sym = [kind |-> "field", type |-> owner, path |-> path]
        BY <1>2 DEF Reach
    <2>2. sym.kind = "field" /\ Nothing.kind = "nothing"
        BY <2>1 DEF Nothing
    <2> QED BY <2>2, <1>2 DEF There
<1>3. CASE /\ path \notin DOMAIN tree /\ IsType(tree, Front(path))
           /\ Last(path) \in symbols[owner].methods \ symbols[owner].fields
    <2>1. sym = [kind |-> "method", type |-> owner, path |-> path]
        BY <1>3 DEF Reach
    <2>2. sym.kind = "method" /\ Nothing.kind = "nothing"
        BY <2>1 DEF Nothing
    <2> QED BY <2>2, <1>3 DEF There
<1>4. CASE /\ path \notin DOMAIN tree
           /\ ~ (/\ IsType(tree, Front(path))
                 /\ \/ Last(path) \in symbols[owner].fields
                    \/ Last(path) \in symbols[owner].methods \ symbols[owner].fields)
    <2>1. sym = Nothing
        BY <1>4 DEF Reach
    <2> QED BY <2>1, <1>4 DEF There
<1> QED BY <1>1, <1>2, <1>3, <1>4

LEMMA InClassFileKept ==
    ASSUME Filled, NEW field, NEW i, InClassFile(field, i)
    PROVE  InClassFile(field, i)'
BY DEF Filled, InClassFile, IsType

(* What is not there is only brought there by class files.                 *)
LEMMA BroughtKept ==
    ASSUME IInv, Busy, Filled, NEW path, Brought(path)
    PROVE  Brought(path)'
<1>1. \A p \in DOMAIN at : IsType(at, p) => at[p] \in DOMAIN types
    BY BusyFacts
<1>2. ASSUME IsType(at', path) PROVE types'[at'[path]].by = 0
    <2>1. CASE path \in DOMAIN at
        <3>1. IsType(at, path) /\ at'[path] = at[path]
            BY <1>2, <2>1 DEF Filled, IsType
        <3> QED BY <3>1, <2>1, <1>1 DEF Filled, Brought
    <2>2. CASE path \notin DOMAIN at
        BY <1>2, <2>2 DEF Filled, IsType
    <2> QED BY <2>1, <2>2
<1>3. ASSUME path \notin DOMAIN at', IsType(at', Front(path)),
             Last(path) \in types'[at'[Front(path)]].fields
      PROVE  \/ types'[at'[Front(path)]].by = 0
             \/ InClassFile(Last(path), at[Front(path)])'
    <2>1. CASE Front(path) \notin DOMAIN at
        BY <1>3, <2>1 DEF Filled, IsType
    <2>2. CASE Front(path) \in DOMAIN at
        <3>1. /\ IsType(at, Front(path)) /\ at'[Front(path)] = at[Front(path)]
              /\ at[Front(path)] \in DOMAIN types /\ path \notin DOMAIN at
            BY <1>1, <1>3, <2>2 DEF Filled, IsType
        <3>2. PICK i \in DOMAIN types : i = at[Front(path)]
            BY <3>1
        <3>3. CASE types[i].by = 0
            BY <3>1, <3>2, <3>3 DEF Filled
        <3>4. CASE InClassFile(Last(path), i)
            <4>1. InClassFile(Last(path), i)'
                BY <3>4, InClassFileKept
            <4> QED BY <4>1, <3>1, <3>2 DEF InClassFile
        <3>5. CASE Last(path) \in types[i].fields
            BY <3>1, <3>2, <3>3, <3>4, <3>5 DEF Brought
        <3>6. CASE Last(path) \notin types[i].fields
            BY <1>3, <3>1, <3>2, <3>4, <3>6 DEF Filled
        <3> QED BY <3>5, <3>6
    <2> QED BY <2>1, <2>2
<1>4. QED
    <2>1. Brought(path)' <=>
            /\ IsType(at', path) => types'[at'[path]].by = 0
            /\ /\ path \notin DOMAIN at' /\ IsType(at', Front(path))
               /\ Last(path) \in types'[at'[Front(path)]].fields
               => \/ types'[at'[Front(path)]].by = 0
                  \/ InClassFile(Last(path), at[Front(path)])'
        BY DEF Brought
    <2> QED BY <1>2, <1>3, <2>1
LEMMA ThereKept ==
    ASSUME IInv, Busy, Filled, NEW path, There(at, types, path)
    PROVE  There(at', types', path)
<1>1. \A p \in DOMAIN at : IsType(at, p) => at[p] \in DOMAIN types
    BY BusyFacts
<1>2. CASE path \in DOMAIN at
    BY <1>2 DEF There, Filled
<1>3. CASE path \notin DOMAIN at
    <2>1. /\ IsType(at', Front(path)) /\ at'[Front(path)] = at[Front(path)]
          /\ at[Front(path)] \in DOMAIN types
        BY <1>1, <1>3 DEF There, Filled, IsType
    <2> QED BY <2>1, <1>3 DEF There, Filled
<1> QED BY <1>2, <1>3

(* What a look-up finds without loading is the first symbol there is under *)
(* the countries of the file; it loads when there is none.                 *)
LEMMA LookupFirst ==
    ASSUME IInv, Busy, NEW name \in PathName, Lookup(next, name).sym # Nothing
    PROVE  LET found == Lookup(next, name)
               countries == LookupCountries(next)
           IN  \/ \A i \in DOMAIN countries : ~ There(at, types, countries[i] \o name)
               \/ /\ found.at = at /\ found.types = types /\ Denotes(at, types, found.sym)
                  /\ \E first \in DOMAIN countries :
                        /\ found.sym.path = countries[first] \o name
                        /\ \A i \in DOMAIN countries :
                                There(at, types, countries[i] \o name) => first <= i
<1> DEFINE found == Lookup(next, name)
           countries == LookupCountries(next)
<1>1. program \in Programs /\ next \in DOMAIN Files /\ Rooted(at, types)
    BY BusyFacts
<1>2. CASE Known(next, name) = Nothing
    BY <1>1, <1>2, ResolveFirst, ReachThere DEF Known
<1>3. CASE Known(next, name) # Nothing
    <2>1. found.at = at /\ found.types = types /\ found.sym = Known(next, name)
        BY <1>3 DEF Lookup
    <2>2. PICK first \in DOMAIN countries :
            /\ Known(next, name) = Reach(at, types, countries[first], name)
            /\ \A i \in DOMAIN countries :
                    Reach(at, types, countries[i], name) # Nothing => first <= i
        BY <1>1, <1>3, ResolveFirst DEF Known
    <2>3. countries[first] \in PathName
        BY <1>1, FileFacts
    <2>4. Denotes(at, types, found.sym) /\ found.sym.path = countries[first] \o name
        <3> DEFINE sym == Reach(at, types, countries[first], name)
        <3>1. sym # Nothing /\ found.sym = sym
            BY <1>3, <2>1, <2>2
        <3>2. Denotes(at, types, sym) /\ sym.path = countries[first] \o name
            <4> DEFINE from == countries[first]
            <4>1. from \in PathName /\ Reach(at, types, from, name) # Nothing
                BY <2>3, <3>1
            <4> HIDE DEF from
            <4>2. /\ Denotes(at, types, Reach(at, types, from, name))
                  /\ Reach(at, types, from, name).path = from \o name
                BY <4>1, ReachGood
            <4> QED BY <4>2 DEF from
        <3> HIDE DEF found, sym
        <3> QED BY <3>1, <3>2
    <2>5. \A i \in DOMAIN countries : There(at, types, countries[i] \o name) => first <= i
        BY <2>2, ReachThere
    <2> QED BY <2>1, <2>4, <2>5
<1> QED BY <1>2, <1>3

LEMMA CountriesKept ==
    ASSUME program' = program, NEW f
    PROVE  /\ LookupCountries(f)' = LookupCountries(f)
           /\ \A name, path : Places(f, name, path)' = Places(f, name, path)
<1>1. LookupCountries(f)' = LookupCountries(f)
    BY DEF LookupCountries, Files
<1> QED BY <1>1 DEF Places

(* An answer stays reachable, and what comes to answer before it was       *)
(* brought by class files.                                                 *)
Remembered == \A a \in DOMAIN answers : There(at, types, answers[a].path)
Ahead(file, name, path) ==
    {m \in DOMAIN LookupCountries(file) :
        Places(file, name, path) # {} /\ \A i \in Places(file, name, path) : m < i}
Nearer ==
    \A a \in DOMAIN answers : \A m \in Ahead(answers[a].file, answers[a].name, answers[a].path) :
        Brought(LookupCountries(answers[a].file)[m] \o answers[a].name)
MInv == Remembered /\ Nearer /\ MeaningKept

LEMMA AnswerFacts ==
    ASSUME IInv, NEW a \in DOMAIN answers
    PROVE  /\ answers[a].file \in DOMAIN Files /\ answers[a].name \in PathName
           /\ answers[a].type \in DOMAIN types /\ answers[a].path \in PathName
           /\ a \in 1..Len(answers) /\ Len(answers) \in Nat
           /\ answers \in Seq([file : DOMAIN Files, name : PathName,
                               type : DOMAIN types, path : PathName])
<1>1. answers \in Seq([file : DOMAIN Files, name : PathName, type : DOMAIN types, path : PathName])
    BY DEF IInv, TypeOK, Files
<1>2. answers[a] \in [file : DOMAIN Files, name : PathName, type : DOMAIN types, path : PathName]
    BY <1>1, ElementOfSeq, LenProperties
<1>3. a \in 1..Len(answers) /\ Len(answers) \in Nat
    BY <1>1, LenProperties
<1> QED BY <1>1, <1>2, <1>3

(* The answer a step gives is there, and nothing was before it.            *)
LEMMA NewAnswer ==
    ASSUME IInv, Busy, Next, Filled, NEW found, found = Lookup(next, Asked), Follows(found),
           found.sym # Nothing, found.sym.kind \in {"type", "field"}
    PROVE  /\ There(at', types', found.sym.path)
           /\ \A m \in Ahead(next, Asked, found.sym.path) :
                    Brought(LookupCountries(next)[m] \o Asked)
<1>1. /\ Asked \in PathName /\ Loads(found.types) /\ Denotes(at', found.types, found.sym)
    BY StepAsks, Looked DEF Follows
<1>2. There(at', types', found.sym.path)
    <2>1. CASE found.sym.kind = "type"
        BY <2>1, <1>1 DEF Denotes, There, IsType
    <2>2. CASE found.sym.kind = "field"
        <3>1. /\ IsType(at', Front(found.sym.path))
              /\ found.sym.type = at'[Front(found.sym.path)]
              /\ Last(found.sym.path) \in found.types[found.sym.type].fields
            BY <2>2, <1>1 DEF Denotes
        <3>2. found.sym.type \in DOMAIN found.types
            BY <1>1, DenotedAlive DEF Loads
        <3>3. types'[found.sym.type].fields = found.types[found.sym.type].fields
            BY <3>2, MembersFound
        <3> QED BY <3>1, <3>3 DEF There
    <2> QED BY <2>1, <2>2
<1>3. ASSUME NEW m \in Ahead(next, Asked, found.sym.path)
      PROVE  ~ There(at, types, LookupCountries(next)[m] \o Asked)
    <2>1. /\ m \in DOMAIN LookupCountries(next)
          /\ \A i \in DOMAIN LookupCountries(next) :
                found.sym.path = LookupCountries(next)[i] \o Asked => m < i
        BY DEF Ahead, Places
    <2>2. \A i \in DOMAIN LookupCountries(next) : i \in Nat
        <3>1. /\ LookupCountries(next) \in Seq(PathName)
              /\ DOMAIN LookupCountries(next) = 1..Len(LookupCountries(next))
            BY BusyFacts, FileFacts
        <3> QED BY <3>1, LenProperties
    <2>3. \/ \A i \in DOMAIN LookupCountries(next) :
                    ~ There(at, types, LookupCountries(next)[i] \o Asked)
          \/ \E first \in DOMAIN LookupCountries(next) :
                /\ found.sym.path = LookupCountries(next)[first] \o Asked
                /\ \A i \in DOMAIN LookupCountries(next) :
                        There(at, types, LookupCountries(next)[i] \o Asked) => first <= i
        BY <1>1, LookupFirst
    <2> QED BY <2>1, <2>2, <2>3
<1>4. ASSUME NEW path, ~ There(at, types, path) PROVE Brought(path)
    BY <1>4 DEF There, Brought, IsType
<1> QED BY <1>2, <1>3, <1>4

(* MeaningKept of two answers.                                             *)
Explained(earlier, later) ==
    LET before == Places(earlier.file, earlier.name, earlier.path)
        after == Places(later.file, later.name, later.path)
    IN  /\ earlier.file = later.file /\ earlier.name = later.name
        /\ earlier.type # later.type
        /\ before # {}
        => /\ \E j \in after : \A i \in before : j < i
           /\ \/ types[later.type].by = 0
              \/ later.path \notin DOMAIN at /\ InClassFile(Last(later.path), later.type)

LEMMA ExplainedKept ==
    ASSUME IInv, Busy, Filled, NEW earlier, NEW later, Explained(earlier, later),
           later.type \in DOMAIN types,
           later.path \notin DOMAIN at => IsType(at, Front(later.path))
    PROVE  Explained(earlier, later)'
<1>1. /\ Places(earlier.file, earlier.name, earlier.path)'
            = Places(earlier.file, earlier.name, earlier.path)
      /\ Places(later.file, later.name, later.path)'
            = Places(later.file, later.name, later.path)
    BY CountriesKept DEF Filled
<1>2. types[later.type].by = 0 => types'[later.type].by = 0
    BY DEF Filled
<1>3. later.path \notin DOMAIN at => later.path \notin DOMAIN at'
    BY DEF Filled
<1>4. InClassFile(Last(later.path), later.type) => InClassFile(Last(later.path), later.type)'
    BY InClassFileKept
<1> QED BY <1>1, <1>2, <1>3, <1>4 DEF Explained

(* A second answer to a name was ahead of the first one, which would have  *)
(* been found otherwise.                                                   *)
LEMMA NewExplained ==
    ASSUME IInv, MInv, Busy, Next, Filled,
           NEW found, found = Lookup(next, Asked), Follows(found),
           found.sym # Nothing, found.sym.kind \in {"type", "field"},
           NEW a \in DOMAIN answers, NEW e, e = answers[a],
           NEW l, l = [file |-> next, name |-> Asked, type |-> found.sym.type,
                       path |-> found.sym.path]
    PROVE  Explained(e, l)'
<1> DEFINE before == Places(next, Asked, e.path)
           after == Places(next, Asked, l.path)
           sym == found.sym
<1>1. program' = program /\ Asked \in PathName /\ at' = found.at
    BY StepAsks DEF Follows
<1>2. /\ l.file = next /\ l.name = Asked /\ l.type = sym.type /\ l.path = sym.path
    OBVIOUS
<1>3. SUFFICES ASSUME e.file = next, e.name = Asked, e.type # sym.type, before # {}
               PROVE  /\ \E j \in after : \A i \in before : j < i
                      /\ \/ types'[sym.type].by = 0
                         \/ sym.path \notin DOMAIN at' /\ InClassFile(Last(sym.path), sym.type)'
    <2>1. /\ e.file = next => Places(e.file, e.name, e.path)' = Places(next, e.name, e.path)
          /\ Places(l.file, l.name, l.path)' = after
        BY <1>1, <1>2, CountriesKept
    <2> HIDE DEF before, after, sym
    <2> QED BY <2>1, <1>2 DEF Explained, before
<1>4. There(at, types, e.path)
    BY DEF MInv, Remembered
<1>5. \A i \in before : /\ i \in DOMAIN LookupCountries(next)
                        /\ LookupCountries(next)[i] \o Asked = e.path
    BY DEF Places
<1>6. PICK first \in DOMAIN LookupCountries(next) :
            /\ sym.path = LookupCountries(next)[first] \o Asked
            /\ \A i \in DOMAIN LookupCountries(next) :
                    There(at, types, LookupCountries(next)[i] \o Asked) => first <= i
    <2>1. ~ \A i \in DOMAIN LookupCountries(next) :
                ~ There(at, types, LookupCountries(next)[i] \o Asked)
        BY <1>3, <1>4, <1>5
    <2>2. Asked \in PathName /\ Lookup(next, Asked).sym # Nothing /\ found = Lookup(next, Asked)
        BY <1>1
    <2> QED BY <2>1, <2>2, LookupFirst
<1>7. found.at = at /\ found.types = types /\ Denotes(at, types, sym)
    <2>1. ~ \A i \in DOMAIN LookupCountries(next) :
                ~ There(at, types, LookupCountries(next)[i] \o Asked)
        BY <1>3, <1>4, <1>5
    <2> QED BY <2>1, <1>1, LookupFirst
<1>8. LET owner == IF sym.path \in DOMAIN at THEN sym.path ELSE Front(sym.path)
      IN  at[owner] = sym.type /\ sym.type \in DOMAIN types
    <2>1. Rooted(at, types) /\ Denotes(at, types, sym) /\ sym.kind \in {"type", "field"}
        BY <1>7, BusyFacts
    <2> HIDE DEF sym
    <2> QED BY <2>1, DenotedAlive
<1>9. sym.path # e.path
    <2>1. LET owner == IF e.path \in DOMAIN at THEN e.path ELSE Front(e.path)
          IN  at[owner] = e.type
        BY DEF IInv, AnswersAlive
    <2> QED BY <2>1, <1>3, <1>8
<1>10. /\ first \in after /\ \A i \in before : first < i
    <2>1. first \in after
        BY <1>2, <1>6 DEF Places
    <2>2. ASSUME NEW i \in before PROVE first < i
        <3>1. first <= i /\ i # first
            BY <1>4, <1>5, <1>6, <1>9
        <3>2. first \in Nat /\ i \in Nat
            <4>1. /\ LookupCountries(next) \in Seq(PathName)
                  /\ DOMAIN LookupCountries(next) = 1..Len(LookupCountries(next))
                BY BusyFacts, FileFacts
            <4>2. i \in DOMAIN LookupCountries(next)
                BY <1>5
            <4> HIDE DEF before
            <4> QED BY <4>1, <4>2, LenProperties
        <3> HIDE DEF before
        <3> QED BY <3>1, <3>2
    <2> QED BY <2>1, <2>2
<1>11. Brought(sym.path)
    <2>1. first \in Ahead(e.file, e.name, e.path)
        BY <1>3, <1>10 DEF Ahead
    <2> QED BY <2>1, <1>3, <1>6 DEF MInv, Nearer
<1>12. \/ types'[sym.type].by = 0
       \/ sym.path \notin DOMAIN at' /\ InClassFile(Last(sym.path), sym.type)'
    <2>1. types[sym.type].by = 0 => types'[sym.type].by = 0
        BY <1>8 DEF Filled
    <2>2. CASE sym.kind = "type"
        <3>1. IsType(at, sym.path) /\ sym.type = at[sym.path]
            BY <1>7, <2>2 DEF Denotes
        <3> QED BY <2>1, <3>1, <1>11 DEF Brought
    <2>3. CASE sym.kind = "field"
        <3>1. /\ sym.path \notin DOMAIN at /\ IsType(at, Front(sym.path))
              /\ sym.type = at[Front(sym.path)] /\ Last(sym.path) \in types[sym.type].fields
            BY <1>7, <2>3 DEF Denotes
        <3>2. types[sym.type].by = 0 \/ InClassFile(Last(sym.path), sym.type)
            BY <3>1, <1>11 DEF Brought
        <3>3. InClassFile(Last(sym.path), sym.type) => InClassFile(Last(sym.path), sym.type)'
            BY InClassFileKept
        <3>4. sym.path \notin DOMAIN at'
            BY <3>1, <1>1, <1>7
        <3> QED BY <2>1, <3>2, <3>3, <3>4
    <2> QED BY <2>2, <2>3
<1> QED BY <1>10, <1>12

LEMMA MeaningPairs ==
    /\ MeaningKept <=> \A a, b \in DOMAIN answers : a < b => Explained(answers[a], answers[b])
    /\ MeaningKept' <=>
            \A a, b \in DOMAIN answers' : a < b => Explained(answers[a], answers[b])'
BY DEF MeaningKept, Explained

(* Of each answer the part of the invariant that is its own. *)
Own(answer) ==
    /\ There(at, types, answer.path)
    /\ \A m \in Ahead(answer.file, answer.name, answer.path) :
            Brought(LookupCountries(answer.file)[m] \o answer.name)

LEMMA OwnKept ==
    ASSUME IInv, Busy, Filled, NEW answer,
           There(at, types, answer.path) \/ There(at', types', answer.path),
           \A m \in Ahead(answer.file, answer.name, answer.path) :
                Brought(LookupCountries(answer.file)[m] \o answer.name)
    PROVE  Own(answer)'
<1> DEFINE countries == LookupCountries(answer.file)
<1>1. /\ LookupCountries(answer.file)' = countries
      /\ Ahead(answer.file, answer.name, answer.path)'
            = Ahead(answer.file, answer.name, answer.path)
    BY CountriesKept DEF Filled, Ahead
<1>2. There(at', types', answer.path)
    BY ThereKept
<1>3. ASSUME NEW m \in Ahead(answer.file, answer.name, answer.path)
      PROVE  Brought(LookupCountries(answer.file)[m] \o answer.name)'
    <2>1. PICK path : path = countries[m] \o answer.name
        OBVIOUS
    <2>2. Brought(path)'
        BY <2>1, BroughtKept
    <2> QED BY <2>1, <2>2, <1>1
<1> QED BY <1>1, <1>2, <1>3 DEF Own

LEMMA MeaningStep == IInv /\ MInv /\ Busy /\ Next => MInv'
<1> SUFFICES ASSUME IInv, MInv, Busy, Next PROVE MInv'
    OBVIOUS
<1> DEFINE found == Lookup(next, Asked)
<1>1. Filled
    BY StepFills
<1>2. ASSUME NEW a \in DOMAIN answers, NEW e, e = answers[a] PROVE Own(e)'
    BY <1>1, <1>2, OwnKept DEF MInv, Remembered, Nearer
<1>3. ASSUME NEW a \in DOMAIN answers, NEW b \in DOMAIN answers, a < b,
             NEW e, e = answers[a], NEW l, l = answers[b]
      PROVE  Explained(e, l)'
    <2>1. Explained(e, l)
        BY <1>3, MeaningPairs DEF MInv
    <2>2. l.type \in DOMAIN types /\ (l.path \notin DOMAIN at => IsType(at, Front(l.path)))
        BY <1>3, AnswerFacts DEF IInv, AnswersAlive
    <2> QED BY <2>1, <2>2, <1>1, ExplainedKept
<1>4. (\A a \in DOMAIN answers' : Own(answers[a])')
      /\ (\A a, b \in DOMAIN answers' : a < b => Explained(answers[a], answers[b])')
      => MInv'
    BY MeaningPairs DEF MInv, Own, Remembered, Nearer
<1>5. CASE answers' = answers
    <2>1. ASSUME NEW a \in DOMAIN answers PROVE Own(answers[a])'
        <3>1. PICK e : e = answers[a]
            OBVIOUS
        <3> QED BY <3>1, <1>2, <1>5
    <2>2. ASSUME NEW a \in DOMAIN answers, NEW b \in DOMAIN answers, a < b
          PROVE  Explained(answers[a], answers[b])'
        <3>1. PICK e, l : e = answers[a] /\ l = answers[b]
            OBVIOUS
        <3>2. Explained(e, l)'
            BY <2>2, <3>1, <1>3
        <3> QED BY <3>1, <3>2, <1>5
    <2> QED BY <2>1, <2>2, <1>4, <1>5
<1>6. CASE answers' # answers
    <2>1. /\ Follows(found) /\ found.sym # Nothing /\ found.sym.kind \in {"type", "field"}
          /\ answers' = Recorded(Asked, found.sym)
        BY <1>6, StepAsks DEF Follows
    <2>2. PICK l : l = [file |-> next, name |-> Asked, type |-> found.sym.type,
                        path |-> found.sym.path]
        OBVIOUS
    <2>3. /\ answers' = Append(answers, l)
          /\ l.file = next /\ l.name = Asked /\ l.path = found.sym.path
        BY <2>1, <2>2 DEF Recorded
    <2> HIDE DEF found
    <2>4. PICK n \in Nat : n = Len(answers) /\ DOMAIN answers = 1..n
        BY LenProperties DEF IInv, TypeOK
    <2>5. /\ DOMAIN answers' = 1..(n + 1) /\ answers'[n + 1] = l
          /\ \A k \in 1..n : answers'[k] = answers[k]
        <3> DEFINE S == [file : DOMAIN program.files, name : PathName,
                         type : DOMAIN types, path : PathName]
        <3>1. answers \in Seq(S \cup {l})
            <4>1. answers \in Seq(S) /\ S \subseteq S \cup {l}
                BY DEF IInv, TypeOK
            <4> HIDE DEF S
            <4> QED BY <4>1, Widened
        <3> HIDE DEF S
        <3> QED BY <3>1, <2>3, <2>4, AppendProperties, LenProperties
    <2>6. PICK f : f = found /\ f = Lookup(next, Asked) /\ f.sym # Nothing
                   /\ f.sym.kind \in {"type", "field"} /\ Follows(f)
        BY <2>1 DEF found
    <2>7. Own(l)'
        <3>1. /\ There(at', types', f.sym.path)
              /\ \A m \in Ahead(next, Asked, f.sym.path) :
                    Brought(LookupCountries(next)[m] \o Asked)
            BY <2>6, <1>1, NewAnswer
        <3> QED BY <3>1, <2>3, <2>6, <1>1, OwnKept
    <2>8. ASSUME NEW a \in 1..n, NEW e, e = answers[a] PROVE Explained(e, l)'
        <3>1. l = [file |-> next, name |-> Asked, type |-> f.sym.type, path |-> f.sym.path]
            BY <2>2, <2>6
        <3>2. a \in DOMAIN answers
            BY <2>4
        <3> QED BY <3>1, <3>2, <2>6, <2>8, <1>1, NewExplained
    <2>9. ASSUME NEW a \in 1..(n + 1) PROVE Own(answers[a])'
        <3>1. PICK e : e = answers'[a]
            OBVIOUS
        <3>2. Own(e)'
            <4>1. CASE a = n + 1
                BY <4>1, <3>1, <2>5, <2>7
            <4>2. CASE a \in 1..n
                BY <4>2, <3>1, <2>4, <2>5, <1>2
            <4> QED BY <4>1, <4>2
        <3> QED BY <3>1, <3>2
    <2>10. ASSUME NEW a \in 1..(n + 1), NEW b \in 1..(n + 1), a < b
           PROVE  Explained(answers[a], answers[b])'
        <3>1. PICK e, later : e = answers'[a] /\ later = answers'[b]
            OBVIOUS
        <3>2. a \in 1..n
            BY <2>10
        <3>3. Explained(e, later)'
            <4>1. CASE b = n + 1
                BY <4>1, <3>1, <3>2, <2>5, <2>8
            <4>2. CASE b \in 1..n
                BY <4>2, <3>1, <3>2, <2>4, <2>5, <2>10, <1>3
            <4> QED BY <4>1, <4>2
        <3> QED BY <3>1, <3>3
    <2> QED BY <2>5, <2>9, <2>10, <1>4
<1> QED BY <1>5, <1>6

(* Without answers there is nothing to keep.                               *)
LEMMA NoAnswers ==
    /\ answers = <<>> => MInv
    /\ answers' = <<>> => MInv'
BY DEF MInv, Remembered, Nearer, MeaningKept

(* A step outside of the last pass changes nothing that was answered.      *)
LEMMA OtherSteps ==
    ASSUME IInv, Next, ~ Busy
    PROVE  \/ answers' = <<>>
           \/ /\ phase \in {"bodies", "done", "crashed"}
              /\ UNCHANGED <<program, at, types, answers, errors>>
<1>1. CASE phase \in {"contexts", "collect", "builtins", "members"}
    <2>1. answers = <<>>
        BY <1>1 DEF IInv, Untouched
    <2>2. answers' = answers
        BY <1>1 DEF Next, MakeContext, Collect, ResolveBuiltin, PostCollect, ResolveSuper, Arrive,
              ClimbBound, ClimbOut, ClimbUnbound, ResolveUse, ResolveCall, NextFile, Ended, vars,
              Busy
    <2> QED BY <2>1, <2>2
<1>2. CASE phase \in {"bodies", "done", "crashed"}
    <2>1. NextFile \/ Ended
        BY <1>2 DEF Next, MakeContext, Collect, ResolveBuiltin, PostCollect, ResolveSuper, Arrive,
              ClimbBound, ClimbOut, ClimbUnbound, ResolveUse, ResolveCall
    <2> QED BY <1>2, <2>1 DEF NextFile, Ended, vars
<1> QED BY <1>1, <1>2 DEF IInv, TypeOK

LEMMA MeaningInvariance == Spec => []MInv
<1>1. Init => MInv
    BY NoAnswers DEF Init
<1>2. IInv /\ MInv /\ [Next]_vars => MInv'
    <2> SUFFICES ASSUME IInv, MInv, [Next]_vars PROVE MInv'
        OBVIOUS
    <2>1. CASE Next /\ Busy
        BY <2>1, MeaningStep
    <2>2. CASE UNCHANGED <<program, at, types, answers>>
        <3>1. /\ \A f : LookupCountries(f)' = LookupCountries(f)
              /\ \A f, name, path : /\ Places(f, name, path)' = Places(f, name, path)
                                    /\ Ahead(f, name, path)' = Ahead(f, name, path)
            BY <2>2, CountriesKept DEF Ahead
        <3>2. Remembered'
            BY <2>2 DEF MInv, Remembered
        <3>3. \A path : Brought(path) => Brought(path)'
            BY <2>2 DEF Brought, InClassFile, IsType
        <3>4. Nearer'
            BY <2>2, <3>1, <3>3 DEF MInv, Nearer
        <3>5. \A e, l : Explained(e, l) => Explained(e, l)'
            <4> TAKE e, l
            <4>1. InClassFile(Last(l.path), l.type)' = InClassFile(Last(l.path), l.type)
                BY <2>2 DEF InClassFile, IsType
            <4> QED BY <2>2, <3>1, <4>1 DEF Explained
        <3>6. MeaningKept'
            BY <2>2, <3>5, MeaningPairs DEF MInv
        <3> QED BY <3>2, <3>4, <3>6 DEF MInv
    <2>3. CASE Next /\ ~ Busy
        BY <2>2, <2>3, NoAnswers, OtherSteps
    <2> QED BY <2>1, <2>2, <2>3 DEF vars
<1> QED BY <1>1, <1>2, Inductive, PTL DEF Spec

(* Within a file a name found under one of its countries changes its       *)
(* meaning only for that of a country searched before, and only when a     *)
(* class file brought the type or the field there: whatever the files, the *)
(* class path and the order of the loaders (symbol_table.cpp, resolve).    *)
THEOREM MeaningsStay == Spec => []MeaningKept
<1>1. MInv => MeaningKept
    BY DEF MInv
<1> QED BY <1>1, MeaningInvariance, PTL

-----------------------------------------------------------------------------
(* Whom a name is reported to *)

AliasPaths == {Talmud \o <<Aliases[j].alias>> : j \in DOMAIN Aliases}
IsBuiltin(type) == \E j \in DOMAIN Aliases : type.name = Aliases[j].of
PathOf(f, k) == Files[f].country \o <<Files[f].types[k].name>>

(* A symbol of the sources is what a declaration says, and placeholders    *)
(* have no super type.                                                     *)
FromSources ==
    \A i \in DOMAIN types :
        /\ types[i].by = -1 => types[i].super = NoSuper
        /\ types[i].by > 0 =>
            \E k \in DOMAIN Files[types[i].by].types :
                /\ types[i].name = PathOf(types[i].by, k)
                /\ types[i].super = Files[types[i].by].types[k].super

(* Unless a name was taken, the types of the sources stand in the tree     *)
(* where they were declared; the class files take builtins away.           *)
Placed ==
    \A i \in DOMAIN types : types[i].by > 0 /\ ~ IsBuiltin(types[i]) =>
        /\ types[i].name \in DOMAIN at /\ at[types[i].name] = i
        /\ types[i].name \notin AliasPaths

(* The last pass has bound the super type of every type it has come to, or *)
(* has reported it to the file that declares it.                           *)
Settled(i) ==
    \/ types[i].bound # Unbound
    \/ [file |-> types[i].by, name |-> types[i].super] \in errors
Seen(f, k) == f < next \/ (f = next /\ (k < item \/ (k = item /\ walk # NoWalk)))
Attended ==
    \A f \in DOMAIN Files : \A k \in DOMAIN Files[f].types : Seen(f, k) =>
        \A i \in DOMAIN types :
            /\ types[i].by = f /\ ~ IsBuiltin(types[i])
            /\ types[i].name = PathOf(f, k) /\ types[i].super = Files[f].types[k].super
            => Settled(i)

BInv ==
    /\ FromSources
    /\ phase \in {"contexts", "collect"} => AliasPaths \subseteq DOMAIN at
    /\ \/ phase \in {"builtins", "members", "bodies"}
       \/ phase \in {"contexts", "collect"} /\ errors = {}
       => Placed
    /\ phase = "bodies" => Attended
    /\ BlamedForLaterFiles

(* Steps that keep the files, the names and super types of the symbols and *)
(* what was reported.                                                      *)
Retains ==
    /\ program' = program /\ errors \subseteq errors'
    /\ \A i \in DOMAIN types :
            /\ i \in DOMAIN types' /\ types'[i].name = types[i].name
            /\ types'[i].by = types[i].by /\ types'[i].super = types[i].super

LEMMA FilesKept ==
    ASSUME program' = program
    PROVE  /\ Files' = Files
           /\ \A f : Written(f)' = Written(f)
           /\ \A f, k : PathOf(f, k)' = PathOf(f, k)
<1>1. Files' = Files
    BY DEF Files
<1> QED BY <1>1 DEF Written, PathOf

(* An error is excused by the type whose super type it names.              *)
Excused(e) ==
    \E i \in DOMAIN types : /\ types[i].super = e.name
                           /\ \/ types[i].by > e.file \/ types[i].by = 0
                              \/ [e EXCEPT !.file = types[i].by] \in errors
                              \/ IsBuiltin(types[i])

LEMMA BlameKept ==
    ASSUME BlamedForLaterFiles, Retains,
           \A e \in errors' : e \notin errors /\ e.name \notin Written(e.file) => Excused(e)
    PROVE  BlamedForLaterFiles'
<1>1. ASSUME NEW e, Excused(e) PROVE Excused(e)'
    <2>1. PICK i \in DOMAIN types :
                /\ types[i].super = e.name
                /\ \/ types[i].by > e.file \/ types[i].by = 0
                   \/ [e EXCEPT !.file = types[i].by] \in errors
                   \/ IsBuiltin(types[i])
        BY <1>1 DEF Excused
    <2>2. /\ i \in DOMAIN types' /\ types'[i].name = types[i].name
          /\ types'[i].by = types[i].by /\ types'[i].super = types[i].super
          /\ errors \subseteq errors'
        BY DEF Retains
    <2>3. IsBuiltin(types[i]) => IsBuiltin(types[i])'
        BY <2>2 DEF IsBuiltin
    <2> QED BY <2>1, <2>2, <2>3 DEF Excused
<1>2. ASSUME NEW e \in errors', e.name \notin Written(e.file) PROVE Excused(e)'
    <2>1. Excused(e)
        BY <1>2 DEF BlamedForLaterFiles, Excused, IsBuiltin
    <2> QED BY <2>1, <1>1
<1>3. \A f : Written(f)' = Written(f)
    BY FilesKept DEF Retains
<1> QED BY <1>2, <1>3 DEF BlamedForLaterFiles, Excused, IsBuiltin

LEMMA SourcesKept ==
    ASSUME TypeOK, FromSources, Retains,
           \A i \in DOMAIN types' : i \notin DOMAIN types => types'[i].by = 0
    PROVE  FromSources'
<1>1. Files' = Files
    BY FilesKept DEF Retains
<1>2. ASSUME NEW i \in DOMAIN types'
      PROVE  /\ types'[i].by = -1 => types'[i].super = NoSuper
             /\ types'[i].by > 0 =>
                    \E k \in DOMAIN Files[types'[i].by].types :
                        /\ types'[i].name = PathOf(types'[i].by, k)
                        /\ types'[i].super = Files[types'[i].by].types[k].super
    <2>1. CASE i \in DOMAIN types
        BY <2>1 DEF FromSources, Retains
    <2>2. CASE i \notin DOMAIN types
        BY <2>2
    <2> QED BY <2>1, <2>2
<1> QED BY <1>1, <1>2 DEF FromSources, PathOf

(* What is in the tree stays there, and what is added is of class files.   *)
LEMMA PlacedKept ==
    ASSUME Placed, Retains, \A p \in DOMAIN at : p \in DOMAIN at' /\ at'[p] = at[p],
           \A i \in DOMAIN types' : i \notin DOMAIN types => types'[i].by = 0
    PROVE  Placed'
<1>1. ASSUME NEW i \in DOMAIN types', types'[i].by > 0, ~ IsBuiltin(types[i])'
      PROVE  /\ types'[i].name \in DOMAIN at' /\ at'[types'[i].name] = i
             /\ types'[i].name \notin AliasPaths
    <2>1. i \in DOMAIN types
        BY <1>1
    <2>2. types'[i].name = types[i].name /\ types'[i].by = types[i].by
        BY <2>1 DEF Retains
    <2>3. ~ IsBuiltin(types[i])
        BY <1>1, <2>2 DEF IsBuiltin
    <2> QED BY <1>1, <2>1, <2>2, <2>3 DEF Placed
<1> QED BY <1>1 DEF Placed, AliasPaths

LEMMA Declared ==
    ASSUME program \in Programs, NEW f \in DOMAIN Files
    PROVE  /\ Files[f].types \in Seq(Declaration) /\ Files[f].country \in PathName
           /\ DOMAIN Files[f].types = 1..Len(Files[f].types) /\ Len(Files[f].types) \in Nat
           /\ \A k \in DOMAIN Files[f].types :
                Files[f].types[k] \in Declaration /\ PathOf(f, k) \in PathName
<1>1. Files[f].types \in Seq(Declaration) /\ Files[f].country \in PathName
    BY FileFacts DEF SourceFile
<1>2. /\ DOMAIN Files[f].types = 1..Len(Files[f].types) /\ Len(Files[f].types) \in Nat
      /\ \A k \in DOMAIN Files[f].types : Files[f].types[k] \in Declaration
    BY <1>1, LenProperties, ElementOfSeq
<1>3. ASSUME NEW k \in DOMAIN Files[f].types PROVE PathOf(f, k) \in PathName
    <2>1. <<Files[f].types[k].name>> \in PathName
        BY <1>2, Single DEF Declaration, PathName
    <2> QED BY <1>1, <2>1, ConcatProperties DEF PathName, PathOf
<1> QED BY <1>1, <1>2, <1>3

(* At the start of the last pass nothing has been looked at.               *)
LEMMA NothingSeen ==
    ASSUME program \in Programs, program' = program, next' = 1, item' = 1, walk' = NoWalk
    PROVE  Attended'
<1>1. Files' = Files
    BY FilesKept
<1>2. ASSUME NEW f \in DOMAIN Files, NEW k \in DOMAIN Files[f].types PROVE ~ Seen(f, k)'
    <2>1. f \in Nat \ {0} /\ k \in Nat \ {0}
        BY Lengths, Declared
    <2> QED BY <2>1 DEF Seen
<1> QED BY <1>1, <1>2 DEF Attended

LEMMA InitBlames == Init => BInv
<1> SUFFICES ASSUME Init PROVE BInv
    OBVIOUS
<1>1. /\ types = [j \in DOMAIN Aliases |-> Placeholder(Aliases[j])]
      /\ phase = "contexts" /\ errors = {}
    BY DEF Init
<1>2. \A i \in DOMAIN types : types[i].by = -1 /\ types[i].super = NoSuper
    BY <1>1 DEF Placeholder, Symbol
<1>3. FromSources /\ Placed
    BY <1>2 DEF FromSources, Placed
<1>4. AliasPaths \subseteq DOMAIN at
    BY DEF Init, With, AliasPaths
<1> QED BY <1>1, <1>3, <1>4 DEF BInv, BlamedForLaterFiles

LEMMA MakeContextBlames == IInv /\ BInv /\ MakeContext => BInv'
<1> SUFFICES ASSUME IInv, BInv, MakeContext PROVE BInv'
    OBVIOUS
<1> DEFINE countries == ToSet(Tail(LookupCountries(next)))
<1>1. /\ phase = "contexts" /\ TypeOK /\ Rooted(at, types)
      /\ program \in Programs /\ next \in DOMAIN Files
      /\ UNCHANGED <<program, order, types, item, walk, collected, errors, answers>>
    <2>1. phase = "contexts" /\ TypeOK /\ program \in Programs /\ next \in 1..Len(Files)
        BY DEF MakeContext, IInv, TypeOK, Files
    <2> QED BY <2>1, Lengths DEF MakeContext, IInv
<1>2. /\ \A p \in DOMAIN at : p \in DOMAIN at' /\ at'[p] = at[p]
      /\ phase' \in {"contexts", "collect", "crashed"}
    <2>1. CASE \E country \in countries : Blocked(at, country)
        <3>1. Crash /\ at' = at
            BY <2>1 DEF MakeContext
        <3> QED BY <3>1 DEF Crash
    <2>2. CASE ~ \E country \in countries : Blocked(at, country)
        <3>1. at' = WithCountries(at, countries) /\ Advance(Len(Files), "collect")
            BY <2>2 DEF MakeContext
        <3>2. countries \in SUBSET PathName
            BY <1>1, ContextCountries
        <3> HIDE DEF countries
        <3>3. Grown(at, types, at', types)
            BY <3>1, <3>2, <2>2, <1>1, CountriesGrow
        <3>4. phase' \in {"contexts", "collect"}
            BY <3>1, <1>1 DEF Advance, ToPhase
        <3> QED BY <3>3, <3>4 DEF Grown
    <2> QED BY <2>1, <2>2
<1>3. Retains
    BY <1>1 DEF Retains
<1>4. FromSources' /\ (Placed => Placed')
    BY <1>1, <1>2, <1>3, SourcesKept, PlacedKept DEF BInv
<1>5. AliasPaths \subseteq DOMAIN at'
    BY <1>1, <1>2 DEF BInv
<1>6. BlamedForLaterFiles'
    BY <1>1, <1>3, BlameKept DEF BInv
<1>7. AliasPaths' = AliasPaths
    BY DEF AliasPaths
<1> QED BY <1>1, <1>2, <1>4, <1>5, <1>6, <1>7 DEF BInv

LEMMA PostCollectBlames == IInv /\ BInv /\ PostCollect => BInv'
<1> SUFFICES ASSUME IInv, BInv, PostCollect PROVE BInv'
    OBVIOUS
<1>1. /\ phase = "members" /\ TypeOK /\ program \in Programs /\ item = 1 /\ walk = NoWalk
      /\ UNCHANGED <<program, order, at, item, walk, collected, errors, answers>>
      /\ Advance(Len(Files), "bodies")
    BY DEF PostCollect, IInv, TypeOK, Untouched
<1>2. \A i \in DOMAIN types : types[i] \in Parts
    BY ElementOfSeq, LenProperties DEF IInv, Rooted
<1>3. /\ DOMAIN types' = DOMAIN types
      /\ \A i \in DOMAIN types : /\ types'[i].name = types[i].name
                                /\ types'[i].by = types[i].by /\ types'[i].super = types[i].super
    BY <1>2 DEF PostCollect, Parts
<1>4. Retains
    BY <1>1, <1>3 DEF Retains
<1>5. FromSources' /\ Placed'
    BY <1>1, <1>3, <1>4, SourcesKept, PlacedKept DEF BInv
<1>6. BlamedForLaterFiles'
    BY <1>1, <1>4, BlameKept DEF BInv
<1>7. phase' = "members" \/ (phase' = "bodies" /\ Attended')
    <2>1. CASE next < Len(Files)
        BY <2>1, <1>1 DEF Advance
    <2>2. CASE ~ (next < Len(Files))
        <3>1. phase' = "bodies" /\ next' = 1
            BY <2>2, <1>1 DEF Advance, ToPhase
        <3> QED BY <3>1, <1>1, NothingSeen
    <2> QED BY <2>1, <2>2
<1> QED BY <1>5, <1>6, <1>7 DEF BInv


(* A name that is taken is in the file itself; without one, every type of  *)
(* the file gets a place of its own.                                       *)
LEMMA CollectBlames == IInv /\ BInv /\ Collect => BInv'
<1> SUFFICES ASSUME IInv, BInv, Collect PROVE BInv'
    OBVIOUS
<1> DEFINE file == Files[next]
           Path(i) == file.country \o <<file.types[i].name>>
           taken == {i \in DOMAIN file.types : \/ Path(i) \in DOMAIN at
                                               \/ \E j \in 1..(i - 1) : Path(j) = Path(i)}
           fresh == DOMAIN file.types \ taken
           number == [path \in {Path(i) : i \in fresh} |-> CHOOSE i \in fresh : Path(i) = path]
           added == [path \in {Path(i) : i \in fresh} |->
                        Len(types) + (CHOOSE i \in fresh : Path(i) = path)]
<1>1. /\ phase = "collect" /\ TypeOK /\ Rooted(at, types)
      /\ program \in Programs /\ next \in DOMAIN Files /\ next \in Nat \ {0}
      /\ UNCHANGED <<program, order, item, walk, collected, answers>>
    <2>1. phase = "collect" /\ TypeOK /\ program \in Programs /\ next \in 1..Len(Files)
        BY DEF Collect, IInv, TypeOK, Files
    <2>2. next \in DOMAIN Files /\ next \in Nat \ {0}
        BY <2>1, Lengths
    <2>3. Rooted(at, types) /\ UNCHANGED <<program, order, item, walk, collected, answers>>
        BY DEF Collect, IInv
    <2> QED BY <2>1, <2>2, <2>3
<1>2. /\ at' = With(at, added) /\ types' = types \o Made
      /\ errors' = errors \cup {[file |-> next, name |-> Path(i)] : i \in taken}
                \cup (IF file.misplaced THEN {[file |-> next, name |-> file.country]} ELSE {})
      /\ IF next = Len(Files) /\ errors' # {}
         THEN ToPhase("done")
         ELSE Advance(Len(Files), IF program.java THEN "builtins" ELSE "members")
    BY DEF Collect, Made
<1>3. \A i \in DOMAIN types : i \in DOMAIN types' /\ types'[i] = types[i]
    <2>1. types' = types \o Made
        BY <1>2
    <2>2. /\ DOMAIN types = 1..Len(types) /\ Len(types) \in Nat
          /\ Len(Files[next].types) \in Nat
        BY <1>1, Declared, LenProperties DEF Rooted
    <2>3. /\ DOMAIN types' = 1..(Len(types) + Len(Files[next].types))
          /\ \A i \in DOMAIN types : types'[i] = types[i]
        BY <1>1, <2>1, CollectedSymbols
    <2> QED BY <2>2, <2>3
<1>4. Retains
    <2>1. errors \subseteq errors'
        BY <1>2
    <2> QED BY <1>1, <1>3, <2>1 DEF Retains
<1>5. ASSUME NEW i \in DOMAIN types', i \notin DOMAIN types
      PROVE  \E k \in DOMAIN file.types :
                /\ i = Len(types) + k /\ types'[i].name = Path(k) /\ types'[i].by = next
                /\ types'[i].super = file.types[k].super
    <2>1. types' = types \o Made
        BY <1>2
    <2>2. PICK k \in DOMAIN Files[next].types : i = Len(types) + k /\ types'[i] = Made[k]
        BY <1>1, <1>5, <2>1, CollectedSymbols
    <2>3. Made[k] = Symbol(Path(k), next, file.types[k].super, {}, {})
        BY DEF Made
    <2>4. /\ Made[k].name = Path(k) /\ Made[k].by = next
          /\ Made[k].super = file.types[k].super
        BY <2>3 DEF Symbol
    <2> QED BY <2>2, <2>4
<1>6. FromSources'
    <2>1. ASSUME NEW i \in DOMAIN types'
          PROVE  /\ types'[i].by = -1 => types'[i].super = NoSuper
                 /\ types'[i].by > 0 =>
                        \E k \in DOMAIN Files[types'[i].by].types :
                            /\ types'[i].name = PathOf(types'[i].by, k)
                            /\ types'[i].super = Files[types'[i].by].types[k].super
        <3>1. CASE i \in DOMAIN types
            BY <3>1, <1>3 DEF BInv, FromSources
        <3>2. CASE i \notin DOMAIN types
            <4>1. types'[i].by = next
                BY <3>2, <1>5
            <4>2. next # -1
                BY <1>1
            <4> QED BY <3>2, <4>1, <4>2, <1>5 DEF PathOf
        <3> QED BY <3>1, <3>2
    <2>2. Files' = Files
        BY <1>1, FilesKept
    <2> QED BY <2>1, <2>2 DEF FromSources, PathOf
<1>7. BlamedForLaterFiles'
    <2>1. ASSUME NEW i \in DOMAIN file.types PROVE Path(i) \in Written(next)
        <3>1. /\ file.types[i] \in ToSet(file.types)
              /\ Path(i) \in {file.types[i].super, file.country \o <<file.types[i].name>>}
            BY DEF ToSet
        <3> QED BY <3>1 DEF Written
    <2>2. file.country \in Written(next)
        BY DEF Written
    <2>3. ASSUME NEW e \in errors', e \notin errors PROVE e.name \in Written(e.file)
        <3>1. CASE \E i \in taken : e = [file |-> next, name |-> Path(i)]
            <4>1. PICK i \in taken : e = [file |-> next, name |-> Path(i)]
                BY <3>1
            <4>2. i \in DOMAIN file.types /\ e.file = next /\ e.name = Path(i)
                BY <4>1
            <4> HIDE DEF Path
            <4> QED BY <4>2, <2>1
        <3>2. CASE e = [file |-> next, name |-> file.country]
            BY <3>2, <2>2
        <3> HIDE DEF taken, file, Path
        <3> QED BY <2>3, <3>1, <3>2, <1>2
    <2> QED BY <1>4, <2>3, BlameKept DEF BInv
<1>8. \A p \in DOMAIN at : p \in DOMAIN at' /\ at'[p] = at[p]
    <2>1. \A p \in DOMAIN added : p \notin DOMAIN at
        OBVIOUS
    <2> HIDE DEF added
    <2> QED BY <1>2, <2>1 DEF With
<1>9. errors' = {} => Placed'
    <2> SUFFICES ASSUME errors' = {} PROVE Placed'
        OBVIOUS
    <2>1. errors = {} /\ taken = {}
        <3> HIDE DEF taken
        <3> QED BY <1>2
    <2>2. Placed /\ AliasPaths \subseteq DOMAIN at
        BY <1>1, <2>1 DEF BInv
    <2>3. \A k \in DOMAIN file.types : Path(k) \notin DOMAIN at /\ k \in Nat \ {0}
        <3>1. \A k \in DOMAIN file.types : Path(k) \notin DOMAIN at
            BY <2>1
        <3>2. DOMAIN file.types = 1..Len(file.types) /\ Len(file.types) \in Nat
            BY <1>1, Declared
        <3> QED BY <3>1, <3>2
    <2>4. ASSUME NEW k \in DOMAIN file.types, NEW j \in DOMAIN file.types, Path(j) = Path(k)
          PROVE  j = k
        <3>1. ~ (j < k) /\ ~ (k < j)
            <4>1. /\ ~ \E m \in 1..(k - 1) : Path(m) = Path(k)
                  /\ ~ \E m \in 1..(j - 1) : Path(m) = Path(j)
                BY <2>1
            <4>2. j \in Nat \ {0} /\ k \in Nat \ {0}
                BY <2>3
            <4>3. (j < k => j \in 1..(k - 1)) /\ (k < j => k \in 1..(j - 1))
                BY <4>2
            <4> HIDE DEF Path
            <4> QED BY <4>1, <4>3, <2>4
        <3>2. j \in Nat /\ k \in Nat
            BY <2>3
        <3> QED BY <3>1, <3>2
    <2>5. ASSUME NEW k \in DOMAIN file.types
          PROVE  Path(k) \in DOMAIN at' /\ at'[Path(k)] = Len(types) + k
        <3>1. k \in fresh /\ \A j \in fresh : Path(j) = Path(k) => j = k
            BY <2>1, <2>4
        <3>2. (CHOOSE i \in fresh : Path(i) = Path(k)) = k
            <4> HIDE DEF fresh, Path
            <4> QED BY <3>1
        <3>3. Path(k) \in DOMAIN added /\ added[Path(k)] = Len(types) + k
            <4>1. Path(k) \in {Path(i) : i \in fresh}
                BY <3>1
            <4> HIDE DEF fresh, Path
            <4> QED BY <3>2, <4>1
        <3> HIDE DEF added
        <3> QED BY <3>3, <1>2 DEF With
    <2>6. ASSUME NEW i \in DOMAIN types', types'[i].by > 0, ~ IsBuiltin(types[i])'
          PROVE  /\ types'[i].name \in DOMAIN at' /\ at'[types'[i].name] = i
                 /\ types'[i].name \notin AliasPaths
        <3>1. CASE i \in DOMAIN types
            <4>1. types'[i] = types[i] /\ ~ IsBuiltin(types[i])
                BY <3>1, <1>3, <2>6 DEF IsBuiltin
            <4> QED BY <3>1, <4>1, <2>2, <2>6, <1>8 DEF Placed
        <3>2. CASE i \notin DOMAIN types
            <4>1. PICK k \in DOMAIN file.types : i = Len(types) + k /\ types'[i].name = Path(k)
                BY <3>2, <1>5
            <4> QED BY <4>1, <2>2, <2>3, <2>5
        <3> QED BY <3>1, <3>2
    <2> QED BY <2>6 DEF Placed, AliasPaths
<1>10. /\ phase' \in {"collect", "builtins", "members", "done"}
       /\ phase' \in {"builtins", "members"} => errors' = {}
    <2>1. Len(Files) \in Nat /\ next \in 1..Len(Files)
        BY <1>1, Lengths
    <2> HIDE DEF file, taken, Path, added
    <2>2. CASE next < Len(Files)
        BY <1>1, <1>2, <2>1, <2>2 DEF Advance
    <2>3. CASE ~ (next < Len(Files))
        BY <1>2, <2>1, <2>3 DEF Advance, ToPhase
    <2> QED BY <2>2, <2>3
<1>11. AliasPaths' = AliasPaths /\ AliasPaths \subseteq DOMAIN at'
    BY <1>1, <1>8 DEF BInv, AliasPaths
<1> QED BY <1>6, <1>7, <1>9, <1>10, <1>11 DEF BInv

(* Only a builtin leaves its place.                                        *)
LEMMA ResolveBuiltinBlames == IInv /\ BInv /\ ResolveBuiltin => BInv'
<1> SUFFICES ASSUME IInv, BInv, ResolveBuiltin PROVE BInv'
    OBVIOUS
<1> DEFINE builtin == Aliases[next]
           alias == Talmud \o <<builtin.alias>>
           class == ClassAt(builtin.of)
           loaded == Load(at, types, class)
           moved == [p \in DOMAIN loaded.at \ {builtin.of} |->
                        IF p = alias THEN loaded.at[builtin.of] ELSE loaded.at[p]]
<1>1. /\ phase = "builtins" /\ TypeOK /\ Rooted(at, types)
      /\ program \in Programs /\ order \in SetToSeqs(DOMAIN program.holds)
      /\ next \in DOMAIN Aliases
      /\ UNCHANGED <<program, order, item, walk, collected, errors, answers>>
    <2>1. /\ phase = "builtins" /\ TypeOK /\ program \in Programs /\ next \in 1..Len(Aliases)
          /\ order \in SetToSeqs(DOMAIN program.holds)
        BY DEF ResolveBuiltin, IInv, TypeOK
    <2> QED BY <2>1, Lengths DEF ResolveBuiltin, IInv
<1>2. \/ at' = at /\ types' = types
      \/ Loadable(builtin.of) /\ at' = moved /\ types' = loaded.types
    BY DEF ResolveBuiltin
<1>3. phase' \in {"builtins", "members", "crashed"}
    <2>1. Advance(Len(Aliases), "members") \/ Crash
        BY DEF ResolveBuiltin
    <2> QED BY <2>1, <1>1 DEF Advance, ToPhase, Crash
<1>4. CASE at' = at /\ types' = types
    <2>1. Retains
        BY <1>1, <1>4 DEF Retains
    <2>2. FromSources' /\ Placed'
        BY <1>1, <1>4, <2>1, SourcesKept, PlacedKept DEF BInv
    <2>3. BlamedForLaterFiles'
        BY <1>1, <2>1, BlameKept DEF BInv
    <2> QED BY <1>3, <2>2, <2>3 DEF BInv
<1>5. CASE Loadable(builtin.of) /\ at' = moved /\ types' = loaded.types
    <2>1. class \in Class /\ class.name = builtin.of
        BY <1>1, <1>5, LoadableClass, ProgramsAssumption
    <2>2. Grown(at, types, loaded.at, loaded.types)
        BY <1>1, <2>1, LoadGrows
    <2>3. \A p \in DOMAIN loaded.at : p # builtin.of /\ p # alias
                => p \in DOMAIN moved /\ moved[p] = loaded.at[p]
        OBVIOUS
    <2>4. alias \in AliasPaths
        BY <1>1 DEF AliasPaths
    <2> HIDE DEF loaded, moved, alias
    <2>5. /\ Retains
          /\ \A i \in DOMAIN types' : i \notin DOMAIN types => types'[i].by = 0
        BY <1>1, <1>5, <2>2 DEF Grown, Retains
    <2>6. ASSUME NEW i \in DOMAIN types', types'[i].by > 0, ~ IsBuiltin(types[i])'
          PROVE  /\ types'[i].name \in DOMAIN at' /\ at'[types'[i].name] = i
                 /\ types'[i].name \notin AliasPaths
        <3>1. i \in DOMAIN types /\ types'[i].name = types[i].name /\ types'[i].by = types[i].by
            BY <2>5, <2>6 DEF Retains
        <3>2. ~ IsBuiltin(types[i]) /\ types[i].name # builtin.of
            BY <1>1, <2>6, <3>1 DEF IsBuiltin
        <3>3. /\ types[i].name \in DOMAIN at /\ at[types[i].name] = i
              /\ types[i].name \notin AliasPaths
            BY <1>1, <2>6, <3>1, <3>2 DEF BInv, Placed
        <3> QED BY <3>1, <3>2, <3>3, <2>2, <2>3, <2>4, <1>5 DEF Grown
    <2>7. FromSources' /\ Placed'
        BY <1>1, <2>5, <2>6, SourcesKept DEF BInv, Placed, AliasPaths
    <2>8. BlamedForLaterFiles'
        BY <1>1, <2>5, BlameKept DEF BInv
    <2> QED BY <1>3, <2>7, <2>8 DEF BInv
<1> QED BY <1>2, <1>4, <1>5


(* The super types of a file come first among its names.                   *)
LEMMA ItemsAre ==
    ASSUME program \in Programs, NEW f \in DOMAIN Files
    PROVE  /\ \E n \in Nat : DOMAIN Items(f) = 1..n
           /\ \A k \in DOMAIN Files[f].types :
                /\ k \in DOMAIN Items(f) /\ Items(f)[k].kind = "super"
                /\ Items(f)[k].in = PathOf(f, k)
                /\ Items(f)[k].name = Files[f].types[k].super
           /\ \A k \in DOMAIN Items(f) : Items(f)[k].name \in Written(f)
<1> DEFINE declared == Files[f].types
           uses == Files[f].uses
           In(type) == Files[f].country \o <<type>>
           supers == [i \in DOMAIN declared |->
                        [kind |-> "super", in |-> In(declared[i].name),
                         name |-> declared[i].super]]
           others == [i \in DOMAIN uses |->
                        [kind |-> uses[i].kind, in |-> In(uses[i].in), name |-> uses[i].name]]
           Whatever == {supers[i] : i \in DOMAIN declared} \cup {others[i] : i \in DOMAIN uses}
<1>1. /\ DOMAIN declared = 1..Len(declared) /\ DOMAIN uses = 1..Len(uses)
      /\ Len(declared) \in Nat /\ Len(uses) \in Nat
    <2>1. declared \in Seq(Declaration) /\ uses \in Seq(Use)
        BY FileFacts DEF SourceFile
    <2> QED BY <2>1, LenProperties
<1>2. /\ supers \in Seq(Whatever) /\ Len(supers) = Len(declared)
      /\ others \in Seq(Whatever) /\ Len(others) = Len(uses)
    <2>1. /\ supers \in [1..Len(declared) -> Whatever]
          /\ others \in [1..Len(uses) -> Whatever]
        BY <1>1
    <2> HIDE DEF supers, others, Whatever
    <2>2. supers \in Seq(Whatever) /\ others \in Seq(Whatever)
        BY <1>1, <2>1, SeqDef
    <2> QED BY <2>1, <2>2, <1>1, LenProperties
<1>3. Items(f) = supers \o others
    BY DEF Items
<1>4. /\ \A i \in DOMAIN declared : /\ supers[i].kind = "super" /\ supers[i].in = PathOf(f, i)
                                   /\ supers[i].name = declared[i].super
      /\ \A i \in DOMAIN uses : others[i].name = uses[i].name
    BY DEF PathOf
<1>5. /\ DOMAIN Items(f) = 1..(Len(declared) + Len(uses))
      /\ \A i \in 1..(Len(declared) + Len(uses)) : Items(f)[i] =
                IF i <= Len(declared) THEN supers[i] ELSE others[i - Len(declared)]
    <2> HIDE DEF supers, others, Whatever, declared, uses
    <2>1. /\ DOMAIN (supers \o others) = 1..(Len(supers) + Len(others))
          /\ \A i \in 1..(Len(supers) + Len(others)) : (supers \o others)[i] =
                IF i <= Len(supers) THEN supers[i] ELSE others[i - Len(supers)]
        BY <1>2, Joined
    <2> QED BY <2>1, <1>2, <1>3
<1>6. ASSUME NEW i \in DOMAIN declared PROVE declared[i].super \in Written(f)
    <2>1. /\ declared[i] \in ToSet(declared)
          /\ declared[i].super \in {declared[i].super,
                                    Files[f].country \o <<declared[i].name>>}
        BY DEF ToSet
    <2> QED BY <2>1 DEF Written
<1>7. ASSUME NEW i \in DOMAIN uses PROVE uses[i].name \in Written(f)
    BY DEF Written
<1> HIDE DEF supers, others, declared, uses
<1>8. \A k \in DOMAIN declared : k \in DOMAIN Items(f) /\ Items(f)[k] = supers[k]
    BY <1>1, <1>5
<1>9. ASSUME NEW k \in DOMAIN Items(f) PROVE Items(f)[k].name \in Written(f)
    <2>1. CASE k \in DOMAIN declared
        BY <2>1, <1>4, <1>6, <1>8
    <2>2. CASE k \notin DOMAIN declared
        <3>1. k - Len(declared) \in DOMAIN uses /\ Items(f)[k] = others[k - Len(declared)]
            BY <2>2, <1>1, <1>5
        <3> QED BY <3>1, <1>4, <1>7
    <2> QED BY <2>1, <2>2
<1>10. Len(declared) + Len(uses) \in Nat
    BY <1>1
<1> QED BY <1>4, <1>5, <1>8, <1>9, <1>10 DEF declared

(* What a step of the last pass reports, and how it goes on.               *)
Climbs(e) ==
    /\ walk # NoWalk /\ e.name = types[walk.type].super
    /\ types[walk.type].bound = Unbound /\ types[walk.type].super # NoSuper
LEMMA StepReports ==
    ASSUME IInv, Busy, Next
    PROVE  /\ next' = next /\ phase' \in {"bodies", "crashed"} /\ errors \subseteq errors'
           /\ \A e \in errors' : e \notin errors =>
                /\ e = [file |-> next, name |-> e.name]
                /\ e.name = Item.name \/ Climbs(e)
           /\ phase' = "bodies" =>
                \/ /\ item' = item
                   /\ walk # NoWalk \/ walk' = NoWalk \/ ResolveSuper \/ Item.kind # "super"
                \/ /\ item' = item + 1 /\ walk' = NoWalk
                   /\ walk # NoWalk \/ Item.kind # "super"
<1> DEFINE Reports == \A e \in errors' : e \notin errors =>
                        /\ e = [file |-> next, name |-> e.name]
                        /\ e.name = Item.name \/ Climbs(e)
           Goes == phase' = "bodies" =>
                \/ /\ item' = item
                   /\ walk # NoWalk \/ walk' = NoWalk \/ ResolveSuper \/ Item.kind # "super"
                \/ /\ item' = item + 1 /\ walk' = NoWalk
                   /\ walk # NoWalk \/ Item.kind # "super"
           Outcome == /\ next' = next /\ phase' \in {"bodies", "crashed"}
                      /\ errors \subseteq errors' /\ Reports /\ Goes
<1>1. phase = "bodies" /\ Busy
    BY BusyFacts
<1>2. ASSUME errors' = errors PROVE errors \subseteq errors' /\ Reports
    BY <1>2
<1>3. ASSUME Report(Item.name) PROVE errors \subseteq errors' /\ Reports
    <2>1. errors' = errors \cup {[file |-> next, name |-> Item.name]}
        BY <1>3 DEF Report
    <2> QED BY <2>1
<1>4. ASSUME ResolveSuper PROVE Outcome
    <2>1. /\ next' = next /\ (phase' = "crashed" \/ (phase' = "bodies" /\ item' = item))
          /\ errors' = errors \/ Report(Item.name)
        BY <1>1, <1>4 DEF ResolveSuper, Crash
    <2> HIDE DEF Reports
    <2> QED BY <2>1, <1>2, <1>3, <1>4
<1>5. ASSUME Arrive \/ ClimbBound PROVE Outcome
    <2>1. /\ next' = next /\ phase' = "bodies" /\ errors' = errors /\ walk # NoWalk
          /\ item' = item \/ (item' = item + 1 /\ walk' = NoWalk)
        BY <1>1, <1>5 DEF Arrive, ClimbBound, Done
    <2> HIDE DEF Reports
    <2> QED BY <2>1, <1>2
<1>6. ASSUME ClimbOut PROVE Outcome
    <2>1. /\ next' = next /\ phase' = "bodies"
          /\ item' = item + 1 /\ walk' = NoWalk /\ walk # NoWalk
          /\ errors' = errors \/ (Sought # <<>> /\ Report(Sought))
        BY <1>1, <1>6 DEF ClimbOut, GiveUp, Done
    <2>2. Sought = <<>> \/ Sought = Item.name
        BY DEF Sought
    <2> HIDE DEF Reports
    <2> QED BY <2>1, <2>2, <1>2, <1>3
<1>7. ASSUME ClimbUnbound PROVE Outcome
    <2> DEFINE super == types[walk.type].super
    <2>1. /\ next' = next /\ walk # NoWalk /\ super # NoSuper
          /\ types[walk.type].bound = Unbound
          /\ \/ phase' = "crashed" /\ errors' = errors
             \/ phase' = "bodies" /\ item' = item /\ errors' = errors
             \/ /\ phase' = "bodies" /\ item' = item + 1 /\ walk' = NoWalk
                /\ errors' = errors \cup {[file |-> next, name |-> n] :
                                            n \in {super, Sought} \ {<<>>}}
        BY <1>1, <1>7 DEF ClimbUnbound, Crash, Done
    <2>2. Sought = <<>> \/ Sought = Item.name
        BY DEF Sought
    <2>3. ASSUME errors' = errors \cup {[file |-> next, name |-> n] :
                                            n \in {super, Sought} \ {<<>>}}
          PROVE  errors \subseteq errors' /\ Reports
        <3>1. ASSUME NEW e \in errors', e \notin errors
              PROVE  e = [file |-> next, name |-> e.name] /\ (e.name = Item.name \/ Climbs(e))
            <4>1. PICK n \in {super, Sought} \ {<<>>} : e = [file |-> next, name |-> n]
                BY <2>3, <3>1
            <4>2. e.name = n
                BY <4>1
            <4> QED BY <4>1, <4>2, <2>1, <2>2 DEF Climbs
        <3> QED BY <2>3, <3>1
    <2> HIDE DEF Reports, super
    <2> QED BY <2>1, <2>3, <1>2
<1>8. ASSUME ResolveUse PROVE Outcome
    <2>1. /\ next' = next /\ walk' = NoWalk /\ Item.kind # "super"
          /\ (phase' = "crashed" \/ (phase' = "bodies" /\ item' = item + 1))
          /\ errors' = errors \/ Report(Item.name)
        BY <1>1, <1>8 DEF ResolveUse, Crash, Done
    <2> HIDE DEF Reports
    <2> QED BY <2>1, <1>2, <1>3
<1>9. ASSUME ResolveCall PROVE Outcome
    <2>1. /\ next' = next /\ Item.kind # "super"
          /\ \/ phase' = "crashed"
             \/ phase' = "bodies" /\ item' = item
             \/ phase' = "bodies" /\ item' = item + 1 /\ walk' = NoWalk
          /\ errors' = errors \/ Report(Item.name)
        BY <1>1, <1>9 DEF ResolveCall, Crash, Done
    <2> HIDE DEF Reports
    <2> QED BY <2>1, <1>2, <1>3
<1>10. ~ (MakeContext \/ Collect \/ ResolveBuiltin \/ PostCollect \/ NextFile \/ Ended)
    BY <1>1 DEF MakeContext, Collect, ResolveBuiltin, PostCollect, NextFile, Ended
<1>11. Outcome
    <2> HIDE DEF Outcome
    <2> QED BY <1>4, <1>5, <1>6, <1>7, <1>8, <1>9, <1>10 DEF Next
<1> QED BY <1>11


(* A climb looks up a super type that is not bound: of a class file, of a  *)
(* builtin, of a file to come or in turn, or of one before that could not  *)
(* bind it either.                                                         *)
LEMMA ClimbExcused ==
    ASSUME IInv, BInv, Busy, NEW e, e = [file |-> next, name |-> e.name], Climbs(e),
           e.name \notin Written(next)
    PROVE  Excused(e)
<1>1. PICK i \in DOMAIN types : i = walk.type
    BY BusyFacts DEF Climbs
<1>2. /\ types[i].super = e.name /\ types[i].super # NoSuper /\ types[i].bound = Unbound
      /\ types[i].by \in -1..Len(Files) /\ e.file = next
    <2>1. types[i].by \in -1..Len(Files)
        BY BusyFacts DEF TypeOK, Files
    <2>2. e.file = next
        OBVIOUS
    <2> QED BY <1>1, <2>1, <2>2 DEF Climbs
<1>3. /\ next \in DOMAIN Files /\ DOMAIN Files = 1..Len(Files)
      /\ next \in Nat /\ Len(Files) \in Nat
    <2>1. program \in Programs /\ next \in DOMAIN Files
        BY BusyFacts
    <2>2. DOMAIN Files = 1..Len(Files) /\ Len(Files) \in Nat
        BY <2>1, Lengths
    <2> QED BY <2>1, <2>2
<1>4. types[i].by # -1
    BY <1>2 DEF BInv, FromSources
<1>5. CASE types[i].by = 0 \/ types[i].by > next \/ IsBuiltin(types[i])
    BY <1>2, <1>5 DEF Excused
<1>6. CASE types[i].by \in 1..next /\ ~ IsBuiltin(types[i])
    <2>1. PICK f : f = types[i].by
        OBVIOUS
    <2>2. f \in 1..next /\ f \in DOMAIN Files
        BY <2>1, <1>3, <1>6
    <2>3. PICK k \in DOMAIN Files[f].types :
                types[i].name = PathOf(f, k) /\ types[i].super = Files[f].types[k].super
        BY <2>1, <2>2 DEF BInv, FromSources
    <2>4. f # next
        <3>1. /\ k \in DOMAIN Items(f) /\ Items(f)[k].name = types[i].super
              /\ Items(f)[k].name \in Written(f)
            BY <2>2, <2>3, BusyFacts, ItemsAre
        <3> QED BY <3>1, <1>2
    <2>5. Seen(f, k)
        BY <2>2, <2>4, <1>3 DEF Seen
    <2>6. Settled(i)
        BY <2>1, <2>2, <2>3, <2>5, <1>6, BusyFacts DEF BInv, Attended
    <2>7. [file |-> f, name |-> e.name] \in errors
        BY <2>1, <2>6, <1>2 DEF Settled
    <2>8. [e EXCEPT !.file = f] = [file |-> f, name |-> e.name]
        <3> DEFINE n == e.name
        <3>1. e = [file |-> next, name |-> n]
            OBVIOUS
        <3> HIDE DEF n
        <3>2. [e EXCEPT !.file = f] = [file |-> f, name |-> n]
            BY <3>1
        <3> QED BY <3>2 DEF n
    <2> QED BY <2>1, <2>7, <2>8, <1>2 DEF Excused
<1> QED BY <1>2, <1>3, <1>4, <1>5, <1>6

(* A type of the sources is bound, or reported, when its file comes to it. *)
LEMMA NewlySettled ==
    ASSUME IInv, BInv, ResolveSuper, phase' = "bodies", NEW i \in DOMAIN types,
           types[i].by = next, ~ IsBuiltin(types[i]), types[i].name = Item.in,
           types[i].super = Item.name, next > 0
    PROVE  Settled(i)'
<1> DEFINE found == Lookup(next, Item.name)
           self == at[Item.in]
<1>1. Busy /\ Item.kind = "super" /\ walk = NoWalk /\ phase = "bodies"
    BY BusyFacts DEF ResolveSuper
<1>2. Placed
    BY <1>1 DEF BInv
<1>3. self = i /\ types[i].by > 0
    BY <1>2 DEF Placed
<1>4. Filled /\ Item.name \in PathName
    BY <1>1, StepFills, BusyFacts DEF Next, Named
<1>5. types'[i].by = next /\ types'[i].super = Item.name
    BY <1>4 DEF Filled
<1>6. ~ (~ IsType(at, Item.in) \/ found.crashed)
    <2>1. phase' # "crashed"
        OBVIOUS
    <2> QED BY <2>1 DEF ResolveSuper, Crash
<1>7. /\ at' = found.at
      /\ \/ /\ found.sym # Nothing /\ found.sym.kind = "type"
            /\ types' = Bind(found.types, self, found.sym.type)
         \/ errors' = errors \cup {[file |-> next, name |-> Item.name]}
    BY <1>6 DEF ResolveSuper, Report
<1>8. CASE errors' = errors \cup {[file |-> next, name |-> Item.name]}
    BY <1>5, <1>8 DEF Settled
<1>9. CASE /\ found.sym # Nothing /\ found.sym.kind = "type"
           /\ types' = Bind(found.types, self, found.sym.type)
    <2> DEFINE r == found.types
               super == found.sym.type
    <2>1. /\ Rooted(at', r) /\ DOMAIN types \subseteq DOMAIN r /\ super \in DOMAIN r
        BY <1>1, <1>4, <1>7, <1>9, Looked DEF Loads
    <2>2. types' = Bind(r, i, super)
        BY <1>3, <1>9
    <2> HIDE DEF r, super, found
    <2>3. r \in Seq(Parts) /\ i \in DOMAIN r /\ super # Unbound
        BY <2>1, LenProperties DEF Rooted, Unbound
    <2>4. Bind(r, i, super)[i].bound = super
        BY <2>1, <2>3, BindFacts
    <2> QED BY <2>2, <2>3, <2>4 DEF Settled
<1> QED BY <1>7, <1>8, <1>9

LEMMA BusyBlames == IInv /\ BInv /\ Busy /\ Next => BInv'
<1> SUFFICES ASSUME IInv, BInv, Busy, Next PROVE BInv'
    OBVIOUS
<1>1. /\ Filled /\ next' = next /\ phase' \in {"bodies", "crashed"} /\ errors \subseteq errors'
      /\ phase = "bodies"
    BY StepFills, StepReports, BusyFacts
<1>2. Retains
    BY <1>1 DEF Filled, Retains
<1>3. FromSources' /\ Placed'
    BY <1>1, <1>2, BusyFacts, SourcesKept, PlacedKept DEF BInv, Filled
<1>4. BlamedForLaterFiles'
    <2>1. ASSUME NEW e \in errors', e \notin errors, e.name \notin Written(e.file)
          PROVE  Excused(e)
        <3>1. e = [file |-> next, name |-> e.name] /\ (e.name = Item.name \/ Climbs(e))
            BY <2>1, StepReports
        <3>2. e.file = next
            BY <3>1
        <3>3. Item.name \in Written(next)
            BY BusyFacts, ItemsAre DEF Item
        <3> QED BY <2>1, <3>1, <3>2, <3>3, ClimbExcused
    <2> QED BY <1>2, <2>1, BlameKept DEF BInv
<1>5. phase' = "bodies" => Attended'
    <2> SUFFICES ASSUME phase' = "bodies" PROVE Attended'
        OBVIOUS
    <2>1. /\ Files' = Files /\ \A f, k : PathOf(f, k)' = PathOf(f, k)
        BY <1>2, FilesKept DEF Retains
    <2>2. program \in Programs /\ next \in DOMAIN Files /\ TypeOK
          /\ DOMAIN Files = 1..Len(Files) /\ Len(Files) \in Nat
          /\ item \in Nat \ {0}
        BY BusyFacts, Lengths DEF TypeOK
    <2>3. ASSUME NEW f \in DOMAIN Files, NEW k \in DOMAIN Files[f].types, Seen(f, k)',
                 NEW i \in DOMAIN types', types'[i].by = f, ~ IsBuiltin(types[i])',
                 types'[i].name = PathOf(f, k), types'[i].super = Files[f].types[k].super
          PROVE  Settled(i)'
        <3>1. f \in Nat \ {0} /\ next \in Nat /\ k \in Nat \ {0}
            BY <2>2, Declared
        <3>2. i \in DOMAIN types
            BY <1>1, <2>3, <3>1 DEF Filled
        <3>3. /\ types'[i].name = types[i].name /\ types'[i].by = types[i].by
              /\ types'[i].super = types[i].super
              /\ types[i].bound # Unbound => types'[i].bound # Unbound
            BY <1>1, <3>2 DEF Filled
        <3>4. /\ types[i].by = f /\ types[i].name = PathOf(f, k)
              /\ types[i].super = Files[f].types[k].super /\ ~ IsBuiltin(types[i])
            BY <2>3, <3>3 DEF IsBuiltin
        <3>5. CASE Seen(f, k)
            <4>1. Settled(i)
                BY <1>1, <2>3, <3>2, <3>4, <3>5 DEF BInv, Attended
            <4> QED BY <1>1, <4>1, <3>3 DEF Settled
        <3>6. CASE ~ Seen(f, k)
            <4>1. f = next /\ k = item /\ walk = NoWalk /\ (ResolveSuper \/ Item.kind # "super")
                <5>1. f = next /\ (k < item' \/ (k = item' /\ walk' # NoWalk))
                    BY <1>1, <2>3, <3>6 DEF Seen
                <5>2. ~ (k < item) /\ ~ (k = item /\ walk # NoWalk)
                    BY <5>1, <3>6 DEF Seen
                <5>3. \/ /\ item' = item
                         /\ walk # NoWalk \/ walk' = NoWalk \/ ResolveSuper \/ Item.kind # "super"
                      \/ /\ item' = item + 1 /\ walk' = NoWalk
                         /\ walk # NoWalk \/ Item.kind # "super"
                    BY StepReports
                <5>4. CASE item' = item
                    BY <5>1, <5>2, <5>3, <5>4, <3>1, <2>2
                <5>5. CASE item' = item + 1
                    <6>1. k = item
                        BY <5>1, <5>2, <5>3, <5>5, <3>1, <2>2
                    <6> QED BY <6>1, <5>1, <5>2, <5>3, <5>5, <2>2
                <5> QED BY <5>3, <5>4, <5>5
            <4>2. /\ Item.kind = "super" /\ Item.in = PathOf(f, k)
                  /\ Item.name = Files[f].types[k].super
                BY <4>1, <2>2, <2>3, ItemsAre DEF Item
            <4>3. types[i].by = next /\ next > 0
                BY <3>1, <3>4, <4>1
            <4> QED BY <4>1, <4>2, <4>3, <3>2, <3>4, NewlySettled
        <3> QED BY <3>5, <3>6
    <2>4. Attended' <=>
            \A f \in DOMAIN Files : \A k \in DOMAIN Files[f].types : Seen(f, k)' =>
                \A i \in DOMAIN types' :
                    /\ types'[i].by = f /\ ~ IsBuiltin(types[i])'
                    /\ types'[i].name = PathOf(f, k) /\ types'[i].super = Files[f].types[k].super
                    => Settled(i)'
        BY <2>1 DEF Attended
    <2> QED BY <2>3, <2>4
<1> QED BY <1>1, <1>3, <1>4, <1>5 DEF BInv

LEMMA NextFileBlames == IInv /\ BInv /\ NextFile => BInv'
<1> SUFFICES ASSUME IInv, BInv, NextFile PROVE BInv'
    OBVIOUS
<1>1. /\ phase = "bodies" /\ ~ Busy /\ item' = 1 /\ TypeOK /\ program \in Programs
      /\ UNCHANGED <<program, order, at, types, walk, collected, errors, answers>>
      /\ item \in Nat \ {0} /\ next \in 1..Len(Files)
      /\ Advance(Len(Files), "done")
    BY DEF NextFile, IInv, TypeOK, Files
<1>2. Retains
    BY <1>1 DEF Retains
<1>3. FromSources' /\ Placed'
    BY <1>1, <1>2, SourcesKept, PlacedKept DEF BInv
<1>4. BlamedForLaterFiles'
    BY <1>1, <1>2, BlameKept DEF BInv
<1>5. walk = NoWalk /\ item \notin DOMAIN Items(next)
    BY <1>1 DEF Busy, IInv, Entered
<1>6. /\ DOMAIN Files = 1..Len(Files) /\ Len(Files) \in Nat /\ next \in DOMAIN Files
    BY <1>1, Lengths
<1>7. ASSUME phase' = "bodies" PROVE Attended'
    <2>1. next' = next + 1
        BY <1>1, <1>7 DEF Advance, ToPhase
    <2>2. ASSUME NEW f \in DOMAIN Files, NEW k \in DOMAIN Files[f].types, Seen(f, k)'
          PROVE  Seen(f, k)
        <3>1. f \in Nat \ {0} /\ k \in Nat \ {0} /\ next \in Nat
            BY <1>1, <1>6, Declared
        <3>2. f < next + 1
            BY <1>1, <1>5, <2>1, <2>2, <3>1 DEF Seen
        <3>3. CASE f = next
            <4>1. PICK n \in Nat : DOMAIN Items(next) = 1..n
                BY <1>1, <1>6, ItemsAre
            <4>2. k \in 1..n
                BY <3>3, <4>1, <1>1, ItemsAre
            <4>3. k < item
                BY <4>1, <4>2, <1>1, <1>5
            <4> QED BY <3>3, <4>3 DEF Seen
        <3>4. CASE f # next
            BY <3>1, <3>2, <3>4 DEF Seen
        <3> QED BY <3>3, <3>4
    <2>3. /\ Files' = Files /\ types' = types /\ errors' = errors
          /\ \A f, k : PathOf(f, k)' = PathOf(f, k)
        BY <1>1, FilesKept
    <2>4. \A i : Settled(i)' = Settled(i)
        BY <2>3 DEF Settled
    <2>5. \A i : IsBuiltin(types[i])' = IsBuiltin(types[i])
        BY <2>3 DEF IsBuiltin
    <2>6. Attended
        BY <1>1 DEF BInv
    <2> QED BY <2>2, <2>3, <2>4, <2>5, <2>6 DEF Attended
<1>8. phase' \in {"bodies", "done"}
    BY <1>1 DEF Advance, ToPhase
<1> QED BY <1>3, <1>4, <1>7, <1>8 DEF BInv

LEMMA BlameInvariance == Spec => []BInv
<1>1. Init => BInv
    BY InitBlames
<1>2. IInv /\ BInv /\ [Next]_vars => BInv'
    <2> SUFFICES ASSUME IInv, BInv, [Next]_vars PROVE BInv'
        OBVIOUS
    <2>1. CASE UNCHANGED vars
        <3>1. UNCHANGED <<program, order, at, types, phase, next, item, walk, errors>>
            BY <2>1 DEF vars
        <3>2. /\ FromSources' = FromSources /\ Placed' = Placed
              /\ AliasPaths' = AliasPaths
              /\ Attended' = Attended /\ BlamedForLaterFiles' = BlamedForLaterFiles
            BY <3>1 DEF FromSources, Placed, Attended, BlamedForLaterFiles, Seen, Settled,
                  IsBuiltin, PathOf, Written, Files, AliasPaths
        <3> QED BY <3>1, <3>2 DEF BInv
    <2>2. CASE Next /\ Busy
        BY <2>2, BusyBlames
    <2>3. CASE Next /\ ~ Busy
        <3>1. ~ (ResolveSuper \/ Arrive \/ ClimbBound \/ ClimbOut \/ ClimbUnbound
                 \/ ResolveUse \/ ResolveCall)
            BY <2>3 DEF ResolveSuper, Arrive, ClimbBound, ClimbOut, ClimbUnbound, ResolveUse,
                  ResolveCall
        <3> QED BY <2>1, <2>3, <3>1, MakeContextBlames, CollectBlames, ResolveBuiltinBlames,
                   PostCollectBlames, NextFileBlames DEF Next, Ended
    <2> QED BY <2>1, <2>2, <2>3
<1> QED BY <1>1, <1>2, Inductive, PTL DEF Spec

(* Every hierarchy is climbed for the file in turn, and yet a file is      *)
(* blamed for a name that it does not contain only for a super type of a   *)
(* class file, of a file still to come, of a builtin, or of a file that    *)
(* was blamed for it as well (analyzer.cpp; type_declaration.cpp).         *)
THEOREM BlameIsForLaterFiles == Spec => []BlamedForLaterFiles
<1>1. BInv => BlamedForLaterFiles
    BY DEF BInv
<1> QED BY <1>1, BlameInvariance, PTL


=============================================================================
