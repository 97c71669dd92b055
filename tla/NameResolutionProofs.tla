------------------------ MODULE NameResolutionProofs ------------------------
(***************************************************************************)
(* For all programs, class paths and orders of the loaders: what names are *)
(* bound to outlives every later look-up (BindingsAlive), and the members  *)
(* of class files reach the types of the sources only by names that go     *)
(* through them (SourceMembersKept).                                       *)
(*                                                                         *)
(* Once the builtins are in their places the tree of countries only grows: *)
(* nothing in it is replaced or moved, and nothing comes to stand below a  *)
(* type, as the search for a country throws there.                         *)
(***************************************************************************)
EXTENDS NameResolution, SequenceTheorems, WellFoundedInduction, TLAPS

(* The least of a set of positions is one of them, and none is before it.  *)
LEMMA MinOfPositions ==
    ASSUME NEW S \in SUBSET Nat, S # {}
    PROVE  Min(S) \in S /\ \A i \in S : Min(S) <= i
<1>1. PICK x \in S : \A y \in S : ~ (<<y, x>> \in OpToRel(<, Nat))
    BY NatLessThanWellFounded, WFMin
<1>2. ASSUME NEW y \in S PROVE x <= y
    <2>1. <<y, x>> \notin OpToRel(<, Nat)
        BY <1>1
    <2> QED BY <2>1 DEF OpToRel
<1> QED BY <1>2 DEF Min

LEMMA Single == ASSUME NEW S, NEW x \in S PROVE <<x>> \in Seq(S)
OBVIOUS

LEMMA Joined ==
    ASSUME NEW S, NEW a \in Seq(S), NEW b \in Seq(S)
    PROVE  /\ a \o b \in Seq(S) /\ DOMAIN (a \o b) = 1..(Len(a) + Len(b))
           /\ \A i \in 1..(Len(a) + Len(b)) :
                /\ (a \o b)[i] = IF i <= Len(a) THEN a[i] ELSE b[i - Len(a)]
                /\ (a \o b)[i] \in S
<1>1. /\ a \o b \in Seq(S) /\ Len(a \o b) = Len(a) + Len(b)
      /\ \A i \in 1..(Len(a) + Len(b)) :
                (a \o b)[i] = IF i <= Len(a) THEN a[i] ELSE b[i - Len(a)]
    BY ConcatProperties
<1> QED BY <1>1, LenProperties, ElementOfSeq

(* A tree of countries with its symbols.                                   *)
Rooted(tree, symbols) ==
    /\ DOMAIN tree \subseteq PathName
    /\ Global \in DOMAIN tree => tree[Global] = Country
    /\ \A path \in DOMAIN tree : tree[path] \in 0..Len(symbols)
    /\ symbols \in Seq(Parts)

(* The tree u with symbols r is t with s and what class files added: no    *)
(* path has another meaning, and none was put below a type.                *)
Grown(t, s, u, r) ==
    /\ \A p \in DOMAIN t : p \in DOMAIN u /\ u[p] = t[p]
    /\ \A p \in DOMAIN u : p \notin DOMAIN t => ~IsType(t, Front(p))
    /\ \A p \in DOMAIN u : p \notin DOMAIN t /\ u[p] # Country => u[p] \notin DOMAIN s
    /\ \A i \in DOMAIN s :
            /\ i \in DOMAIN r
            /\ r[i].name = s[i].name /\ r[i].by = s[i].by
            /\ r[i].super = s[i].super /\ r[i].bound = s[i].bound
            /\ s[i].fields \subseteq r[i].fields /\ s[i].methods \subseteq r[i].methods
    /\ \A i \in DOMAIN r : i \notin DOMAIN s => r[i].by = 0 /\ r[i].bound = Unbound

LEMMA PrefixFacts ==
    ASSUME NEW path \in PathName, NEW p \in Prefixes(path)
    PROVE  /\ p \in PathName
           /\ \/ p = <<>>
              \/ /\ \E i \in 1..Len(path) : p = SubSeq(path, 1, i)
                 /\ \/ Front(p) = <<>>
                    \/ \E i \in 1..Len(path) : Front(p) = SubSeq(path, 1, i)
<1>1. PICK n \in 0..Len(path) : p = SubSeq(path, 1, n)
    BY DEF Prefixes
<1>2. /\ Len(path) \in Nat
      /\ \A i \in 1..Len(path) : path[i] \in STRING
    BY ElementOfSeq, LenProperties DEF PathName
<1>3. p \in PathName /\ Len(p) = n
    BY <1>1, <1>2, SubSeqProperties DEF PathName
<1>4. CASE n = 0
    BY <1>3, <1>4, EmptySeq DEF PathName
<1>5. CASE n # 0
    <2>1. n \in 1..Len(path)
        BY <1>2, <1>5
    <2>2. CASE n = 1
        <3>1. Front(p) = <<>>
            BY <1>3, <2>2, SubSeqEmpty DEF Front
        <3> QED BY <3>1, <1>1, <1>3, <2>1
    <2>3. CASE n > 1
        <3>1. Front(p) = SubSeq(SubSeq(path, 1, n), 1, n - 1)
            BY <1>1, <1>3 DEF Front
        <3>2. SubSeq(SubSeq(path, 1, n), 1, n - 1) = SubSeq(path, 1, n - 1)
            BY <2>1, <2>3, <1>2, SubSeqOfSubSeq DEF PathName
        <3> QED BY <3>1, <3>2, <1>1, <1>2, <1>3, <2>1, <2>3
    <2> QED BY <2>1, <2>2, <2>3
<1> QED BY <1>2, <1>4, <1>5

LEMMA GrownReflexive ==
    ASSUME NEW t, NEW s, Rooted(t, s)
    PROVE  Grown(t, s, t, s)
BY DEF Grown

LEMMA GrownTransitive ==
    ASSUME NEW t, NEW s, NEW u, NEW r, NEW v, NEW q,
           Grown(t, s, u, r), Grown(u, r, v, q)
    PROVE  /\ \A p \in DOMAIN t : p \in DOMAIN v /\ v[p] = t[p]
           /\ \A i \in DOMAIN s : i \in DOMAIN q
BY DEF Grown

(* Countries made where no type stands in the way are only added.          *)
LEMMA CountriesGrow ==
    ASSUME NEW tree, NEW symbols, Rooted(tree, symbols), NEW paths \in SUBSET PathName,
           \A path \in paths : ~ Blocked(tree, path)
    PROVE  LET made == WithCountries(tree, paths)
           IN  Rooted(made, symbols) /\ Grown(tree, symbols, made, symbols)
<1> DEFINE made == WithCountries(tree, paths)
           names == UNION {Prefixes(path) : path \in paths}
<1>1. /\ DOMAIN made = names \cup DOMAIN tree
      /\ \A p \in DOMAIN made : made[p] = IF p \in names THEN Country ELSE tree[p]
    BY DEF WithCountries, With
<1>2. ASSUME NEW p \in names
      PROVE  /\ p \in PathName
             /\ p \in DOMAIN tree => tree[p] = Country
             /\ p \notin DOMAIN tree => ~ IsType(tree, Front(p)) \/ p = <<>>
    <2>1. PICK path \in paths : p \in Prefixes(path)
        OBVIOUS
    <2>2. /\ p \in PathName
          /\ \/ p = <<>>
             \/ /\ \E i \in 1..Len(path) : p = SubSeq(path, 1, i)
                /\ \/ Front(p) = <<>>
                   \/ \E i \in 1..Len(path) : Front(p) = SubSeq(path, 1, i)
        BY <2>1, PrefixFacts
    <2>3. ~ IsType(tree, <<>>)
        BY DEF Rooted, IsType, Global
    <2>4. \A i \in 1..Len(path) : ~ IsType(tree, SubSeq(path, 1, i))
        BY <2>1 DEF Blocked
    <2>5. ~ IsType(tree, p) /\ (p # <<>> => ~ IsType(tree, Front(p)))
        BY <2>2, <2>3, <2>4
    <2> QED BY <2>2, <2>5 DEF IsType
<1>3. ~ IsType(tree, Front(<<>>))
    <2>1. Front(<<>>) = <<>>
        BY SubSeqEmpty, EmptySeq DEF Front
    <2> QED BY <2>1 DEF Rooted, IsType, Global
<1>4. Rooted(made, symbols)
    <2>1. Len(symbols) \in Nat
        BY LenProperties DEF Rooted
    <2>2. \A p \in DOMAIN made : p \in PathName /\ made[p] \in 0..Len(symbols)
        BY <1>1, <1>2, <2>1 DEF Rooted, Country
    <2>3. Global \in DOMAIN made => made[Global] = Country
        BY <1>1 DEF Rooted
    <2> QED BY <2>2, <2>3 DEF Rooted
<1>5. Grown(tree, symbols, made, symbols)
    <2>1. \A p \in DOMAIN tree : p \in DOMAIN made /\ made[p] = tree[p]
        BY <1>1, <1>2
    <2>2. \A p \in DOMAIN made : p \notin DOMAIN tree
                => ~ IsType(tree, Front(p)) /\ made[p] = Country
        BY <1>1, <1>2, <1>3
    <2> QED BY <2>1, <2>2 DEF Grown
<1> QED BY <1>4, <1>5


(* Loading a class file adds to the tree and to the members of a type.     *)
LEMMA LoadGrows ==
    ASSUME NEW tree, NEW symbols, Rooted(tree, symbols), NEW class \in Class
    PROVE  LET load == Load(tree, symbols, class)
           IN  /\ Rooted(load.at, load.types)
               /\ Grown(tree, symbols, load.at, load.types)
               /\ Len(load.types) \in Len(symbols)..(Len(symbols) + 1)
<1> DEFINE load == Load(tree, symbols, class)
           front == Front(class.name)
           broken == \/ Blocked(tree, front)
                     \/ class.name \in DOMAIN tree /\ tree[class.name] = Country
           new == Len(symbols) + 1
<1>1. /\ class.name \in PathName /\ class.name # <<>> /\ class.super \in PathName
      /\ class.fields \in SUBSET STRING /\ class.methods \in SUBSET STRING
    BY DEF Class
<1>2. Len(symbols) \in Nat /\ DOMAIN symbols = 1..Len(symbols) /\ symbols \in Seq(Parts)
    BY LenProperties DEF Rooted
<1>3. /\ front \in PathName
      /\ ~ IsType(tree, Front(class.name)) \/ broken
    <2>1. /\ Len(class.name) \in Nat \ {0}
          /\ \A i \in 1..Len(class.name) : class.name[i] \in STRING
        BY <1>1, EmptySeq, ElementOfSeq DEF PathName
    <2>2. front \in PathName
        BY <2>1, SubSeqProperties DEF Front, PathName
    <2>3. CASE Len(front) = 0
        <3>1. front = <<>>
            BY <2>2, <2>3, EmptySeq DEF PathName
        <3> QED BY <3>1, <2>2 DEF Rooted, IsType, Global
    <2>4. CASE Len(front) # 0
        <3>1. Len(front) \in 1..Len(front)
            BY <2>2, <2>4, LenProperties DEF PathName
        <3>2. SubSeq(front, 1, Len(front)) = front
            BY <2>2, SubSeqFull DEF PathName
        <3> QED BY <3>1, <3>2, <2>2 DEF Blocked
    <2> QED BY <2>3, <2>4
<1>4. CASE broken
    <2>1. load.at = tree /\ load.types = symbols
        BY <1>4 DEF Load
    <2> QED BY <2>1, <1>2, GrownReflexive
<1>5. CASE ~ broken /\ IsType(tree, class.name)
    <2> DEFINE old == tree[class.name]
               merged == [symbols EXCEPT ![old].fields = @ \cup class.fields,
                                         ![old].methods = @ \cup class.methods]
    <2>1. load.at = tree /\ load.types = merged
        BY <1>5 DEF Load
    <2>2. old \in DOMAIN symbols
        BY <1>2, <1>5 DEF Rooted, IsType, Country
    <2>3. \A i \in DOMAIN symbols : symbols[i] \in Parts
        BY <1>2, ElementOfSeq
    <2>4. /\ DOMAIN merged = DOMAIN symbols
          /\ \A i \in DOMAIN symbols :
                /\ merged[i] \in Parts
                /\ merged[i].name = symbols[i].name /\ merged[i].by = symbols[i].by
                /\ merged[i].super = symbols[i].super /\ merged[i].bound = symbols[i].bound
                /\ symbols[i].fields \subseteq merged[i].fields
                /\ symbols[i].methods \subseteq merged[i].methods
        BY <2>2, <2>3, <1>1 DEF Parts
    <2>5. merged \in Seq(Parts) /\ Len(merged) = Len(symbols)
        <3>1. merged = [i \in 1..Len(symbols) |-> merged[i]]
            BY <1>2
        <3>2. merged \in [1..Len(symbols) -> Parts]
            <4> HIDE DEF merged
            <4> QED BY <2>4, <3>1, <1>2
        <3>3. merged \in Seq(Parts)
            <4> HIDE DEF merged
            <4> QED BY <3>2, <1>2, SeqDef
        <3>4. 1..Len(merged) = 1..Len(symbols) /\ Len(merged) \in Nat
            BY <3>3, <2>4, <1>2, LenProperties
        <3> QED BY <3>3, <3>4, <1>2
    <2>6. Rooted(tree, merged)
        BY <2>5 DEF Rooted
    <2>7. Grown(tree, symbols, tree, merged)
        BY <2>4 DEF Grown
    <2> QED BY <2>1, <2>5, <2>6, <2>7, <1>2
<1>6. CASE ~ broken /\ ~ IsType(tree, class.name)
    <2> DEFINE made == WithCountries(tree, {front})
               added == With(made, [path \in {class.name} |-> new])
               symbol == Symbol(class.name, 0, class.super, class.fields, class.methods)
    <2>1. load.at = added /\ load.types = Append(symbols, symbol)
        BY <1>6 DEF Load, WithCountry
    <2>2. symbol \in Parts /\ symbol.by = 0 /\ symbol.bound = Unbound
        BY <1>1 DEF Symbol, Parts, Unbound
    <2>3. /\ Append(symbols, symbol) \in Seq(Parts)
          /\ Len(Append(symbols, symbol)) = new
          /\ DOMAIN Append(symbols, symbol) = 1..new
          /\ \A i \in DOMAIN symbols : Append(symbols, symbol)[i] = symbols[i]
          /\ Append(symbols, symbol)[new] = symbol
        BY <1>2, <2>2, AppendProperties, LenProperties
    <2>4. front \in PathName /\ ~ Blocked(tree, front) /\ ~ IsType(tree, Front(class.name))
        BY <1>3, <1>6
    <2>5. Rooted(made, symbols) /\ Grown(tree, symbols, made, symbols)
        BY <2>4, CountriesGrow
    <2>6. /\ DOMAIN added = DOMAIN made \cup {class.name}
          /\ added[class.name] = new
          /\ \A p \in DOMAIN made : p # class.name => added[p] = made[p]
        BY DEF With
    <2>7. class.name \notin DOMAIN tree
        BY <1>6 DEF IsType
    <2> HIDE DEF made, added, symbol
    <2>8. Rooted(added, Append(symbols, symbol))
        <3>1. \A p \in DOMAIN added : p \in PathName /\ added[p] \in 0..new
            BY <2>5, <2>6, <1>1, <1>2 DEF Rooted
        <3>2. Global \in DOMAIN added => added[Global] = Country
            BY <2>5, <2>6, <1>1 DEF Rooted, Global
        <3> QED BY <2>3, <3>1, <3>2 DEF Rooted
    <2>9. Grown(tree, symbols, added, Append(symbols, symbol))
        <3>1. \A p \in DOMAIN tree : p \in DOMAIN added /\ added[p] = tree[p]
            BY <2>5, <2>6, <2>7 DEF Grown
        <3>2. \A p \in DOMAIN added : p \notin DOMAIN tree => ~ IsType(tree, Front(p))
            BY <2>4, <2>5, <2>6 DEF Grown
        <3>3. \A p \in DOMAIN added : p \notin DOMAIN tree /\ added[p] # Country
                    => added[p] \notin DOMAIN symbols
            <4>1. new \notin DOMAIN symbols
                BY <1>2
            <4>2. \A p \in DOMAIN made : p \notin DOMAIN tree /\ made[p] # Country
                    => made[p] \notin DOMAIN symbols
                BY <2>5 DEF Grown
            <4> HIDE DEF new
            <4> QED BY <2>6, <4>1, <4>2
        <3>4. \A i \in 1..new : i \notin DOMAIN symbols => i = new
            BY <1>2
        <3>5. \A i \in DOMAIN symbols : i \in 1..new
            BY <1>2
        <3> HIDE DEF new
        <3> QED BY <2>2, <2>3, <3>1, <3>2, <3>3, <3>4, <3>5 DEF Grown
    <2> QED BY <2>1, <2>3, <2>8, <2>9, <1>2
<1> QED BY <1>4, <1>5, <1>6


-----------------------------------------------------------------------------
(* Looking a name up *)

(* What a symbol found in the tree says of the tree.                       *)
Denotes(tree, symbols, sym) ==
    /\ sym.path \in PathName
    /\ sym.kind \in {"country", "type", "field", "method"}
    /\ sym.kind = "type" => IsType(tree, sym.path) /\ sym.type = tree[sym.path]
    /\ sym.kind \in {"field", "method"} =>
            /\ sym.path \notin DOMAIN tree
            /\ IsType(tree, Front(sym.path)) /\ sym.type = tree[Front(sym.path)]
    /\ sym.kind = "field" => Last(sym.path) \in symbols[sym.type].fields

LEMMA FileFacts ==
    ASSUME program \in Programs, NEW file \in DOMAIN Files
    PROVE  /\ Files[file] \in SourceFile
           /\ LookupCountries(file) \in Seq(PathName)
           /\ DOMAIN LookupCountries(file) = 1..Len(LookupCountries(file))
           /\ \A i \in DOMAIN LookupCountries(file) : LookupCountries(file)[i] \in PathName
<1>1. Files \in Seq(SourceFile)
    BY ProgramsAssumption DEF Files
<1>2. Files[file] \in SourceFile
    BY <1>1, ElementOfSeq, LenProperties
<1>3. /\ Files[file].country \in PathName
      /\ Files[file].imports \in Seq(PathName)
    BY <1>2 DEF SourceFile
<1>4. Global \in PathName
    BY EmptySeq DEF Global, PathName
<1>5. <<Global, Files[file].country>> \in Seq(PathName)
    BY <1>3, <1>4
<1>6. <<Global, Files[file].country>> \o Files[file].imports \in Seq(PathName)
    BY <1>3, <1>5, ConcatProperties
<1>7. LookupCountries(file) \in Seq(PathName)
    BY <1>6, NamesAssumption, ConcatProperties DEF LookupCountries
<1> QED BY <1>2, <1>7, LenProperties, ElementOfSeq

LEMMA ReachGood ==
    ASSUME NEW tree, NEW symbols, NEW from \in PathName, NEW name \in PathName,
           Reach(tree, symbols, from, name) # Nothing
    PROVE  /\ Denotes(tree, symbols, Reach(tree, symbols, from, name))
           /\ Reach(tree, symbols, from, name).path = from \o name
<1> DEFINE path == from \o name
           owner == tree[Front(path)]
           sym == Reach(tree, symbols, from, name)
<1>1. path \in PathName
    BY ConcatProperties DEF PathName
<1>2. CASE path \in DOMAIN tree
    <2>1. sym = [kind |-> IF tree[path] = Country THEN "country" ELSE "type",
                 type |-> tree[path], path |-> path]
        BY <1>2 DEF Reach
    <2> QED BY <2>1, <1>1, <1>2 DEF Denotes, IsType
<1>3. CASE path \notin DOMAIN tree /\ IsType(tree, Front(path))
             /\ Last(path) \in symbols[owner].fields
    <2>1. sym = [kind |-> "field", type |-> owner, path |-> path]
        BY <1>3 DEF Reach
    <2> QED BY <2>1, <1>1, <1>3 DEF Denotes
<1>4. CASE path \notin DOMAIN tree /\ IsType(tree, Front(path))
             /\ Last(path) \in symbols[owner].methods \ symbols[owner].fields
    <2>1. sym = [kind |-> "method", type |-> owner, path |-> path]
        BY <1>4 DEF Reach
    <2> QED BY <2>1, <1>1, <1>4 DEF Denotes
<1> QED BY <1>2, <1>3, <1>4 DEF Reach

(* The first country that has an answer gives it.                          *)
LEMMA ResolveFirst ==
    ASSUME program \in Programs, NEW tree, NEW symbols, NEW file \in DOMAIN Files, NEW name
    PROVE  LET countries == LookupCountries(file)
               found == ResolveFromImports(tree, symbols, file, name)
           IN  /\ found = Nothing =>
                    \A i \in DOMAIN countries : Reach(tree, symbols, countries[i], name) = Nothing
               /\ found # Nothing =>
                    \E i \in DOMAIN countries :
                        /\ found = Reach(tree, symbols, countries[i], name)
                        /\ \A j \in DOMAIN countries :
                                Reach(tree, symbols, countries[j], name) # Nothing => i <= j
<1> DEFINE countries == LookupCountries(file)
           answering == Answering(tree, symbols, file, name)
<1>1. answering \in SUBSET Nat
    BY FileFacts DEF Answering
<1>2. CASE answering = {}
    BY <1>2 DEF ResolveFromImports, Answering
<1>3. CASE answering # {}
    <2>1. Min(answering) \in answering /\ \A i \in answering : Min(answering) <= i
        BY <1>1, <1>3, MinOfPositions
    <2>2. ResolveFromImports(tree, symbols, file, name)
            = Reach(tree, symbols, countries[Min(answering)], name)
        BY <1>3 DEF ResolveFromImports
    <2> QED BY <2>1, <2>2 DEF Answering
<1> QED BY <1>2, <1>3

LEMMA Times ==
    ASSUME NEW m \in Nat, NEW q \in Nat, NEW n \in Nat \ {0}, m <= q
    PROVE  m * n <= n * q
OBVIOUS

LEMMA Quotient ==
    ASSUME NEW m \in Nat, NEW n \in Nat \ {0}, NEW a \in Nat, a < m * n
    PROVE  a \div n \in Nat /\ a % n \in 0..(n - 1) /\ a \div n < m
<1>1. a \div n \in Nat /\ a % n \in 0..(n - 1) /\ a = n * (a \div n) + (a % n)
    OBVIOUS
<1>2. ASSUME m <= a \div n PROVE FALSE
    <2>1. m * n <= n * (a \div n)
        BY <1>1, <1>2, Times
    <2> QED BY <2>1, <1>1
<1> QED BY <1>1, <1>2

(* A candidate is the beginning of the name in a country of the file.      *)
LEMMA CandidateFacts ==
    ASSUME program \in Programs, NEW file \in DOMAIN Files, NEW name \in PathName,
           NEW k \in DOMAIN Candidates(file, name)
    PROVE  \E i \in DOMAIN LookupCountries(file), n \in 1..Len(name) :
                /\ Candidates(file, name)[k].name
                        = LookupCountries(file)[i] \o SubSeq(name, 1, n)
                /\ Candidates(file, name)[k].suffix = SubSeq(name, n + 1, Len(name))
<1> DEFINE countries == LookupCountries(file)
           bases == <<Global>> \o DefaultImports \o countries
           n == Len(name)
           b == (k - 1) \div n + 1
           length == n - ((k - 1) % n)
<1>1. /\ countries \in Seq(PathName) /\ DOMAIN countries = 1..Len(countries)
      /\ Len(countries) \in Nat
    BY FileFacts, LenProperties
<1>2. <<Global>> \in Seq(PathName) /\ DefaultImports \in Seq(PathName)
    BY EmptySeq, NamesAssumption DEF Global, PathName
<1>3. /\ Len(DefaultImports) \in Nat /\ n \in Nat
      /\ <<Global>> \o DefaultImports \in Seq(PathName)
      /\ Len(<<Global>> \o DefaultImports) = 1 + Len(DefaultImports)
      /\ \A i \in 1..(1 + Len(DefaultImports)) : (<<Global>> \o DefaultImports)[i] =
                IF i <= 1 THEN Global ELSE DefaultImports[i - 1]
    BY <1>2, ConcatProperties, LenProperties DEF PathName
<1>4. /\ Len(bases) = 1 + Len(DefaultImports) + Len(countries)
      /\ \A i \in 1..Len(bases) : bases[i] =
                IF i <= 1 + Len(DefaultImports) THEN (<<Global>> \o DefaultImports)[i]
                ELSE countries[i - (1 + Len(DefaultImports))]
    BY <1>1, <1>3, ConcatProperties
<1>5. \A i \in 1..Len(bases) : \E j \in DOMAIN countries : bases[i] = countries[j]
    <2> DEFINE own == <<Global, Files[file].country>> \o Files[file].imports
    <2>1. /\ Files[file].country \in PathName /\ Files[file].imports \in Seq(PathName)
          /\ <<Global, Files[file].country>> \in Seq(PathName)
        BY FileFacts, EmptySeq DEF SourceFile, Global, PathName
    <2>2. /\ own \in Seq(PathName) /\ Len(own) \in Nat /\ Len(own) >= 2 /\ own[1] = Global
        BY <2>1, ConcatProperties, LenProperties
    <2>3. /\ Len(countries) = Len(own) + Len(DefaultImports)
          /\ \A i \in 1..Len(countries) : countries[i] =
                IF i <= Len(own) THEN own[i] ELSE DefaultImports[i - Len(own)]
        BY <2>2, <1>2, ConcatProperties DEF LookupCountries
    <2> HIDE DEF own
    <2>4. ASSUME NEW i \in 1..Len(bases), i <= 1
          PROVE  \E j \in DOMAIN countries : bases[i] = countries[j]
        <3>1. bases[i] = Global
            BY <2>4, <1>3, <1>4
        <3>2. countries[1] = Global /\ 1 \in DOMAIN countries
            BY <2>2, <2>3, <1>1, <1>3
        <3> QED BY <3>1, <3>2
    <2>5. ASSUME NEW i \in 1..Len(bases), i > 1, i <= 1 + Len(DefaultImports)
          PROVE  \E j \in DOMAIN countries : bases[i] = countries[j]
        <3>1. bases[i] = DefaultImports[i - 1]
            BY <2>5, <1>3, <1>4
        <3>2. /\ i - 1 + Len(own) \in DOMAIN countries
              /\ countries[i - 1 + Len(own)] = DefaultImports[i - 1]
            BY <2>2, <2>3, <2>5, <1>1, <1>3
        <3> QED BY <3>1, <3>2
    <2>6. ASSUME NEW i \in 1..Len(bases), i > 1 + Len(DefaultImports)
          PROVE  \E j \in DOMAIN countries : bases[i] = countries[j]
        <3>1. i - (1 + Len(DefaultImports)) \in DOMAIN countries
            BY <2>6, <1>1, <1>3, <1>4
        <3> QED BY <3>1, <2>6, <1>4
    <2> HIDE DEF bases, countries
    <2>7. Len(bases) \in Nat
        BY <1>1, <1>3, <1>4
    <2> QED BY <2>4, <2>5, <2>6, <2>7, <1>3
<1>6. /\ k \in 1..(Len(bases) * n)
      /\ Candidates(file, name)[k].name = bases[b] \o SubSeq(name, 1, length)
      /\ Candidates(file, name)[k].suffix = SubSeq(name, length + 1, n)
    BY DEF Candidates
<1>7. Len(bases) \in Nat
    BY <1>1, <1>3, <1>4
<1> HIDE DEF countries, bases, n
<1>8. n > 0
    <2>1. ASSUME n = 0 PROVE FALSE
        <3>1. Len(bases) * n = 0
            BY <2>1, <1>7
        <3> QED BY <3>1, <1>6
    <2> QED BY <2>1, <1>3
<1>9. k - 1 \in Nat /\ k - 1 < Len(bases) * n
    BY <1>3, <1>6, <1>7
<1>10. /\ (k - 1) \div n \in Nat /\ (k - 1) % n \in 0..(n - 1)
       /\ (k - 1) \div n < Len(bases)
    <2> DEFINE a == k - 1
               m == Len(bases)
    <2>1. a \in Nat /\ m \in Nat /\ n \in Nat \ {0} /\ a < m * n
        BY <1>3, <1>7, <1>8, <1>9
    <2> HIDE DEF a, m
    <2>2. a \div n \in Nat /\ a % n \in 0..(n - 1) /\ a \div n < m
        BY <2>1, Quotient
    <2> QED BY <2>2 DEF a, m
<1>11. b \in 1..Len(bases) /\ length \in 1..n
    <2> DEFINE q == (k - 1) \div n
               r == (k - 1) % n
    <2>1. q \in Nat /\ r \in 0..(n - 1) /\ q < Len(bases) /\ b = q + 1 /\ length = n - r
        BY <1>10
    <2> HIDE DEF q, r, b, length
    <2> QED BY <2>1, <1>3, <1>7, <1>8
<1> HIDE DEF b, length
<1>12. PICK i \in DOMAIN countries : bases[b] = countries[i]
    BY <1>5, <1>11
<1>13. /\ Candidates(file, name)[k].name = countries[i] \o SubSeq(name, 1, length)
       /\ Candidates(file, name)[k].suffix = SubSeq(name, length + 1, n)
    BY <1>6, <1>12
<1> QED BY <1>11, <1>12, <1>13 DEF countries, n


(* What a class loader finds is a class file of the class path.            *)
LEMMA LoadableClass ==
    ASSUME program \in Programs, order \in SetToSeqs(DOMAIN program.holds),
           NEW name, Loadable(name)
    PROVE  /\ ClassAt(name) \in Class
           /\ \E l \in DOMAIN program.holds :
                name \in DOMAIN program.holds[l] /\ ClassAt(name) = program.holds[l][name]
<1>1. /\ DOMAIN order \in SUBSET Nat
      /\ \A k \in DOMAIN order : order[k] \in DOMAIN program.holds
    BY DEF SetToSeqs
<1>2. Holders(name) \in SUBSET Nat /\ Holders(name) # {}
    BY <1>1 DEF Holders, Loadable
<1>3. Min(Holders(name)) \in Holders(name)
    BY <1>2, MinOfPositions
<1>4. \E l \in DOMAIN program.holds :
                name \in DOMAIN program.holds[l] /\ ClassAt(name) = program.holds[l][name]
    BY <1>1, <1>3 DEF Holders, ClassAt
<1> QED BY <1>4, ProgramsAssumption

(* What a look-up leaves and what it finds.  What it loads was, in one of  *)
(* the countries of the file, a beginning of the name, and the name itself *)
(* was not found.                                                          *)
LEMMA LookupGood ==
    ASSUME program \in Programs, order \in SetToSeqs(DOMAIN program.holds),
           Rooted(at, types), NEW file \in DOMAIN Files, NEW name \in PathName
    PROVE  LET found == Lookup(file, name)
           IN  /\ Rooted(found.at, found.types)
               /\ Grown(at, types, found.at, found.types)
               /\ Len(found.types) \in Len(types)..(Len(types) + 1)
               /\ found.sym # Nothing => Denotes(found.at, found.types, found.sym)
               /\ \/ found.at = at /\ found.types = types
                  \/ \E i \in DOMAIN LookupCountries(file), n \in 1..Len(name) :
                        LET first == LookupCountries(file)[i] \o SubSeq(name, 1, n)
                            loaded == Load(at, types, ClassAt(first))
                        IN  /\ Loadable(first) /\ Known(file, name) = Nothing
                            /\ found.at = loaded.at /\ found.types = loaded.types
<1> DEFINE found == Lookup(file, name)
           here == Known(file, name)
           candidates == Candidates(file, name)
           loadable == {k \in DOMAIN candidates : Loadable(candidates[k].name)}
           first == candidates[Min(loadable)]
           loaded == Load(at, types, ClassAt(first.name))
           class == ResolveFromImports(loaded.at, loaded.types, file, first.name)
<1>1. Rooted(at, types) /\ Grown(at, types, at, types) /\ Len(types) \in Nat
    BY GrownReflexive, LenProperties DEF Rooted
<1>2. CASE here # Nothing
    <2>1. found.at = at /\ found.types = types /\ found.sym = here
        BY <1>2 DEF Lookup
    <2>2. PICK i \in DOMAIN LookupCountries(file) :
                here = Reach(at, types, LookupCountries(file)[i], name)
        BY <1>2, ResolveFirst DEF Known
    <2>3. Denotes(at, types, here)
        BY <1>2, <2>2, FileFacts, ReachGood
    <2> QED BY <1>1, <2>1, <2>3
<1>3. CASE here = Nothing /\ loadable = {}
    <2>1. found.at = at /\ found.types = types /\ found.sym = Nothing
        BY <1>3 DEF Lookup
    <2> QED BY <1>1, <2>1
<1>4. CASE here = Nothing /\ loadable # {}
    <2> DEFINE sym == IF class = Nothing \/ first.suffix = <<>> THEN class
                      ELSE Reach(loaded.at, loaded.types, class.path, first.suffix)
    <2>1. found.at = loaded.at /\ found.types = loaded.types /\ found.sym = sym
        BY <1>4 DEF Lookup
    <2>2. loadable \in SUBSET Nat
        BY DEF Candidates
    <2>3. Min(loadable) \in DOMAIN candidates /\ Loadable(first.name)
        <3>1. Min(loadable) \in loadable
            BY <2>2, <1>4, MinOfPositions
        <3> QED BY <3>1
    <2>4. PICK i \in DOMAIN LookupCountries(file), n \in 1..Len(name) :
                /\ first.name = LookupCountries(file)[i] \o SubSeq(name, 1, n)
                /\ first.suffix = SubSeq(name, n + 1, Len(name))
        BY <2>3, CandidateFacts
    <2>5. /\ Rooted(loaded.at, loaded.types)
          /\ Grown(at, types, loaded.at, loaded.types)
          /\ Len(loaded.types) \in Len(types)..(Len(types) + 1)
        BY <2>3, LoadableClass, LoadGrows
    <2>6. first.name \in PathName /\ first.suffix \in PathName
        <3>1. Len(name) \in Nat /\ \A j \in 1..Len(name) : name[j] \in STRING
            BY ElementOfSeq, LenProperties DEF PathName
        <3>2. SubSeq(name, 1, n) \in PathName /\ SubSeq(name, n + 1, Len(name)) \in PathName
            BY <3>1, SubSeqProperties DEF PathName
        <3>3. LookupCountries(file)[i] \in PathName
            BY FileFacts
        <3> QED BY <2>4, <3>2, <3>3, ConcatProperties DEF PathName
    <2> HIDE DEF candidates, loadable, first, loaded
    <2>7. class # Nothing => Denotes(loaded.at, loaded.types, class)
        <3> SUFFICES ASSUME class # Nothing
                     PROVE  Denotes(loaded.at, loaded.types, class)
            OBVIOUS
        <3>1. PICK c \in DOMAIN LookupCountries(file) :
                class = Reach(loaded.at, loaded.types, LookupCountries(file)[c], first.name)
            BY ResolveFirst
        <3> HIDE DEF class
        <3>2. LookupCountries(file)[c] \in PathName
            BY FileFacts
        <3> QED BY <2>6, <3>1, <3>2, ReachGood
    <2> HIDE DEF class
    <2>8. sym # Nothing => Denotes(loaded.at, loaded.types, sym)
        <3>1. class # Nothing => class.path \in PathName
            BY <2>7 DEF Denotes
        <3> QED BY <2>6, <2>7, <3>1, ReachGood
    <2>9. found.sym # Nothing => Denotes(found.at, found.types, found.sym)
        <3> HIDE DEF sym, found
        <3> QED BY <2>1, <2>8
    <2>10. \E c \in DOMAIN LookupCountries(file), m \in 1..Len(name) :
                LET start == LookupCountries(file)[c] \o SubSeq(name, 1, m)
                IN  /\ Loadable(start)
                    /\ loaded = Load(at, types, ClassAt(start))
        BY <2>3, <2>4 DEF loaded
    <2> QED BY <1>4, <2>1, <2>5, <2>9, <2>10
<1> QED BY <1>2, <1>3, <1>4


-----------------------------------------------------------------------------
(* The inductive invariant *)

(* Before the last pass nothing is bound, and no name has been answered.   *)
Untouched ==
    /\ item = 1 /\ walk = NoWalk /\ collected = {} /\ answers = <<>>
    /\ \A i \in DOMAIN types : types[i].bound = Unbound

(* A climb is part of an item, and the types of the file in turn that have *)
(* been looked at are in the tree.                                         *)
Entered ==
    /\ walk # NoWalk => item \in DOMAIN Items(next)
    /\ \A j \in DOMAIN Items(next) :
            /\ Items(next)[j].kind = "super"
            /\ j < item \/ (j = item /\ walk # NoWalk)
            => IsType(at, Items(next)[j].in)

BoundAlive == \A i \in DOMAIN types : types[i].bound # Unbound => Alive(types[i].bound)
AnswersAlive ==
    \A k \in DOMAIN answers :
        LET owner == IF answers[k].path \in DOMAIN at THEN answers[k].path
                     ELSE Front(answers[k].path)
        IN  IsType(at, owner) /\ at[owner] = answers[k].type

IInv ==
    /\ TypeOK /\ Rooted(at, types)
    /\ phase \in {"contexts", "collect", "builtins", "members"} => Untouched
    /\ phase = "bodies" => Entered
    /\ BoundAlive /\ AnswersAlive

(* The names of a file; what is used in a type comes after that type.      *)
Named == [kind : {"super", "type", "field", "call"}, in : PathName, name : PathName]
LEMMA ItemFacts ==
    ASSUME program \in Programs, NEW file \in DOMAIN Files, NEW j \in DOMAIN Items(file)
    PROVE  /\ j \in Nat \ {0} /\ Items(file)[j] \in Named
           /\ Items(file)[j].kind # "super" =>
                /\ Items(file)[j].name # <<>>
                /\ \E k \in DOMAIN Items(file) :
                        /\ k < j /\ Items(file)[k].kind = "super"
                        /\ Items(file)[k].in = Items(file)[j].in
<1> DEFINE declared == Files[file].types
           uses == Files[file].uses
           In(type) == Files[file].country \o <<type>>
           supers == [i \in DOMAIN declared |->
                        [kind |-> "super", in |-> In(declared[i].name),
                         name |-> declared[i].super]]
           others == [i \in DOMAIN uses |->
                        [kind |-> uses[i].kind, in |-> In(uses[i].in), name |-> uses[i].name]]
<1>1. /\ Files[file].country \in PathName
      /\ declared \in Seq(Declaration) /\ uses \in Seq(Use)
    BY FileFacts DEF SourceFile
<1>2. /\ DOMAIN declared = 1..Len(declared) /\ DOMAIN uses = 1..Len(uses)
      /\ Len(declared) \in Nat /\ Len(uses) \in Nat
      /\ \A i \in DOMAIN declared : declared[i] \in Declaration
      /\ \A i \in DOMAIN uses : uses[i] \in Use
    BY <1>1, LenProperties, ElementOfSeq
<1>3. ASSUME NEW type \in STRING PROVE In(type) \in PathName
    <2> QED BY <1>1, Single, ConcatProperties DEF PathName
<1> HIDE DEF In
<1>4. /\ supers \in [1..Len(declared) -> Named]
      /\ \A i \in DOMAIN declared :
            supers[i].kind = "super" /\ supers[i].in = In(declared[i].name)
    BY <1>2, <1>3 DEF Declaration, Named
<1>5. /\ others \in [1..Len(uses) -> Named]
      /\ \A i \in DOMAIN uses :
            others[i].in = In(uses[i].in) /\ others[i].name = uses[i].name
    BY <1>2, <1>3 DEF Use, Named
<1>6. Items(file) = supers \o others
    BY DEF Items, In
<1> HIDE DEF supers, others, declared, uses
<1>7. /\ supers \in Seq(Named) /\ Len(supers) = Len(declared)
      /\ others \in Seq(Named) /\ Len(others) = Len(uses)
    <2>1. supers \in Seq(Named) /\ others \in Seq(Named)
        BY <1>2, <1>4, <1>5, SeqDef
    <2> QED BY <2>1, <1>2, <1>4, <1>5, LenProperties
<1>8. /\ j \in 1..(Len(declared) + Len(uses)) /\ Items(file)[j] \in Named
      /\ DOMAIN Items(file) = 1..(Len(declared) + Len(uses))
      /\ \A i \in 1..(Len(declared) + Len(uses)) : Items(file)[i] =
                IF i <= Len(declared) THEN supers[i] ELSE others[i - Len(declared)]
    <2>1. supers \in Seq(Named) /\ others \in Seq(Named)
        BY <1>7
    <2>2. /\ DOMAIN (supers \o others) = 1..(Len(supers) + Len(others))
          /\ \A i \in 1..(Len(supers) + Len(others)) :
                /\ (supers \o others)[i] = IF i <= Len(supers) THEN supers[i]
                                           ELSE others[i - Len(supers)]
                /\ (supers \o others)[i] \in Named
        BY <2>1, Joined
    <2> QED BY <2>2, <1>6, <1>7
<1>9. ASSUME Items(file)[j].kind # "super"
      PROVE  /\ Items(file)[j].name # <<>>
             /\ \E k \in DOMAIN Items(file) :
                    /\ k < j /\ Items(file)[k].kind = "super"
                    /\ Items(file)[k].in = Items(file)[j].in
    <2>1. j > Len(declared)
        BY <1>2, <1>4, <1>8, <1>9
    <2> DEFINE u == j - Len(declared)
    <2>2. Items(file)[j] = others[u] /\ u \in DOMAIN uses
        BY <2>1, <1>2, <1>8
    <2>3. PICK k \in DOMAIN declared : declared[k].name = uses[u].in
        BY <2>2, ProgramsAssumption DEF Files, declared, uses
    <2>4. k \in DOMAIN Items(file) /\ k < j /\ Items(file)[k] = supers[k]
        BY <2>1, <2>3, <1>2, <1>8
    <2>5. uses[u].name # <<>>
        BY <2>2, <1>2 DEF Use
    <2> HIDE DEF u
    <2> QED BY <2>2, <2>3, <2>4, <2>5, <1>4, <1>5
<1> QED BY <1>2, <1>8, <1>9

(* A symbol that a name was found to mean is in the tree.                  *)
LEMMA DenotedAlive ==
    ASSUME NEW tree, NEW symbols, Rooted(tree, symbols), NEW sym,
           Denotes(tree, symbols, sym), sym.kind \in {"type", "field"}
    PROVE  LET owner == IF sym.path \in DOMAIN tree THEN sym.path ELSE Front(sym.path)
           IN  /\ IsType(tree, owner) /\ tree[owner] = sym.type
               /\ sym.type \in DOMAIN symbols /\ sym.path \in PathName
<1> DEFINE owner == IF sym.path \in DOMAIN tree THEN sym.path ELSE Front(sym.path)
<1>1. IsType(tree, owner) /\ tree[owner] = sym.type /\ sym.path \in PathName
    BY DEF Denotes, IsType
<1>2. tree[owner] \in DOMAIN symbols
    BY <1>1, LenProperties DEF Rooted, IsType, Country
<1> QED BY <1>1, <1>2


-----------------------------------------------------------------------------
(* The steps of the last pass *)

(* Binding a super type leaves everything else of the symbols.             *)
LEMMA BindFacts ==
    ASSUME NEW symbols \in Seq(Parts), NEW w \in DOMAIN symbols, NEW super \in DOMAIN symbols
    PROVE  /\ Bind(symbols, w, super) \in Seq(Parts)
           /\ Len(Bind(symbols, w, super)) = Len(symbols)
           /\ DOMAIN Bind(symbols, w, super) = DOMAIN symbols
           /\ \A i \in DOMAIN symbols :
                /\ Bind(symbols, w, super)[i] \in Parts
                /\ Bind(symbols, w, super)[i].by = symbols[i].by
                /\ Bind(symbols, w, super)[i].name = symbols[i].name
                /\ Bind(symbols, w, super)[i].super = symbols[i].super
                /\ Bind(symbols, w, super)[i].fields = symbols[i].fields
                /\ Bind(symbols, w, super)[i].methods = symbols[i].methods
                /\ Bind(symbols, w, super)[i].bound =
                        IF i = w THEN super ELSE symbols[i].bound
<1> DEFINE bound == Bind(symbols, w, super)
<1>1. /\ DOMAIN symbols = 1..Len(symbols) /\ Len(symbols) \in Nat
      /\ \A i \in DOMAIN symbols : symbols[i] \in Parts
    BY LenProperties, ElementOfSeq
<1>2. super \in Nat
    BY <1>1
<1>3. /\ DOMAIN bound = DOMAIN symbols
      /\ \A i \in DOMAIN symbols :
            /\ bound[i] \in Parts
            /\ bound[i].by = symbols[i].by /\ bound[i].name = symbols[i].name
            /\ bound[i].super = symbols[i].super
            /\ bound[i].fields = symbols[i].fields /\ bound[i].methods = symbols[i].methods
            /\ bound[i].bound = IF i = w THEN super ELSE symbols[i].bound
    BY <1>1, <1>2 DEF Bind, Parts
<1>4. bound = [i \in 1..Len(symbols) |-> bound[i]]
    BY <1>1 DEF Bind
<1> HIDE DEF bound
<1>5. bound \in [1..Len(symbols) -> Parts]
    BY <1>1, <1>3, <1>4
<1>6. bound \in Seq(Parts) /\ Len(bound) = Len(symbols)
    <2>1. bound \in Seq(Parts)
        BY <1>1, <1>5, SeqDef
    <2>2. 1..Len(bound) = 1..Len(symbols) /\ Len(bound) \in Nat
        BY <2>1, <1>1, <1>3, LenProperties
    <2> QED BY <2>1, <2>2, <1>1
<1> QED BY <1>3, <1>6 DEF bound

(* A step of the last pass loads class files (r are the symbols then),     *)
(* binds at most one type, and records at most one answer.                 *)
Loads(r) == Rooted(at', r) /\ Grown(at, types, at', r)
Binds(r) ==
    \/ types' = r
    \/ \E w \in DOMAIN types : \E path \in DOMAIN at' :
            IsType(at', path) /\ types' = Bind(r, w, at'[path])
Answered(r) ==
    \/ answers' = answers
    \/ \E name \in PathName : \E sym :
            /\ Denotes(at', r, sym) /\ sym.kind \in {"type", "field"}
            /\ answers' = Recorded(name, sym)
Moves(r) ==
    /\ program' = program /\ order' = order /\ next' = next
    /\ errors' \subseteq errors \cup [file : {next}, name : PathName]
    /\ collected' \subseteq DOMAIN types
    /\ walk' \in {NoWalk} \cup [type : DOMAIN r, seeks : STRING \cup {""}]
Turns ==
    /\ \/ phase' = phase /\ item' = item
       \/ phase' = phase /\ item' = item + 1 /\ walk' = NoWalk
       \/ phase' = "crashed" /\ item' = item
    /\ phase' = "bodies" /\ Item.kind = "super" => walk # NoWalk \/ IsType(at, Item.in)
LooksUp(r) == Loads(r) /\ Binds(r) /\ Answered(r) /\ Moves(r) /\ Turns

Held(type) == \E path \in DOMAIN at' : at'[path] = type
LEMMA LoadsKeep ==
    ASSUME TypeOK, Rooted(at, types), NEW r, Loads(r)
    PROVE  /\ r \in Seq(Parts) /\ DOMAIN r = 1..Len(r) /\ Len(r) \in Nat
           /\ Len(types) \in Nat /\ DOMAIN types = 1..Len(types)
           /\ DOMAIN types \subseteq DOMAIN r /\ Len(types) <= Len(r)
           /\ \A path \in DOMAIN at' : IsType(at', path) => at'[path] \in DOMAIN r
<1>1. /\ r \in Seq(Parts) /\ DOMAIN r = 1..Len(r) /\ Len(r) \in Nat
      /\ Len(types) \in Nat /\ DOMAIN types = 1..Len(types)
    BY LenProperties DEF Loads, Rooted
<1>2. DOMAIN types \subseteq DOMAIN r
    BY DEF Loads, Grown
<1>3. Len(types) <= Len(r)
    BY <1>1, <1>2
<1>4. ASSUME NEW path \in DOMAIN at', IsType(at', path)
      PROVE  at'[path] \in DOMAIN r
    <2>1. at'[path] \in 0..Len(r) /\ at'[path] # 0
        BY <1>4 DEF Loads, Rooted, IsType, Country
    <2> QED BY <2>1, <1>1
<1> QED BY <1>1, <1>2, <1>3, <1>4

LEMMA BindsKeep ==
    ASSUME TypeOK, Rooted(at, types), BoundAlive, NEW r, Loads(r), Binds(r)
    PROVE  /\ types' \in Seq(Parts) /\ Len(types') = Len(r) /\ DOMAIN types' = DOMAIN r
           /\ \A i \in DOMAIN r :
                /\ types'[i].by = r[i].by
                /\ types'[i].by \in -1..Len(Files)
                /\ types'[i].bound \in 0..Len(r)
                /\ types'[i].bound # Unbound => Held(types'[i].bound)
<1>1. /\ r \in Seq(Parts) /\ DOMAIN r = 1..Len(r) /\ Len(r) \in Nat
      /\ DOMAIN types \subseteq DOMAIN r /\ Len(types) <= Len(r) /\ Len(types) \in Nat
      /\ \A path \in DOMAIN at' : IsType(at', path) => at'[path] \in DOMAIN r
    BY LoadsKeep
<1>2. /\ types' \in Seq(Parts) /\ Len(types') = Len(r) /\ DOMAIN types' = DOMAIN r
      /\ \A i \in DOMAIN r :
            /\ types'[i].by = r[i].by
            /\ \/ types'[i].bound = r[i].bound
               \/ types'[i].bound \in DOMAIN r /\ Held(types'[i].bound)
    <2>1. CASE types' = r
        BY <2>1, <1>1
    <2>2. CASE types' # r
        <3>1. PICK w \in DOMAIN types, path \in DOMAIN at' :
                    IsType(at', path) /\ types' = Bind(r, w, at'[path])
            BY <2>2 DEF Binds
        <3> DEFINE super == at'[path]
        <3>2. /\ super \in DOMAIN r /\ w \in DOMAIN r /\ Held(super)
              /\ types' = Bind(r, w, super)
            BY <3>1, <1>1 DEF Held
        <3> HIDE DEF super
        <3>3. /\ Bind(r, w, super) \in Seq(Parts) /\ Len(Bind(r, w, super)) = Len(r)
              /\ DOMAIN Bind(r, w, super) = DOMAIN r
              /\ \A i \in DOMAIN r :
                    /\ Bind(r, w, super)[i].by = r[i].by
                    /\ Bind(r, w, super)[i].bound = IF i = w THEN super ELSE r[i].bound
            <4>1. r \in Seq(Parts) /\ w \in DOMAIN r /\ super \in DOMAIN r
                BY <3>2, <1>1
            <4> QED BY <4>1, BindFacts
        <3> QED BY <3>2, <3>3
    <2> QED BY <2>1, <2>2
<1>3. ASSUME NEW i \in DOMAIN r
      PROVE  /\ r[i].by \in -1..Len(Files) /\ r[i].bound \in 0..Len(r)
             /\ r[i].bound # Unbound => Held(r[i].bound)
    <2>1. CASE i \in DOMAIN types
        <3>1. r[i].by = types[i].by /\ r[i].bound = types[i].bound
            BY <2>1 DEF Loads, Grown
        <3>2. types[i].by \in -1..Len(Files) /\ types[i].bound \in 0..Len(types)
            BY <2>1 DEF TypeOK, Files
        <3>3. types[i].bound # Unbound => Held(types[i].bound)
            BY <2>1 DEF BoundAlive, Alive, Loads, Grown, Held
        <3> QED BY <3>1, <3>2, <3>3, <1>1
    <2>2. CASE i \notin DOMAIN types
        <3>1. r[i].by = 0 /\ r[i].bound = Unbound
            BY <2>2 DEF Loads, Grown
        <3>2. Len(Files) \in Nat
            BY ProgramsAssumption, LenProperties DEF TypeOK, Files
        <3> QED BY <3>1, <3>2, <1>1 DEF Unbound
    <2> QED BY <2>1, <2>2
<1>4. DOMAIN r \subseteq 0..Len(r)
    BY <1>1
<1> QED BY <1>2, <1>3, <1>4

LEMMA Widened ==
    ASSUME NEW S, NEW T, S \subseteq T, NEW s \in Seq(S)
    PROVE  s \in Seq(T)
<1>1. /\ DOMAIN s = 1..Len(s) /\ Len(s) \in Nat /\ \A k \in DOMAIN s : s[k] \in T
    BY LenProperties, ElementOfSeq
<1>2. s \in [1..Len(s) -> S]
    BY LenProperties
<1>3. s \in [1..Len(s) -> T]
    BY <1>2
<1> QED BY <1>1, <1>3, SeqDef

LEMMA Appended ==
    ASSUME NEW S, NEW s \in Seq(S), NEW e \in S
    PROVE  /\ Append(s, e) \in Seq(S)
           /\ \A k \in DOMAIN Append(s, e) :
                \/ Append(s, e)[k] = e
                \/ k \in DOMAIN s /\ Append(s, e)[k] = s[k]
<1>1. /\ Append(s, e) \in Seq(S) /\ DOMAIN Append(s, e) = 1..(Len(s) + 1)
      /\ \A k \in 1..Len(s) : Append(s, e)[k] = s[k]
      /\ Append(s, e)[Len(s) + 1] = e
      /\ DOMAIN s = 1..Len(s) /\ Len(s) \in Nat
    BY AppendProperties, LenProperties
<1> QED BY <1>1

(* What was found stays where it was found.                                *)
LEMMA AnsweredKeep ==
    ASSUME TypeOK, Rooted(at, types), AnswersAlive, next \in DOMAIN Files,
           NEW r, Loads(r), Answered(r)
    PROVE  /\ answers' \in Seq([file : DOMAIN Files, name : PathName,
                                type : DOMAIN r, path : PathName])
           /\ AnswersAlive'
<1> DEFINE Answers(s) == [file : DOMAIN Files, name : PathName, type : s, path : PathName]
           Good(answer) ==
                LET owner == IF answer.path \in DOMAIN at' THEN answer.path
                             ELSE Front(answer.path)
                IN  IsType(at', owner) /\ at'[owner] = answer.type
<1>1. ASSUME NEW k \in DOMAIN answers PROVE Good(answers[k])
    <2> DEFINE path == answers[k].path
    <2>1. CASE path \in DOMAIN at
        BY <2>1 DEF AnswersAlive, Loads, Grown, IsType
    <2>2. CASE path \notin DOMAIN at
        <3>1. IsType(at, Front(path)) /\ at[Front(path)] = answers[k].type
            BY <2>2 DEF AnswersAlive
        <3>2. path \notin DOMAIN at'
            BY <2>2, <3>1 DEF Loads, Grown
        <3> QED BY <3>1, <3>2 DEF Loads, Grown, IsType
    <2> QED BY <2>1, <2>2
<1>2. answers \in Seq(Answers(DOMAIN r))
    <2>1. Answers(DOMAIN types) \subseteq Answers(DOMAIN r)
        BY LoadsKeep
    <2>2. answers \in Seq(Answers(DOMAIN types))
        BY DEF TypeOK, Files
    <2> HIDE DEF Answers
    <2> QED BY <2>1, <2>2, Widened
<1>3. CASE answers' = answers
    BY <1>1, <1>2, <1>3 DEF AnswersAlive
<1>4. CASE answers' # answers
    <2>1. PICK name, sym : /\ name \in PathName /\ Denotes(at', r, sym)
                           /\ sym.kind \in {"type", "field"}
                           /\ answers' = Recorded(name, sym)
        BY <1>4 DEF Answered
    <2> DEFINE new == [file |-> next, name |-> name, type |-> sym.type, path |-> sym.path]
    <2>2. Good(new) /\ sym.type \in DOMAIN r /\ sym.path \in PathName
        BY <2>1, DenotedAlive DEF Loads
    <2>3. new \in Answers(DOMAIN r) /\ answers' = Append(answers, new)
        BY <2>1, <2>2 DEF Recorded
    <2> HIDE DEF Answers, Good, new
    <2>4. /\ answers' \in Seq(Answers(DOMAIN r))
          /\ \A k \in DOMAIN answers' :
                \/ answers'[k] = new
                \/ k \in DOMAIN answers /\ answers'[k] = answers[k]
        BY <2>3, <1>2, Appended
    <2>5. \A k \in DOMAIN answers' : Good(answers'[k])
        BY <2>2, <2>4, <1>1
    <2> QED BY <2>4, <2>5 DEF Answers, Good, AnswersAlive
<1> QED BY <1>3, <1>4

(* A step of the last pass that loads, binds and answers as look-ups do    *)
(* keeps the invariant.                                                    *)
LEMMA BodiesStep ==
    ASSUME IInv, phase = "bodies", item \in DOMAIN Items(next), NEW r, LooksUp(r)
    PROVE  IInv'
<1>1. /\ TypeOK /\ Rooted(at, types) /\ Entered /\ BoundAlive /\ AnswersAlive
      /\ program \in Programs /\ next \in DOMAIN Files /\ next \in 1..Len(Files)
      /\ item \in Nat \ {0}
    <2>1. program \in Programs /\ TypeOK
        BY DEF IInv, TypeOK
    <2>2. Files \in Seq(SourceFile)
        BY <2>1, ProgramsAssumption DEF Files
    <2>3. next \in 1..Len(Files)
        BY <2>1 DEF TypeOK, Files
    <2> QED BY <2>1, <2>2, <2>3, LenProperties DEF IInv, TypeOK
<1>2. Loads(r) /\ Binds(r) /\ Answered(r) /\ Moves(r) /\ Turns
    BY DEF LooksUp
<1>3. /\ Len(types) \in Nat /\ DOMAIN types \subseteq DOMAIN r
      /\ types' \in Seq(Parts) /\ Len(types') = Len(r) /\ DOMAIN types' = DOMAIN r
      /\ \A i \in DOMAIN r :
            /\ types'[i].by \in -1..Len(Files) /\ types'[i].bound \in 0..Len(r)
            /\ types'[i].bound # Unbound => Held(types'[i].bound)
    BY <1>1, <1>2, LoadsKeep, BindsKeep
<1>4. /\ program' = program /\ order' = order /\ next' = next /\ Files' = Files
    BY <1>2 DEF Moves, Files
<1>5. /\ item' \in Nat \ {0} /\ phase' \in {"bodies", "crashed"}
    BY <1>1, <1>2 DEF Turns
<1>6. Rooted(at, types)'
    BY <1>2, <1>3 DEF Loads, Rooted
<1>7. AnswersAlive'
    BY <1>1, <1>2, AnsweredKeep
<1>8. phase' = "bodies" => Entered'
    <2> SUFFICES ASSUME phase' = "bodies", NEW j \in DOMAIN Items(next),
                        Items(next)[j].kind = "super",
                        j < item' \/ (j = item' /\ walk' # NoWalk)
                 PROVE  IsType(at', Items(next)[j].in)
        <3>1. Items(next)' = Items(next)
            BY <1>4 DEF Items
        <3>2. phase' = "bodies" /\ walk' # NoWalk => item' = item
            BY <1>2 DEF Turns
        <3> QED BY <3>1, <3>2 DEF Entered, IsType
    <2>1. j \in Nat
        BY <1>1, ItemFacts
    <2>2. IsType(at, Items(next)[j].in)
        <3>1. CASE j < item
            BY <3>1, <1>1 DEF Entered
        <3>2. CASE ~ (j < item)
            <4>1. j = item
                BY <3>2, <2>1, <1>1, <1>2, <1>5 DEF Turns
            <4>2. Item.kind = "super" => walk # NoWalk \/ IsType(at, Item.in)
                BY <1>2 DEF Turns
            <4> QED BY <4>1, <4>2, <1>1 DEF Entered, Item
        <3> QED BY <3>1, <3>2
    <2> QED BY <2>2, <1>2 DEF Loads, Grown, IsType
<1>9. TypeOK'
    <2>1. order' \in SetToSeqs(DOMAIN program'.holds) /\ program' \in Programs
        BY <1>1, <1>4 DEF TypeOK
    <2>2. DOMAIN at' \subseteq PathName /\ \A path \in DOMAIN at' : at'[path] \in 0..Len(types')
        BY <1>6 DEF Rooted
    <2>3. collected' \subseteq DOMAIN types'
        BY <1>2, <1>3 DEF Moves
    <2>4. answers' \in Seq([file : DOMAIN Files, name : PathName,
                            type : DOMAIN types', path : PathName])
        BY <1>1, <1>2, <1>3, AnsweredKeep
    <2>5. walk' \in {NoWalk} \cup [type : DOMAIN types', seeks : STRING \cup {""}]
        BY <1>2, <1>3 DEF Moves
    <2>6. \A i \in DOMAIN types' : /\ types'[i].by \in -1..Len(Files)
                                  /\ types'[i].bound \in 0..Len(types')
        BY <1>3
    <2>7. errors' \subseteq [file : DOMAIN Files, name : PathName]
        BY <1>1, <1>2 DEF TypeOK, Moves, Files
    <2>8. next' \in Nat /\ next' \in 1..Len(IF phase' = "builtins" THEN Aliases ELSE Files)
        BY <1>1, <1>4, <1>5
    <2> QED BY <2>1, <2>2, <2>3, <2>4, <2>5, <2>6, <2>7, <2>8, <1>3, <1>4, <1>5
            DEF TypeOK, Files
<1>10. BoundAlive'
    BY <1>3 DEF BoundAlive, Alive, Held
<1> QED BY <1>5, <1>6, <1>7, <1>8, <1>9, <1>10 DEF IInv

-----------------------------------------------------------------------------
(* The actions of the last pass *)

LEMMA BusyFacts ==
    ASSUME IInv, Busy
    PROVE  /\ phase = "bodies" /\ item \in DOMAIN Items(next)
           /\ program \in Programs /\ order \in SetToSeqs(DOMAIN program.holds)
           /\ next \in DOMAIN Files /\ Rooted(at, types) /\ TypeOK
           /\ Item \in Named
           /\ Item.kind # "super" => Item.name # <<>> /\ IsType(at, Item.in)
           /\ walk # NoWalk => walk \in [type : DOMAIN types, seeks : STRING \cup {""}]
           /\ types \in Seq(Parts) /\ DOMAIN types = 1..Len(types)
           /\ \A i \in DOMAIN types : types[i] \in Parts /\ types[i].bound \in 0..Len(types)
           /\ \A path \in DOMAIN at : IsType(at, path) => at[path] \in DOMAIN types
<1>1. /\ phase = "bodies" /\ item \in DOMAIN Items(next)
      /\ TypeOK /\ Rooted(at, types) /\ Entered
    BY DEF IInv, Busy
<1>2. program \in Programs /\ order \in SetToSeqs(DOMAIN program.holds)
    BY <1>1 DEF TypeOK
<1>3. next \in DOMAIN Files
    <2>1. Files \in Seq(SourceFile)
        BY <1>2, ProgramsAssumption DEF Files
    <2>2. next \in 1..Len(Files)
        BY <1>1 DEF TypeOK, Files
    <2> QED BY <2>1, <2>2, LenProperties
<1>4. Item \in Named
    BY <1>1, <1>2, <1>3, ItemFacts DEF Item
<1>5. ASSUME Item.kind # "super" PROVE Item.name # <<>> /\ IsType(at, Item.in)
    <2>1. /\ Item.name # <<>>
          /\ \E k \in DOMAIN Items(next) : /\ k < item /\ Items(next)[k].kind = "super"
                                          /\ Items(next)[k].in = Item.in
        BY <1>1, <1>2, <1>3, <1>5, ItemFacts DEF Item
    <2> QED BY <2>1, <1>1 DEF Entered
<1>6. walk # NoWalk => walk \in [type : DOMAIN types, seeks : STRING \cup {""}]
    BY <1>1 DEF TypeOK
<1>7. /\ types \in Seq(Parts) /\ DOMAIN types = 1..Len(types) /\ Len(types) \in Nat
      /\ \A i \in DOMAIN types : types[i] \in Parts
    BY <1>1, LenProperties, ElementOfSeq DEF Rooted
<1>8. \A i \in DOMAIN types : types[i].bound \in 0..Len(types)
    BY <1>1 DEF TypeOK
<1>9. ASSUME NEW path \in DOMAIN at, IsType(at, path) PROVE at[path] \in DOMAIN types
    <2>1. at[path] \in 0..Len(types) /\ at[path] # 0
        BY <1>1, <1>9 DEF Rooted, IsType, Country
    <2> QED BY <2>1, <1>7
<1> QED BY <1>1, <1>2, <1>3, <1>4, <1>5, <1>6, <1>7, <1>8, <1>9

(* Nothing is loaded, bound or answered.                                   *)
LEMMA Quiet ==
    ASSUME IInv, Busy, at' = at, types' = types, answers' = answers
    PROVE  Loads(types) /\ Binds(types) /\ Answered(types)
<1>1. Rooted(at, types)
    BY BusyFacts
<1> QED BY <1>1, GrownReflexive DEF Loads, Binds, Answered

(* A look-up.                                                              *)
LEMMA Looked ==
    ASSUME IInv, Busy, NEW name \in PathName, at' = Lookup(next, name).at
    PROVE  LET found == Lookup(next, name)
           IN  /\ Loads(found.types)
               /\ DOMAIN types \subseteq DOMAIN found.types
               /\ found.sym # Nothing => Denotes(at', found.types, found.sym)
               /\ found.sym # Nothing /\ found.sym.kind = "type" =>
                    /\ found.sym.type \in DOMAIN found.types
                    /\ \E path \in DOMAIN at' :
                            IsType(at', path) /\ found.sym.type = at'[path]
<1> DEFINE found == Lookup(next, name)
<1>1. /\ program \in Programs /\ order \in SetToSeqs(DOMAIN program.holds)
      /\ next \in DOMAIN Files /\ Rooted(at, types) /\ TypeOK
    BY BusyFacts
<1>2. /\ Rooted(found.at, found.types) /\ Grown(at, types, found.at, found.types)
      /\ found.sym # Nothing => Denotes(found.at, found.types, found.sym)
    BY <1>1, LookupGood
<1> HIDE DEF found
<1>3. Loads(found.types)
    BY <1>2 DEF Loads, found
<1>4. DOMAIN types \subseteq DOMAIN found.types
    BY <1>1, <1>3, LoadsKeep
<1>5. ASSUME found.sym # Nothing, found.sym.kind = "type"
      PROVE  /\ found.sym.type \in DOMAIN found.types
             /\ \E path \in DOMAIN at' : IsType(at', path) /\ found.sym.type = at'[path]
    <2>1. IsType(at', found.sym.path) /\ found.sym.type = at'[found.sym.path]
        BY <1>2, <1>5 DEF Denotes, found
    <2>2. found.sym.path \in DOMAIN at'
        BY <2>1 DEF IsType
    <2>3. found.sym.type \in DOMAIN found.types
        BY <2>1, <2>2, <1>1, <1>3, LoadsKeep
    <2> QED BY <2>1, <2>2, <2>3
<1>6. found.sym # Nothing => Denotes(at', found.types, found.sym)
    BY <1>2 DEF found
<1> QED BY <1>3, <1>4, <1>5, <1>6 DEF found

LEMMA Blamed ==
    ASSUME NEW name \in PathName
    PROVE  [file |-> next, name |-> name] \in [file : {next}, name : PathName]
OBVIOUS

LEMMA CrashKeeps ==
    ASSUME IInv, Busy, Crash,
           UNCHANGED <<program, order, at, types, item, walk, collected, errors, answers>>
    PROVE  IInv'
<1>1. Loads(types) /\ Binds(types) /\ Answered(types)
    BY Quiet
<1>2. Moves(types)
    BY BusyFacts DEF Moves, Crash, TypeOK
<1>3. Turns
    BY DEF Turns, Crash
<1>4. LooksUp(types)
    BY <1>1, <1>2, <1>3 DEF LooksUp
<1> QED BY <1>4, BusyFacts, BodiesStep

LEMMA ResolveSuperKeeps == IInv /\ ResolveSuper => IInv'
<1> SUFFICES ASSUME IInv, ResolveSuper PROVE IInv'
    OBVIOUS
<1> DEFINE found == Lookup(next, Item.name)
           self == at[Item.in]
<1>1. Busy /\ Item.kind = "super" /\ walk = NoWalk
    BY DEF ResolveSuper
<1>2. Item.name \in PathName /\ collected \subseteq DOMAIN types
    BY <1>1, BusyFacts DEF Named, TypeOK
<1>3. CASE ~ IsType(at, Item.in) \/ found.crashed
    BY <1>1, <1>3, CrashKeeps DEF ResolveSuper
<1>4. CASE ~ (~ IsType(at, Item.in) \/ found.crashed)
    <2>1. /\ at' = found.at /\ walk' = [type |-> self, seeks |-> ""]
          /\ \/ /\ found.sym # Nothing /\ found.sym.kind = "type"
                /\ types' = Bind(found.types, self, found.sym.type)
                /\ answers' = Recorded(Item.name, found.sym) /\ errors' = errors
             \/ /\ types' = found.types /\ answers' = answers
                /\ errors' = errors \cup {[file |-> next, name |-> Item.name]}
          /\ UNCHANGED <<phase, next, item, program, order, collected>>
        BY <1>4 DEF ResolveSuper, Report
    <2>2. /\ Loads(found.types) /\ DOMAIN types \subseteq DOMAIN found.types
          /\ found.sym # Nothing => Denotes(at', found.types, found.sym)
          /\ found.sym # Nothing /\ found.sym.kind = "type" =>
                \E path \in DOMAIN at' : IsType(at', path) /\ found.sym.type = at'[path]
        BY <1>1, <1>2, <2>1, Looked
    <2>3. self \in DOMAIN types
        BY <1>1, <1>4, BusyFacts DEF IsType
    <2> HIDE DEF found, self
    <2>4. Binds(found.types)
        BY <2>1, <2>2, <2>3 DEF Binds
    <2>5. Answered(found.types)
        BY <1>2, <2>1, <2>2 DEF Answered
    <2>6. Moves(found.types)
        <3>1. walk' \in [type : DOMAIN found.types, seeks : STRING \cup {""}]
            BY <2>1, <2>2, <2>3
        <3>2. errors' \subseteq errors \cup [file : {next}, name : PathName]
            BY <1>2, <2>1, Blamed
        <3> QED BY <1>2, <2>1, <3>1, <3>2 DEF Moves
    <2>7. Turns
        BY <1>4, <2>1 DEF Turns
    <2>8. LooksUp(found.types)
        BY <2>2, <2>4, <2>5, <2>6, <2>7 DEF LooksUp
    <2> QED BY <1>1, <2>8, BusyFacts, BodiesStep
<1> QED BY <1>3, <1>4


(* The steps of a climb.                                                   *)
LEMMA WalkFacts ==
    ASSUME IInv, Busy, walk # NoWalk, Mark
    PROVE  /\ walk.type \in DOMAIN types /\ walk.seeks \in STRING \cup {""}
           /\ collected' \subseteq DOMAIN types
           /\ Item.name \in PathName /\ Sought \in PathName
           /\ types[walk.type] \in Parts
<1>1. walk \in [type : DOMAIN types, seeks : STRING \cup {""}]
    BY BusyFacts
<1>2. collected \subseteq DOMAIN types /\ Item.name \in PathName
    BY BusyFacts DEF TypeOK, Named
<1>3. Sought \in PathName
    BY <1>2, EmptySeq DEF Sought, PathName
<1> QED BY <1>1, <1>2, <1>3, BusyFacts DEF Mark

LEMMA ArriveKeeps == IInv /\ Arrive => IInv'
<1> SUFFICES ASSUME IInv, Arrive PROVE IInv'
    OBVIOUS
<1>1. Busy /\ walk # NoWalk /\ walk' = NoWalk /\ Done
      /\ UNCHANGED <<program, order, at, types, collected, errors, answers>>
    BY DEF Arrive
<1>2. Loads(types) /\ Binds(types) /\ Answered(types)
    BY <1>1, Quiet
<1>3. Moves(types) /\ Turns
    BY <1>1, BusyFacts DEF Moves, Turns, Done, TypeOK
<1>4. LooksUp(types)
    BY <1>2, <1>3 DEF LooksUp
<1> QED BY <1>1, <1>4, BusyFacts, BodiesStep

LEMMA ClimbBoundKeeps == IInv /\ ClimbBound => IInv'
<1> SUFFICES ASSUME IInv, ClimbBound PROVE IInv'
    OBVIOUS
<1> DEFINE super == types[walk.type].bound
<1>1. /\ Busy /\ walk # NoWalk /\ Mark /\ super # Unbound
      /\ walk' = [walk EXCEPT !.type = super]
      /\ UNCHANGED <<program, order, at, types, phase, next, item, errors, answers>>
    BY DEF ClimbBound
<1>2. Loads(types) /\ Binds(types) /\ Answered(types)
    BY <1>1, Quiet
<1>3. walk' \in [type : DOMAIN types, seeks : STRING \cup {""}]
    <2>1. walk \in [type : DOMAIN types, seeks : STRING \cup {""}]
        BY <1>1, BusyFacts
    <2>2. super \in DOMAIN types
        <3>1. walk.type \in DOMAIN types
            BY <2>1
        <3>2. super \in 0..Len(types) /\ DOMAIN types = 1..Len(types)
            BY <3>1, <1>1, BusyFacts
        <3> HIDE DEF super
        <3> QED BY <3>2, <1>1 DEF Unbound
    <2> HIDE DEF super
    <2> QED BY <2>1, <2>2, <1>1
<1>4. Moves(types)
    BY <1>1, <1>3, WalkFacts DEF Moves
<1>5. Turns
    BY <1>1 DEF Turns
<1>6. LooksUp(types)
    BY <1>2, <1>4, <1>5 DEF LooksUp
<1> QED BY <1>1, <1>6, BusyFacts, BodiesStep

LEMMA ClimbOutKeeps == IInv /\ ClimbOut => IInv'
<1> SUFFICES ASSUME IInv, ClimbOut PROVE IInv'
    OBVIOUS
<1>1. /\ Busy /\ walk # NoWalk /\ Mark /\ walk' = NoWalk /\ Done
      /\ errors' = errors \/ errors' = errors \cup {[file |-> next, name |-> Sought]}
      /\ UNCHANGED <<program, order, at, types, answers>>
    BY DEF ClimbOut, GiveUp, Report
<1>2. Loads(types) /\ Binds(types) /\ Answered(types)
    BY <1>1, Quiet
<1>3. errors' \subseteq errors \cup [file : {next}, name : PathName]
    BY <1>1, WalkFacts, Blamed
<1>4. Moves(types) /\ Turns
    BY <1>1, <1>3, WalkFacts DEF Moves, Turns, Done
<1>5. LooksUp(types)
    BY <1>2, <1>4 DEF LooksUp
<1> QED BY <1>1, <1>5, BusyFacts, BodiesStep

LEMMA ClimbUnboundKeeps == IInv /\ ClimbUnbound => IInv'
<1> SUFFICES ASSUME IInv, ClimbUnbound PROVE IInv'
    OBVIOUS
<1> DEFINE super == types[walk.type].super
           found == Lookup(next, super)
<1>1. Busy /\ walk # NoWalk /\ UNCHANGED <<program, order>>
    BY DEF ClimbUnbound
<1>2. super \in PathName /\ walk \in [type : DOMAIN types, seeks : STRING \cup {""}]
    BY <1>1, BusyFacts DEF Parts
<1>3. CASE found.crashed
    BY <1>1, <1>3, CrashKeeps DEF ClimbUnbound
<1>4. CASE ~ found.crashed
    <2>1. /\ at' = found.at /\ Mark /\ next' = next
          /\ \/ /\ found.sym # Nothing /\ found.sym.kind = "type"
                /\ types' = Bind(found.types, walk.type, found.sym.type)
                /\ answers' = Recorded(super, found.sym) /\ errors' = errors
                /\ walk' = [walk EXCEPT !.type = found.sym.type]
                /\ phase' = phase /\ item' = item
             \/ /\ types' = found.types /\ answers' = answers
                /\ errors' = errors \cup {[file |-> next, name |-> n] :
                                                n \in {super, Sought} \ {<<>>}}
                /\ walk' = NoWalk /\ phase' = phase /\ item' = item + 1
        BY <1>4 DEF ClimbUnbound, Done
    <2>2. /\ Loads(found.types) /\ DOMAIN types \subseteq DOMAIN found.types
          /\ found.sym # Nothing => Denotes(at', found.types, found.sym)
          /\ found.sym # Nothing /\ found.sym.kind = "type" =>
                /\ found.sym.type \in DOMAIN found.types
                /\ \E path \in DOMAIN at' : IsType(at', path) /\ found.sym.type = at'[path]
        BY <1>1, <1>2, <2>1, Looked
    <2>3. /\ walk.type \in DOMAIN types /\ Sought \in PathName
          /\ collected' \subseteq DOMAIN types
        BY <1>1, <2>1, WalkFacts
    <2> HIDE DEF found, super
    <2>4. Binds(found.types)
        BY <2>1, <2>2, <2>3 DEF Binds
    <2>5. Answered(found.types)
        BY <1>2, <2>1, <2>2 DEF Answered
    <2>6. Moves(found.types)
        <3>1. walk' \in {NoWalk} \cup [type : DOMAIN found.types, seeks : STRING \cup {""}]
            BY <1>2, <2>1, <2>2
        <3>2. errors' \subseteq errors \cup [file : {next}, name : PathName]
            <4>1. \A n \in {super, Sought} \ {<<>>} :
                        [file |-> next, name |-> n] \in [file : {next}, name : PathName]
                BY <1>2, <2>3, Blamed
            <4> QED BY <2>1, <4>1
        <3> QED BY <1>1, <2>1, <2>3, <3>1, <3>2 DEF Moves
    <2>7. Turns
        BY <1>1, <2>1 DEF Turns
    <2>8. LooksUp(found.types)
        BY <2>2, <2>4, <2>5, <2>6, <2>7 DEF LooksUp
    <2> QED BY <1>1, <2>8, BusyFacts, BodiesStep
<1> QED BY <1>3, <1>4

(* The bodies.                                                             *)
LEMMA ResolveUseKeeps == IInv /\ ResolveUse => IInv'
<1> SUFFICES ASSUME IInv, ResolveUse PROVE IInv'
    OBVIOUS
<1> DEFINE found == Lookup(next, Item.name)
<1>1. Busy /\ Item.kind \in {"type", "field"} /\ UNCHANGED <<program, order, walk, collected>>
    BY DEF ResolveUse
<1>2. Item.name \in PathName /\ walk = NoWalk /\ collected \subseteq DOMAIN types
    BY <1>1, BusyFacts DEF Named, TypeOK, ResolveUse
<1>3. CASE found.crashed
    BY <1>1, <1>3, CrashKeeps DEF ResolveUse
<1>4. CASE ~ found.crashed
    <2>1. /\ at' = found.at /\ types' = found.types /\ next' = next
          /\ \/ /\ found.sym # Nothing /\ found.sym.kind \in {"type", "field"}
                /\ answers' = Recorded(Item.name, found.sym) /\ errors' = errors
             \/ /\ answers' = answers
                /\ errors' = errors \cup {[file |-> next, name |-> Item.name]}
          /\ phase' = phase /\ item' = item + 1
        BY <1>1, <1>4 DEF ResolveUse, Report, Done, Wanted
    <2>2. /\ Loads(found.types)
          /\ found.sym # Nothing => Denotes(at', found.types, found.sym)
        BY <1>1, <1>2, <2>1, Looked
    <2> HIDE DEF found
    <2>3. Binds(found.types) /\ Answered(found.types)
        BY <1>2, <2>1, <2>2 DEF Binds, Answered
    <2>4. Moves(found.types)
        <3>1. errors' \subseteq errors \cup [file : {next}, name : PathName]
            BY <1>2, <2>1, Blamed
        <3> QED BY <1>1, <1>2, <2>1, <3>1 DEF Moves
    <2>5. Turns
        BY <1>1, <1>2, <2>1 DEF Turns
    <2>6. LooksUp(found.types)
        BY <2>2, <2>3, <2>4, <2>5 DEF LooksUp
    <2> QED BY <1>1, <2>6, BusyFacts, BodiesStep
<1> QED BY <1>3, <1>4


LEMMA NameParts ==
    ASSUME NEW name \in PathName, name # <<>>
    PROVE  Last(name) \in STRING /\ Front(name) \in PathName
<1>1. /\ Len(name) \in Nat \ {0} /\ \A i \in 1..Len(name) : name[i] \in STRING
    BY EmptySeq, ElementOfSeq, LenProperties DEF PathName
<1>2. Front(name) \in PathName
    BY <1>1, SubSeqProperties DEF Front, PathName
<1>3. Len(name) \in 1..Len(name)
    BY <1>1
<1> QED BY <1>1, <1>2, <1>3 DEF Last

LEMMA ResolveCallKeeps == IInv /\ ResolveCall => IInv'
<1> SUFFICES ASSUME IInv, ResolveCall PROVE IInv'
    OBVIOUS
<1> DEFINE single == Len(Item.name) = 1
           found == Lookup(next, Front(Item.name))
           From(type) == walk' = [type |-> type, seeks |-> Last(Item.name)]
<1>1. /\ Busy /\ Item.kind = "call" /\ walk = NoWalk
      /\ UNCHANGED <<program, order, collected>>
    BY DEF ResolveCall
<1>2. /\ Item.name \in PathName /\ Item.name # <<>> /\ IsType(at, Item.in)
      /\ collected \subseteq DOMAIN types
    BY <1>1, BusyFacts DEF Named, TypeOK
<1>3. Last(Item.name) \in STRING /\ Front(Item.name) \in PathName
    BY <1>2, NameParts
<1>4. CASE single
    <2>1. /\ From(at[Item.in])
          /\ UNCHANGED <<at, types, phase, next, item, errors, answers>>
        BY <1>4 DEF ResolveCall
    <2>2. Loads(types) /\ Binds(types) /\ Answered(types)
        BY <1>1, <2>1, Quiet
    <2>3. at[Item.in] \in DOMAIN types
        BY <1>1, <1>2, BusyFacts DEF IsType
    <2>4. walk' \in [type : DOMAIN types, seeks : STRING \cup {""}]
        BY <1>3, <2>1, <2>3
    <2>5. Moves(types) /\ Turns
        BY <1>1, <1>2, <2>1, <2>4 DEF Moves, Turns
    <2>6. LooksUp(types)
        BY <2>2, <2>5 DEF LooksUp
    <2> QED BY <1>1, <2>6, BusyFacts, BodiesStep
<1>5. CASE ~ single /\ found.crashed
    BY <1>1, <1>5, CrashKeeps DEF ResolveCall
<1>6. CASE ~ single /\ ~ found.crashed
    <2>1. /\ at' = found.at /\ types' = found.types /\ next' = next /\ phase' = phase
          /\ \/ /\ found.sym # Nothing /\ found.sym.kind = "type" /\ From(found.sym.type)
                /\ answers' = Recorded(Front(Item.name), found.sym) /\ errors' = errors
                /\ item' = item
             \/ /\ errors' = errors \cup {[file |-> next, name |-> Item.name]}
                /\ answers' = answers /\ walk' = walk /\ item' = item + 1
        BY <1>6 DEF ResolveCall, Report, Done
    <2>2. /\ Loads(found.types)
          /\ found.sym # Nothing => Denotes(at', found.types, found.sym)
          /\ found.sym # Nothing /\ found.sym.kind = "type" =>
                found.sym.type \in DOMAIN found.types
        BY <1>1, <1>3, <2>1, Looked
    <2> HIDE DEF found, single
    <2>3. Binds(found.types) /\ Answered(found.types)
        BY <1>3, <2>1, <2>2 DEF Binds, Answered
    <2>4. Moves(found.types)
        <3>1. walk' \in {NoWalk} \cup [type : DOMAIN found.types, seeks : STRING \cup {""}]
            <4>1. CASE From(found.sym.type) /\ found.sym.type \in DOMAIN found.types
                <5>1. Last(Item.name) \in STRING \cup {""}
                    BY <1>3
                <5> QED BY <4>1, <5>1
            <4>2. CASE walk' = NoWalk
                BY <4>2
            <4> QED BY <1>1, <2>1, <2>2, <4>1, <4>2
        <3>2. errors' \subseteq errors \cup [file : {next}, name : PathName]
            BY <1>2, <2>1, Blamed
        <3> QED BY <1>1, <1>2, <2>1, <3>1, <3>2 DEF Moves
    <2>5. Turns
        BY <1>1, <2>1 DEF Turns
    <2>6. LooksUp(found.types)
        BY <2>2, <2>3, <2>4, <2>5 DEF LooksUp
    <2> QED BY <1>1, <2>6, BusyFacts, BodiesStep
<1> QED BY <1>4, <1>5, <1>6

(* With the next file no type of it has been looked at.                    *)
LEMMA NextFileKeeps == IInv /\ NextFile => IInv'
<1> SUFFICES ASSUME IInv, NextFile PROVE IInv'
    OBVIOUS
<1>1. /\ phase = "bodies" /\ item' = 1 /\ TypeOK /\ Rooted(at, types)
      /\ UNCHANGED <<program, order, at, types, walk, collected, errors, answers>>
    BY DEF NextFile, IInv
<1>2. program \in Programs /\ Len(Files) \in Nat \ {0}
    <2>1. program \in Programs
        BY <1>1 DEF TypeOK
    <2>2. Files \in Seq(SourceFile) /\ Files # <<>>
        BY <2>1, ProgramsAssumption DEF Files
    <2> QED BY <2>1, <2>2, LenProperties, EmptySeq
<1>3. /\ phase' \in {"bodies", "done"} /\ next' \in 1..Len(Files)
    <2>1. next \in 1..Len(Files)
        BY <1>1 DEF TypeOK, Files
    <2> QED BY <2>1, <1>1, <1>2 DEF NextFile, Advance, ToPhase
<1>4. phase' = "bodies" => Entered'
    <2> SUFFICES ASSUME phase' = "bodies" PROVE Entered'
        OBVIOUS
    <2>1. walk = NoWalk
        BY <1>1 DEF NextFile, Busy, IInv, Entered
    <2>2. next' \in DOMAIN Files
        BY <1>2, <1>3, ProgramsAssumption, LenProperties DEF TypeOK, Files
    <2>3. \A j \in DOMAIN Items(next') : j \in Nat \ {0}
        BY <1>2, <2>2, ItemFacts
    <2>4. Items(next)' = Items(next')
        BY <1>1 DEF Items, Files
    <2> QED BY <1>1, <2>1, <2>3, <2>4 DEF Entered
<1>5. TypeOK'
    <2>1. /\ next' \in Nat
          /\ next' \in 1..Len(IF phase' = "builtins" THEN Aliases ELSE program.files)
        BY <1>3 DEF Files
    <2>2. item' \in Nat \ {0}
        BY <1>1
    <2>3. phase' \in {"contexts", "collect", "builtins", "members", "bodies", "done", "crashed"}
        BY <1>3
    <2>4. program \in Programs /\ order \in SetToSeqs(DOMAIN program.holds)
        BY <1>1 DEF TypeOK
    <2> QED BY <2>1, <2>2, <2>3, <2>4, <1>1 DEF TypeOK
<1>6. Rooted(at, types)' /\ BoundAlive' /\ AnswersAlive'
    BY <1>1 DEF Rooted, BoundAlive, Alive, AnswersAlive, IsType, IInv
<1> QED BY <1>3, <1>4, <1>5, <1>6 DEF IInv


-----------------------------------------------------------------------------
(* The passes before the bodies *)

Early == {"contexts", "collect", "builtins", "members"}
LEMMA Lengths ==
    ASSUME program \in Programs
    PROVE  /\ Files \in Seq(SourceFile) /\ DOMAIN Files = 1..Len(Files)
           /\ Len(Files) \in Nat \ {0}
           /\ Aliases \in Seq([alias : STRING, of : PathName])
           /\ DOMAIN Aliases = 1..Len(Aliases) /\ Len(Aliases) \in Nat \ {0}
           /\ \A j \in DOMAIN Aliases :
                /\ Aliases[j].of \in PathName /\ <<Aliases[j].alias>> \in PathName
<1>1. Files \in Seq(SourceFile) /\ Files # <<>>
    BY ProgramsAssumption DEF Files
<1>2. Aliases \in Seq([alias : STRING, of : PathName]) /\ Aliases # <<>>
    BY NamesAssumption
<1>3. \A j \in DOMAIN Aliases : Aliases[j] \in [alias : STRING, of : PathName]
    BY <1>2, ElementOfSeq, LenProperties
<1>4. \A j \in DOMAIN Aliases : <<Aliases[j].alias>> \in PathName
    BY <1>3, Single DEF PathName
<1> QED BY <1>1, <1>2, <1>3, <1>4, LenProperties, EmptySeq

(* A step of an early pass binds nothing and answers nothing.              *)
Prepares ==
    /\ program' = program /\ order' = order /\ item' = item /\ walk' = walk
    /\ collected' = collected /\ answers' = answers
    /\ Rooted(at', types')
    /\ \A i \in DOMAIN types' : types'[i].bound = Unbound /\ types'[i].by \in -1..Len(Files)
    /\ errors' \subseteq [file : DOMAIN Files, name : PathName]
    /\ phase' \in Early \cup {"bodies", "done", "crashed"}
    /\ next' \in Nat
    /\ phase' # "crashed" => next' \in 1..Len(IF phase' = "builtins" THEN Aliases ELSE Files)

LEMMA EarlyStep ==
    ASSUME IInv, phase \in Early, Prepares
    PROVE  IInv'
<1>1. TypeOK /\ Untouched /\ program \in Programs
    BY DEF IInv, Early, TypeOK
<1>2. Untouched'
    BY <1>1 DEF Untouched, Prepares
<1>3. /\ types' \in Seq(Parts) /\ DOMAIN types' = 1..Len(types') /\ Len(types') \in Nat
      /\ \A path \in DOMAIN at' : path \in PathName /\ at'[path] \in 0..Len(types')
    BY LenProperties DEF Prepares, Rooted
<1>4. /\ item' \in Nat \ {0} /\ walk' = NoWalk /\ collected' = {} /\ answers' = <<>>
    BY <1>2 DEF Untouched
<1>5. TypeOK'
    <2>1. \A i \in DOMAIN types' : /\ types'[i].by \in -1..Len(program.files)
                                  /\ types'[i].bound \in 0..Len(types')
        BY <1>3 DEF Prepares, Unbound, Files
    <2>2. answers' \in Seq([file : DOMAIN Files, name : PathName,
                            type : DOMAIN types', path : PathName])
        BY <1>4, EmptySeq
    <2>3. program' \in Programs /\ order' \in SetToSeqs(DOMAIN program'.holds)
        BY <1>1 DEF TypeOK, Prepares
    <2>4. phase' \in {"contexts", "collect", "builtins", "members", "bodies", "done", "crashed"}
        BY DEF Prepares, Early
    <2>5. /\ next' \in Nat
          /\ phase' # "crashed" =>
                next' \in 1..Len(IF phase' = "builtins" THEN Aliases ELSE program'.files)
          /\ errors' \subseteq [file : DOMAIN program'.files, name : PathName]
          /\ program' = program
        BY DEF Prepares, Files
    <2> QED BY <2>1, <2>2, <2>3, <2>4, <2>5, <1>3, <1>4 DEF TypeOK, Files
<1>6. BoundAlive' /\ AnswersAlive'
    <2>1. BoundAlive'
        BY DEF BoundAlive, Prepares
    <2>2. DOMAIN answers' = {}
        BY <1>4
    <2> QED BY <2>1, <2>2 DEF AnswersAlive
<1>7. phase' = "bodies" => Entered'
    <2> SUFFICES ASSUME phase' = "bodies" PROVE Entered'
        OBVIOUS
    <2>1. next' \in DOMAIN Files /\ Files' = Files
        BY <1>1, Lengths DEF Prepares, Files
    <2>2. \A j \in DOMAIN Items(next') : j \in Nat \ {0}
        BY <1>1, <2>1, ItemFacts
    <2>3. Items(next)' = Items(next')
        BY <2>1 DEF Items
    <2>4. item' = 1 /\ walk' = NoWalk
        BY <1>2 DEF Untouched
    <2> QED BY <2>2, <2>3, <2>4 DEF Entered
<1>8. Rooted(at, types)'
    BY DEF Prepares, Rooted
<1> QED BY <1>2, <1>5, <1>6, <1>7, <1>8 DEF IInv

LEMMA ContextCountries ==
    ASSUME program \in Programs, NEW file \in DOMAIN Files
    PROVE  ToSet(Tail(LookupCountries(file))) \in SUBSET PathName
<1> DEFINE all == LookupCountries(file)
<1>1. all \in Seq(PathName) /\ all # <<>>
    <2>1. /\ Files[file].country \in PathName /\ Files[file].imports \in Seq(PathName)
          /\ Global \in PathName
        BY FileFacts, EmptySeq DEF SourceFile, Global, PathName
    <2>2. <<Global, Files[file].country>> \in Seq(PathName)
        BY <2>1
    <2>3. /\ <<Global, Files[file].country>> \o Files[file].imports \in Seq(PathName)
          /\ Len(<<Global, Files[file].country>> \o Files[file].imports)
                = 2 + Len(Files[file].imports)
        BY <2>1, <2>2, ConcatProperties
    <2>4. /\ Len(all) = 2 + Len(Files[file].imports) + Len(DefaultImports)
          /\ all \in Seq(PathName)
        BY <2>3, NamesAssumption, ConcatProperties DEF LookupCountries
    <2>5. Len(all) # 0
        BY <2>1, <2>4, NamesAssumption, LenProperties
    <2> QED BY <2>4, <2>5, EmptySeq
<1> HIDE DEF all
<1>2. Tail(all) \in Seq(PathName)
    BY <1>1, HeadTailProperties
<1>3. \A i \in DOMAIN Tail(all) : Tail(all)[i] \in PathName
    BY <1>2, ElementOfSeq, LenProperties
<1> QED BY <1>3 DEF ToSet, all

LEMMA MakeContextKeeps == IInv /\ MakeContext => IInv'
<1> SUFFICES ASSUME IInv, MakeContext PROVE IInv'
    OBVIOUS
<1> DEFINE countries == ToSet(Tail(LookupCountries(next)))
<1>1. /\ phase = "contexts" /\ TypeOK /\ Rooted(at, types) /\ Untouched
      /\ program \in Programs /\ next \in 1..Len(Files)
      /\ UNCHANGED <<program, order, types, item, walk, collected, errors, answers>>
    BY DEF MakeContext, IInv, TypeOK, Files
<1>2. next \in DOMAIN Files /\ Len(Files) \in Nat \ {0}
    BY <1>1, Lengths
<1>3. countries \in SUBSET PathName
    BY <1>1, <1>2, ContextCountries
<1>4. Rooted(at', types') /\ phase' \in {"contexts", "collect", "crashed"}
      /\ next' \in 1..Len(Files)
    <2>1. CASE \E country \in countries : Blocked(at, country)
        <3>1. Crash /\ at' = at
            BY <2>1 DEF MakeContext
        <3> QED BY <3>1, <1>1 DEF Crash
    <2>2. CASE ~ \E country \in countries : Blocked(at, country)
        <3>1. at' = WithCountries(at, countries) /\ Advance(Len(Files), "collect")
            BY <2>2 DEF MakeContext
        <3> HIDE DEF countries
        <3>2. Rooted(at', types)
            BY <3>1, <2>2, <1>1, <1>3, CountriesGrow
        <3>3. phase' \in {"contexts", "collect"} /\ next' \in 1..Len(Files)
            BY <3>1, <1>1, <1>2 DEF Advance, ToPhase
        <3> QED BY <3>2, <3>3, <1>1
    <2> QED BY <2>1, <2>2
<1>5. Prepares
    <2>1. \A i \in DOMAIN types : types[i].bound = Unbound /\ types[i].by \in -1..Len(Files)
        BY <1>1 DEF Untouched, TypeOK, Files
    <2>2. errors \subseteq [file : DOMAIN Files, name : PathName]
        BY <1>1 DEF TypeOK, Files
    <2> QED BY <2>1, <2>2, <1>1, <1>4 DEF Prepares, Early
<1> QED BY <1>1, <1>5, EarlyStep DEF Early


(* The symbols of the types of a file come behind those there are.         *)
Made == [i \in DOMAIN Files[next].types |->
            Symbol(Files[next].country \o <<Files[next].types[i].name>>, next,
                   Files[next].types[i].super, {}, {})]
LEMMA CollectedSymbols ==
    ASSUME program \in Programs, next \in DOMAIN Files, Rooted(at, types)
    PROVE  /\ types \o Made \in Seq(Parts)
           /\ Len(types \o Made) = Len(types) + Len(Files[next].types)
           /\ DOMAIN (types \o Made) = 1..(Len(types) + Len(Files[next].types))
           /\ \A i \in DOMAIN types : (types \o Made)[i] = types[i]
           /\ \A i \in DOMAIN (types \o Made) : i \notin DOMAIN types =>
                \E k \in DOMAIN Files[next].types :
                        i = Len(types) + k /\ (types \o Made)[i] = Made[k]
<1> DEFINE declared == Files[next].types
<1>1. /\ Files[next].country \in PathName /\ declared \in Seq(Declaration)
      /\ next \in Nat
    BY FileFacts, Lengths DEF SourceFile
<1>2. /\ DOMAIN declared = 1..Len(declared) /\ Len(declared) \in Nat
      /\ \A i \in DOMAIN declared : declared[i] \in Declaration
    BY <1>1, LenProperties, ElementOfSeq
<1>3. ASSUME NEW i \in DOMAIN declared
      PROVE  Files[next].country \o <<declared[i].name>> \in PathName
    <2>1. <<declared[i].name>> \in PathName
        BY <1>2, Single DEF Declaration, PathName
    <2> QED BY <2>1, <1>1, ConcatProperties DEF PathName
<1>4. Made \in [1..Len(declared) -> Parts]
    BY <1>1, <1>2, <1>3 DEF Made, Symbol, Parts, Unbound, Declaration
<1> HIDE DEF declared
<1>5. Made \in Seq(Parts) /\ Len(Made) = Len(declared)
    <2>1. Made \in Seq(Parts)
        BY <1>2, <1>4, SeqDef
    <2> QED BY <2>1, <1>2, <1>4, LenProperties
<1>6. types \in Seq(Parts) /\ DOMAIN types = 1..Len(types) /\ Len(types) \in Nat
    BY LenProperties DEF Rooted
<1>7. /\ types \o Made \in Seq(Parts) /\ Len(types \o Made) = Len(types) + Len(Made)
      /\ DOMAIN (types \o Made) = 1..(Len(types) + Len(Made))
      /\ \A i \in 1..(Len(types) + Len(Made)) :
            (types \o Made)[i] = IF i <= Len(types) THEN types[i] ELSE Made[i - Len(types)]
    <2>1. types \in Seq(Parts) /\ Made \in Seq(Parts)
        BY <1>5, <1>6
    <2> QED BY <2>1, ConcatProperties, Joined
<1>8. ASSUME NEW i \in DOMAIN (types \o Made), i \notin DOMAIN types
      PROVE  \E k \in DOMAIN declared : i = Len(types) + k /\ (types \o Made)[i] = Made[k]
    <2>1. i - Len(types) \in DOMAIN declared /\ ~ (i <= Len(types))
        BY <1>2, <1>5, <1>6, <1>7, <1>8
    <2>2. i = Len(types) + (i - Len(types))
        BY <1>5, <1>6, <1>7, <1>8
    <2>3. (types \o Made)[i] = Made[i - Len(types)]
        BY <2>1, <1>5, <1>7
    <2> QED BY <2>1, <2>2, <2>3
<1> QED BY <1>5, <1>6, <1>7, <1>8, <1>2 DEF declared

LEMMA CollectKeeps == IInv /\ Collect => IInv'
<1> SUFFICES ASSUME IInv, Collect PROVE IInv'
    OBVIOUS
<1> DEFINE file == Files[next]
           Path(i) == file.country \o <<file.types[i].name>>
           taken == {i \in DOMAIN file.types : \/ Path(i) \in DOMAIN at
                                               \/ \E j \in 1..(i - 1) : Path(j) = Path(i)}
           fresh == DOMAIN file.types \ taken
           added == [path \in {Path(i) : i \in fresh} |->
                        Len(types) + (CHOOSE i \in fresh : Path(i) = path)]
<1>1. /\ phase = "collect" /\ TypeOK /\ Rooted(at, types) /\ Untouched
      /\ program \in Programs /\ next \in 1..Len(Files)
      /\ UNCHANGED <<program, order, item, walk, collected, answers>>
    BY DEF Collect, IInv, TypeOK, Files
<1>2. /\ next \in DOMAIN Files /\ Len(Files) \in Nat \ {0} /\ Len(Aliases) \in Nat \ {0}
      /\ Len(types) \in Nat /\ DOMAIN types = 1..Len(types)
    BY <1>1, Lengths, LenProperties DEF Rooted
<1>3. /\ at' = With(at, added) /\ types' = types \o Made
      /\ errors' = errors \cup {[file |-> next, name |-> Path(i)] : i \in taken}
                \cup (IF file.misplaced THEN {[file |-> next, name |-> file.country]} ELSE {})
      /\ IF next = Len(Files) /\ errors' # {}
         THEN ToPhase("done")
         ELSE Advance(Len(Files), IF program.java THEN "builtins" ELSE "members")
    BY DEF Collect, Made
<1>4. /\ file.country \in PathName /\ file.types \in Seq(Declaration)
      /\ DOMAIN file.types = 1..Len(file.types) /\ Len(file.types) \in Nat
      /\ \A i \in DOMAIN file.types : file.types[i] \in Declaration
    <2>1. file.country \in PathName /\ file.types \in Seq(Declaration)
        BY <1>1, <1>2, FileFacts DEF SourceFile
    <2> QED BY <2>1, LenProperties, ElementOfSeq
<1>5. ASSUME NEW i \in DOMAIN file.types PROVE Path(i) \in PathName /\ Path(i) # <<>>
    <2>1. <<file.types[i].name>> \in PathName
        BY <1>4, Single DEF Declaration, PathName
    <2>2. /\ Path(i) \in PathName
          /\ Len(Path(i)) = Len(file.country) + Len(<<file.types[i].name>>)
        BY <2>1, <1>4, ConcatProperties DEF PathName
    <2>3. Len(<<file.types[i].name>>) = 1 /\ Len(file.country) \in Nat
        BY <1>4, LenProperties DEF PathName
    <2>4. Len(Path(i)) # 0
        BY <2>2, <2>3
    <2> QED BY <2>2, <2>4, EmptySeq
<1>6. /\ types' \in Seq(Parts) /\ Len(types') = Len(types) + Len(file.types)
      /\ DOMAIN types' = 1..(Len(types) + Len(file.types))
      /\ \A i \in DOMAIN types' : /\ types'[i].bound = Unbound
                                 /\ types'[i].by \in -1..Len(Files)
    <2>1. types' = types \o Made
        BY <1>3
    <2>2. \A k \in DOMAIN file.types : Made[k].bound = Unbound /\ Made[k].by = next
        BY DEF Made, Symbol
    <2>3. \A i \in DOMAIN types : types[i].bound = Unbound /\ types[i].by \in -1..Len(Files)
        BY <1>1 DEF Untouched, TypeOK, Files
    <2>4. next \in -1..Len(Files)
        BY <1>1, <1>2
    <2> HIDE DEF file
    <2> QED BY <2>1, <2>2, <2>3, <2>4, <1>1, <1>2, CollectedSymbols DEF file
<1>7. Rooted(at', types')
    <2>1. /\ DOMAIN added = {Path(i) : i \in fresh}
          /\ \A path \in DOMAIN added : added[path] \in 0..(Len(types) + Len(file.types))
        <3>1. ASSUME NEW path \in {Path(i) : i \in fresh}
              PROVE  added[path] \in 0..(Len(types) + Len(file.types))
            <4>1. (CHOOSE i \in fresh : Path(i) = path) \in fresh
                BY <3>1
            <4>2. (CHOOSE i \in fresh : Path(i) = path) \in 1..Len(file.types)
                BY <4>1, <1>4
            <4>3. added[path] = Len(types) + (CHOOSE i \in fresh : Path(i) = path)
                OBVIOUS
            <4> HIDE DEF fresh, Path, added, file
            <4> QED BY <4>2, <4>3, <1>2, <1>4
        <3> QED BY <3>1
    <2>2. /\ DOMAIN at' = DOMAIN at \cup DOMAIN added
          /\ \A path \in DOMAIN at' : at'[path] =
                IF path \in DOMAIN added THEN added[path] ELSE at[path]
        BY <1>3 DEF With
    <2>3. \A path \in DOMAIN added : path \in PathName /\ path # <<>>
        <3>1. \A i \in fresh : Path(i) \in PathName /\ Path(i) # <<>>
            BY <1>5
        <3> HIDE DEF added, Path, fresh
        <3> QED BY <2>1, <3>1
    <2> HIDE DEF added, file, Path, fresh
    <2>4. \A path \in DOMAIN at' : /\ path \in PathName
                                  /\ at'[path] \in 0..(Len(types) + Len(file.types))
        BY <2>1, <2>2, <2>3, <1>1, <1>2, <1>4 DEF Rooted
    <2>5. Global \in DOMAIN at' => at'[Global] = Country
        BY <2>2, <2>3, <1>1 DEF Rooted, Global
    <2> QED BY <2>4, <2>5, <1>6 DEF Rooted
<1>8. errors' \subseteq [file : DOMAIN Files, name : PathName]
    <2>1. errors \subseteq [file : DOMAIN Files, name : PathName]
        BY <1>1 DEF TypeOK, Files
    <2>2. \A i \in taken : Path(i) \in PathName
        BY <1>5
    <2>3. \A name \in PathName : [file |-> next, name |-> name] \in [file : DOMAIN Files, name : PathName]
        BY <1>2
    <2> HIDE DEF file, Path, taken
    <2> QED BY <1>3, <1>4, <2>1, <2>2, <2>3
<1>9. /\ phase' \in Early \cup {"bodies", "done", "crashed"}
      /\ next' \in 1..Len(IF phase' = "builtins" THEN Aliases ELSE Files)
    <2>1. \/ ToPhase("done") \/ Advance(Len(Files), "builtins") \/ Advance(Len(Files), "members")
        <3> HIDE DEF file, added, Path, taken
        <3> QED BY <1>3
    <2> QED BY <2>1, <1>1, <1>2 DEF Early, ToPhase, Advance
<1>10. Prepares
    BY <1>1, <1>6, <1>7, <1>8, <1>9 DEF Prepares
<1> QED BY <1>1, <1>10, EarlyStep DEF Early


(* A class file that is loaded has its type in the tree.                   *)
LEMMA LoadPlaces ==
    ASSUME NEW tree, NEW symbols, NEW class \in Class, ~ Load(tree, symbols, class).crashed
    PROVE  class.name \in DOMAIN Load(tree, symbols, class).at
<1> DEFINE load == Load(tree, symbols, class)
           broken == \/ Blocked(tree, Front(class.name))
                     \/ class.name \in DOMAIN tree /\ tree[class.name] = Country
<1>1. CASE broken
    <2>1. load.crashed = TRUE
        BY <1>1 DEF Load
    <2> QED BY <2>1
<1>2. CASE ~ broken /\ IsType(tree, class.name)
    <2>1. load.at = tree
        BY <1>2 DEF Load
    <2> QED BY <2>1, <1>2 DEF IsType
<1>3. CASE ~ broken /\ ~ IsType(tree, class.name)
    <2>1. load.at = With(WithCountry(tree, Front(class.name)),
                         [path \in {class.name} |-> Len(symbols) + 1])
        BY <1>3 DEF Load
    <2> QED BY <2>1 DEF With
<1> QED BY <1>1, <1>2, <1>3

LEMMA ResolveBuiltinKeeps == IInv /\ ResolveBuiltin => IInv'
<1> SUFFICES ASSUME IInv, ResolveBuiltin PROVE IInv'
    OBVIOUS
<1> DEFINE builtin == Aliases[next]
           alias == Talmud \o <<builtin.alias>>
           class == ClassAt(builtin.of)
           loaded == Load(at, types, class)
           moved == [p \in DOMAIN loaded.at \ {builtin.of} |->
                        IF p = alias THEN loaded.at[builtin.of] ELSE loaded.at[p]]
<1>1. /\ phase = "builtins" /\ TypeOK /\ Rooted(at, types) /\ Untouched
      /\ program \in Programs /\ order \in SetToSeqs(DOMAIN program.holds)
      /\ next \in 1..Len(Aliases)
      /\ UNCHANGED <<program, order, item, walk, collected, errors, answers>>
    BY DEF ResolveBuiltin, IInv, TypeOK, Files
<1>2. /\ next \in DOMAIN Aliases /\ Len(Files) \in Nat \ {0} /\ Len(Aliases) \in Nat \ {0}
      /\ builtin.of \in PathName /\ <<builtin.alias>> \in PathName
    BY <1>1, Lengths
<1>3. \/ at' = at /\ types' = types /\ Advance(Len(Aliases), "members")
      \/ at' = at /\ types' = types /\ Crash
      \/ /\ Loadable(builtin.of) /\ ~ loaded.crashed
         /\ at' = moved /\ types' = loaded.types /\ Advance(Len(Aliases), "members")
    BY DEF ResolveBuiltin
<1>4. /\ phase' \in Early \cup {"bodies", "done", "crashed"} /\ next' \in Nat
      /\ phase' # "crashed" => next' \in 1..Len(IF phase' = "builtins" THEN Aliases ELSE Files)
    <2>1. Advance(Len(Aliases), "members") \/ Crash
        <3> HIDE DEF loaded, moved, builtin
        <3> QED BY <1>3
    <2>2. CASE Advance(Len(Aliases), "members")
        BY <2>2, <1>1, <1>2 DEF Advance, ToPhase, Early
    <2>3. CASE Crash
        BY <2>3, <1>1, <1>2 DEF Crash
    <2> QED BY <2>1, <2>2, <2>3
<1>5. /\ Rooted(at', types')
      /\ \A i \in DOMAIN types' : types'[i].bound = Unbound /\ types'[i].by \in -1..Len(Files)
    <2>1. \A i \in DOMAIN types : types[i].bound = Unbound /\ types[i].by \in -1..Len(Files)
        BY <1>1 DEF Untouched, TypeOK, Files
    <2>2. CASE at' = at /\ types' = types
        BY <2>1, <2>2, <1>1
    <2>3. CASE Loadable(builtin.of) /\ ~ loaded.crashed /\ at' = moved /\ types' = loaded.types
        <3>1. class \in Class /\ class.name = builtin.of
            BY <1>1, <1>2, <2>3, LoadableClass, ProgramsAssumption
        <3>2. /\ Rooted(loaded.at, loaded.types)
              /\ Grown(at, types, loaded.at, loaded.types)
              /\ builtin.of \in DOMAIN loaded.at
            BY <1>1, <2>3, <3>1, LoadGrows, LoadPlaces
        <3>3. builtin.of # <<>> /\ alias # <<>>
            <4>1. builtin.of # <<>>
                BY <3>1 DEF Class
            <4>2. Len(alias) = Len(Talmud) + Len(<<builtin.alias>>) /\ alias \in PathName
                BY <1>2, NamesAssumption, ConcatProperties DEF PathName
            <4>3. Len(<<builtin.alias>>) = 1 /\ Len(Talmud) \in Nat
                BY NamesAssumption, LenProperties DEF PathName
            <4>4. Len(alias) # 0
                BY <4>2, <4>3
            <4> QED BY <4>1, <4>4, EmptySeq
        <3>4. /\ DOMAIN moved = DOMAIN loaded.at \ {builtin.of}
              /\ \A p \in DOMAIN moved : moved[p] = loaded.at[p] \/ moved[p] = loaded.at[builtin.of]
              /\ \A p \in DOMAIN moved : p # alias => moved[p] = loaded.at[p]
            OBVIOUS
        <3> HIDE DEF moved, loaded, builtin, alias, class
        <3>5. Rooted(moved, loaded.types)
            BY <3>2, <3>3, <3>4 DEF Rooted, Global
        <3>6. \A i \in DOMAIN loaded.types :
                    loaded.types[i].bound = Unbound /\ loaded.types[i].by \in -1..Len(Files)
            BY <2>1, <3>2, <1>2 DEF Grown
        <3> QED BY <2>3, <3>5, <3>6
    <2> QED BY <1>3, <2>2, <2>3
<1>6. errors \subseteq [file : DOMAIN Files, name : PathName]
    BY <1>1 DEF TypeOK, Files
<1>7. Prepares
    BY <1>1, <1>4, <1>5, <1>6 DEF Prepares
<1> QED BY <1>1, <1>7, EarlyStep DEF Early


LEMMA PostCollectKeeps == IInv /\ PostCollect => IInv'
<1> SUFFICES ASSUME IInv, PostCollect PROVE IInv'
    OBVIOUS
<1> DEFINE file == Files[next]
           Declared(i) == {k \in DOMAIN file.types :
                            LET path == file.country \o <<file.types[k].name>>
                            IN  IsType(at, path) /\ at[path] = i}
           newFields(i) == UNION {file.types[k].fields : k \in Declared(i)}
           newMethods(i) == UNION {file.types[k].methods : k \in Declared(i)}
           filled == [i \in DOMAIN types |->
                        [types[i] EXCEPT !.fields = @ \cup newFields(i),
                                         !.methods = @ \cup newMethods(i)]]
<1>1. /\ phase = "members" /\ TypeOK /\ Rooted(at, types) /\ Untouched
      /\ program \in Programs /\ next \in 1..Len(Files)
      /\ UNCHANGED <<program, order, at, item, walk, collected, errors, answers>>
      /\ types' = filled /\ Advance(Len(Files), "bodies")
    BY DEF PostCollect, IInv, TypeOK, Files
<1>2. /\ next \in DOMAIN Files /\ Len(Files) \in Nat \ {0}
      /\ types \in Seq(Parts) /\ DOMAIN types = 1..Len(types) /\ Len(types) \in Nat
      /\ \A i \in DOMAIN types : types[i] \in Parts
    BY <1>1, Lengths, LenProperties, ElementOfSeq DEF Rooted
<1>3. ASSUME NEW i \in DOMAIN types
      PROVE  newFields(i) \subseteq STRING /\ newMethods(i) \subseteq STRING
    <2>1. file.types \in Seq(Declaration)
        BY <1>1, <1>2, FileFacts DEF SourceFile
    <2>2. \A k \in DOMAIN file.types : file.types[k] \in Declaration
        BY <2>1, ElementOfSeq, LenProperties
    <2>3. \A k \in Declared(i) :
                file.types[k].fields \subseteq STRING /\ file.types[k].methods \subseteq STRING
        BY <2>2 DEF Declaration
    <2> HIDE DEF Declared
    <2> QED BY <2>3
<1> HIDE DEF newFields, newMethods
<1>4. /\ DOMAIN filled = DOMAIN types
      /\ \A i \in DOMAIN types :
            /\ filled[i] \in Parts
            /\ filled[i].by = types[i].by /\ filled[i].bound = types[i].bound
    BY <1>2, <1>3 DEF Parts
<1>5. filled \in [1..Len(types) -> Parts]
    <2>1. filled = [i \in 1..Len(types) |-> filled[i]]
        BY <1>2
    <2> HIDE DEF filled
    <2> QED BY <2>1, <1>2, <1>4
<1> HIDE DEF filled
<1>6. filled \in Seq(Parts) /\ Len(filled) = Len(types)
    <2>1. filled \in Seq(Parts)
        BY <1>2, <1>5, SeqDef
    <2> QED BY <2>1, <1>2, <1>5, LenProperties
<1>7. Rooted(at', types')
    BY <1>1, <1>6 DEF Rooted
<1>8. /\ \A i \in DOMAIN types' : types'[i].bound = Unbound /\ types'[i].by \in -1..Len(Files)
      /\ errors \subseteq [file : DOMAIN Files, name : PathName]
    BY <1>1, <1>4 DEF Untouched, TypeOK, Files
<1>9. phase' \in {"members", "bodies"} /\ next' \in 1..Len(Files)
    BY <1>1, <1>2 DEF Advance, ToPhase
<1>10. Prepares
    BY <1>1, <1>7, <1>8, <1>9 DEF Prepares, Early
<1> QED BY <1>1, <1>10, EarlyStep DEF Early

LEMMA InitHolds == Init => IInv
<1> SUFFICES ASSUME Init PROVE IInv
    OBVIOUS
<1> DEFINE Path(j) == Talmud \o <<Aliases[j].alias>>
           paths == {Path(j) : j \in DOMAIN Aliases}
           added == [path \in paths |-> CHOOSE j \in DOMAIN Aliases : path = Path(j)]
<1>1. /\ program \in Programs /\ order \in SetToSeqs(DOMAIN program.holds)
      /\ at = With(WithCountry(<<>>, Talmud), added)
      /\ types = [j \in DOMAIN Aliases |-> Placeholder(Aliases[j])]
      /\ phase = "contexts" /\ next = 1 /\ item = 1
      /\ walk = NoWalk /\ collected = {} /\ errors = {} /\ answers = <<>>
    BY DEF Init
<1>2. /\ Len(Files) \in Nat \ {0} /\ DOMAIN Aliases = 1..Len(Aliases)
      /\ Len(Aliases) \in Nat \ {0}
      /\ \A j \in DOMAIN Aliases :
            Aliases[j].of \in PathName /\ <<Aliases[j].alias>> \in PathName
    BY <1>1, Lengths
<1>3. ASSUME NEW j \in DOMAIN Aliases PROVE Path(j) \in PathName /\ Path(j) # <<>>
    <2>1. Path(j) \in PathName /\ Len(Path(j)) = Len(Talmud) + Len(<<Aliases[j].alias>>)
        BY <1>2, NamesAssumption, ConcatProperties DEF PathName
    <2>2. Len(<<Aliases[j].alias>>) = 1 /\ Len(Talmud) \in Nat
        BY NamesAssumption, LenProperties DEF PathName
    <2>3. Len(Path(j)) # 0
        BY <2>1, <2>2
    <2> QED BY <2>1, <2>3, EmptySeq
<1>4. /\ types \in Seq(Parts) /\ Len(types) = Len(Aliases) /\ DOMAIN types = DOMAIN Aliases
      /\ \A i \in DOMAIN types : types[i].bound = Unbound /\ types[i].by \in -1..Len(Files)
    <2>1. \A j \in DOMAIN Aliases : /\ Placeholder(Aliases[j]) \in Parts
                                   /\ Placeholder(Aliases[j]).bound = Unbound
                                   /\ Placeholder(Aliases[j]).by = -1
        BY <1>2, EmptySeq DEF Placeholder, Symbol, Parts, Unbound, NoSuper, PathName
    <2>2. /\ types \in [1..Len(Aliases) -> Parts]
          /\ \A i \in DOMAIN types : types[i].bound = Unbound /\ types[i].by = -1
        BY <2>1, <1>1, <1>2
    <2>3. types \in Seq(Parts)
        BY <2>2, <1>2, SeqDef
    <2> QED BY <2>2, <2>3, <1>2, LenProperties
<1>5. Rooted(at, types)
    <2> DEFINE country == WithCountry(<<>>, Talmud)
    <2>1. /\ DOMAIN country = Prefixes(Talmud)
          /\ \A p \in DOMAIN country : country[p] = Country /\ p \in PathName
        <3>1. UNION {Prefixes(path) : path \in {Talmud}} = Prefixes(Talmud)
            OBVIOUS
        <3>2. /\ DOMAIN country = Prefixes(Talmud) \cup DOMAIN <<>>
              /\ \A p \in Prefixes(Talmud) : country[p] = Country
            BY <3>1 DEF WithCountry, WithCountries, With
        <3>3. \A p \in Prefixes(Talmud) : p \in PathName
            BY PrefixFacts, NamesAssumption
        <3>4. DOMAIN <<>> = {}
            OBVIOUS
        <3> HIDE DEF country
        <3> QED BY <3>2, <3>3, <3>4
    <2>2. /\ DOMAIN added = paths
          /\ \A path \in paths : added[path] \in DOMAIN Aliases
        OBVIOUS
    <2>3. \A path \in paths : path \in PathName /\ path # <<>>
        <3> HIDE DEF Path
        <3> QED BY <1>3
    <2> HIDE DEF country, added, paths
    <2>4. /\ DOMAIN at = DOMAIN country \cup paths
          /\ \A p \in DOMAIN at : at[p] = IF p \in paths THEN added[p] ELSE country[p]
        BY <1>1, <2>2 DEF With, country
    <2>5. \A p \in DOMAIN at : p \in PathName /\ at[p] \in 0..Len(types)
        BY <2>1, <2>2, <2>3, <2>4, <1>2, <1>4 DEF Country
    <2>6. Global \in DOMAIN at => at[Global] = Country
        BY <2>1, <2>3, <2>4 DEF Global
    <2> QED BY <2>5, <2>6, <1>4 DEF Rooted
<1>6. TypeOK
    <2>1. \A i \in DOMAIN types : /\ types[i].by \in -1..Len(program.files)
                                 /\ types[i].bound \in 0..Len(types)
        BY <1>2, <1>4 DEF Unbound, Files
    <2>2. next \in Nat /\ next \in 1..Len(program.files)
        BY <1>1, <1>2 DEF Files
    <2>3. answers \in Seq([file : DOMAIN program.files, name : PathName,
                           type : DOMAIN types, path : PathName])
        BY <1>1, EmptySeq
    <2>4. \A path \in DOMAIN at : path \in PathName /\ at[path] \in 0..Len(types)
        BY <1>5 DEF Rooted
    <2> HIDE DEF added, paths
    <2> QED BY <2>1, <2>2, <2>3, <2>4, <1>1, <1>4 DEF TypeOK
<1>7. Untouched /\ BoundAlive
    BY <1>1, <1>4 DEF Untouched, BoundAlive
<1>8. AnswersAlive
    <2>1. DOMAIN answers = {}
        BY <1>1
    <2> QED BY <2>1 DEF AnswersAlive
<1> QED BY <1>1, <1>5, <1>6, <1>7, <1>8 DEF IInv

-----------------------------------------------------------------------------
(* The theorems *)

LEMMA EndedKeeps == IInv /\ UNCHANGED vars => IInv'
<1> SUFFICES ASSUME IInv, UNCHANGED vars PROVE IInv'
    OBVIOUS
<1>1. UNCHANGED <<program, order, at, types, phase, next, item, walk, collected, errors,
                  answers>>
    BY DEF vars
<1>2. TypeOK'
    <2>1. TypeOK
        BY DEF IInv
    <2> QED BY <1>1, <2>1 DEF TypeOK
<1>3. (phase = "bodies" => Entered)'
    BY <1>1 DEF IInv, Entered, Items, Files, IsType
<1> QED BY <1>1, <1>2, <1>3 DEF IInv, Rooted, Untouched, BoundAlive, Alive, AnswersAlive, IsType

LEMMA Inductive == Spec => []IInv
<1>1. Init => IInv
    BY InitHolds
<1>2. IInv /\ [Next]_vars => IInv'
    BY MakeContextKeeps, CollectKeeps, ResolveBuiltinKeeps, PostCollectKeeps,
       ResolveSuperKeeps, ArriveKeeps, ClimbBoundKeeps, ClimbOutKeeps, ClimbUnboundKeeps,
       ResolveUseKeeps, ResolveCallKeeps, NextFileKeeps, EndedKeeps
       DEF Next, Ended
<1> QED BY <1>1, <1>2, PTL DEF Spec

(* Every variable keeps its type: the symbols of symbol_table/, the tree   *)
(* of the countries, and the super types bound in it.                      *)
THEOREM TypesKept == Spec => []TypeOK
<1>1. IInv => TypeOK
    BY DEF IInv
<1> QED BY <1>1, Inductive, PTL

(* No super type in use and no name of a body is bound to a symbol that    *)
(* has been destroyed or that stands for another name, whatever the files, *)
(* the class path and the order of the class loaders.                      *)
THEOREM NothingDangles == Spec => []BindingsAlive
<1>1. IInv => BindingsAlive
    BY DEF IInv, BindingsAlive, BoundAlive, AnswersAlive
<1> QED BY <1>1, Inductive, PTL


-----------------------------------------------------------------------------
(* The members of a type of the sources *)

(* A class file adds members to the type that stands under its name.       *)
LEMMA LoadTouches ==
    ASSUME NEW tree, NEW symbols, Rooted(tree, symbols), NEW class \in Class,
           NEW i \in DOMAIN symbols,
           Load(tree, symbols, class).types[i].fields # symbols[i].fields
           \/ Load(tree, symbols, class).types[i].methods # symbols[i].methods
    PROVE  IsType(tree, class.name) /\ tree[class.name] = i
<1> DEFINE load == Load(tree, symbols, class)
           broken == \/ Blocked(tree, Front(class.name))
                     \/ class.name \in DOMAIN tree /\ tree[class.name] = Country
           old == tree[class.name]
<1>1. symbols \in Seq(Parts) /\ DOMAIN symbols = 1..Len(symbols) /\ Len(symbols) \in Nat
    BY LenProperties DEF Rooted
<1>2. CASE broken
    <2>1. load.types = symbols
        BY <1>2 DEF Load
    <2> QED BY <2>1
<1>3. CASE ~ broken /\ IsType(tree, class.name)
    <2>1. load.types = [symbols EXCEPT ![old].fields = @ \cup class.fields,
                                       ![old].methods = @ \cup class.methods]
        BY <1>3 DEF Load
    <2>2. i # old => load.types[i] = symbols[i]
        BY <2>1
    <2> HIDE DEF load
    <2>3. i = old
        BY <2>2 DEF load
    <2> QED BY <2>3, <1>3
<1>4. CASE ~ broken /\ ~ IsType(tree, class.name)
    <2> DEFINE symbol == Symbol(class.name, 0, class.super, class.fields, class.methods)
    <2>1. load.types = Append(symbols, symbol)
        BY <1>4 DEF Load
    <2>2. symbol \in Parts
        BY DEF Class, Symbol, Parts, Unbound
    <2> HIDE DEF symbol
    <2>3. Append(symbols, symbol)[i] = symbols[i]
        BY <1>1, <2>2, AppendProperties
    <2> QED BY <2>1, <2>3
<1> QED BY <1>2, <1>3, <1>4

(* So a look-up adds members to a type only on the way through the type to *)
(* something that was not found.                                           *)
LEMMA LookupTouches ==
    ASSUME IInv, Busy, ClassesInPlace, NEW name \in PathName, NEW i \in DOMAIN types,
           Lookup(next, name).types[i].fields # types[i].fields
           \/ Lookup(next, name).types[i].methods # types[i].methods
    PROVE  \E k \in 1..(Len(name) - 1) : \E country \in ToSet(LookupCountries(next)) :
                LET through == country \o SubSeq(name, 1, k)
                IN  IsType(at, through) /\ at[through] = i
<1> DEFINE found == Lookup(next, name)
<1>1. /\ program \in Programs /\ order \in SetToSeqs(DOMAIN program.holds)
      /\ next \in DOMAIN Files /\ Rooted(at, types)
    BY BusyFacts
<1>2. \/ found.types = types
      \/ \E c \in DOMAIN LookupCountries(next), n \in 1..Len(name) :
            LET first == LookupCountries(next)[c] \o SubSeq(name, 1, n)
                loaded == Load(at, types, ClassAt(first))
            IN  /\ Loadable(first) /\ Known(next, name) = Nothing
                /\ found.types = loaded.types
    BY <1>1, LookupGood
<1>3. PICK c \in DOMAIN LookupCountries(next), n \in 1..Len(name) :
            LET first == LookupCountries(next)[c] \o SubSeq(name, 1, n)
            IN  /\ Loadable(first) /\ Known(next, name) = Nothing
                /\ found.types = Load(at, types, ClassAt(first)).types
    <2> HIDE DEF found
    <2>1. found.types # types
        BY DEF found
    <2> QED BY <1>2, <2>1
<1> DEFINE country == LookupCountries(next)[c]
           first == country \o SubSeq(name, 1, n)
<1>4. ClassAt(first) \in Class /\ ClassAt(first).name = first
    <2> HIDE DEF first
    <2>1. Loadable(first)
        BY <1>3 DEF first
    <2>2. /\ ClassAt(first) \in Class
          /\ \E l \in DOMAIN program.holds :
                first \in DOMAIN program.holds[l] /\ ClassAt(first) = program.holds[l][first]
        BY <1>1, <2>1, LoadableClass
    <2> QED BY <2>2 DEF ClassesInPlace
<1>5. IsType(at, first) /\ at[first] = i
    <2> HIDE DEF first, found
    <2>1. \/ Load(at, types, ClassAt(first)).types[i].fields # types[i].fields
          \/ Load(at, types, ClassAt(first)).types[i].methods # types[i].methods
        BY <1>3 DEF first, found
    <2> QED BY <1>1, <1>4, <2>1, LoadTouches
<1>6. n # Len(name)
    <2>1. SUFFICES ASSUME n = Len(name) PROVE FALSE
        OBVIOUS
    <2>2. first = country \o name
        BY <2>1, SubSeqFull DEF PathName
    <2>3. Reach(at, types, country, name) # Nothing
        <3>1. country \o name \in DOMAIN at
            BY <1>5, <2>2 DEF IsType
        <3>2. Reach(at, types, country, name)
                = [kind |-> IF at[country \o name] = Country THEN "country" ELSE "type",
                   type |-> at[country \o name], path |-> country \o name]
            BY <3>1 DEF Reach
        <3>3. "type" # "nothing" /\ "country" # "nothing"
            OBVIOUS
        <3>4. Reach(at, types, country, name).kind \in {"country", "type"}
            BY <3>2
        <3> QED BY <3>3, <3>4 DEF Nothing
    <2>4. Known(next, name) = Nothing
        BY <1>3
    <2> QED BY <1>1, <2>3, <2>4, ResolveFirst DEF Known
<1>7. n \in 1..(Len(name) - 1)
    <2>1. Len(name) \in Nat
        BY LenProperties DEF PathName
    <2> QED BY <1>6, <2>1
<1>8. country \in ToSet(LookupCountries(next))
    BY DEF ToSet
<1> QED BY <1>5, <1>7, <1>8

(* Whatever a step of the last pass asks for, what it leaves and answers   *)
(* comes from one look-up.                                                 *)
BindsFound(found) ==
    \E w \in DOMAIN types : /\ found.sym # Nothing /\ found.sym.kind = "type"
                            /\ types' = Bind(found.types, w, found.sym.type)
Follows(found) ==
    /\ at' = found.at
    /\ types' = found.types \/ BindsFound(found)
    /\ \/ answers' = answers
       \/ /\ found.sym # Nothing /\ found.sym.kind \in {"type", "field"}
          /\ answers' = Recorded(Asked, found.sym)

LEMMA StepAsks ==
    ASSUME IInv, Busy, Next
    PROVE  /\ Asked \in PathName /\ program' = program
           /\ \/ at' = at /\ types' = types /\ answers' = answers
              \/ Follows(Lookup(next, Asked))
<1> DEFINE found == Lookup(next, Asked)
           Still == at' = at /\ types' = types /\ answers' = answers
           Outcome == program' = program /\ (Still \/ Follows(found))
<1>1. Asked \in PathName
    <2>1. CASE walk # NoWalk
        BY <2>1, BusyFacts DEF Asked, Parts
    <2>2. CASE walk = NoWalk /\ Item.kind = "call"
        BY <2>2, BusyFacts, NameParts DEF Asked, Named
    <2>3. CASE walk = NoWalk /\ Item.kind # "call"
        BY <2>3, BusyFacts DEF Asked, Named
    <2> QED BY <2>1, <2>2, <2>3
<1>2. ASSUME ResolveSuper PROVE Outcome
    <2>1. Asked = Item.name
        BY <1>2 DEF ResolveSuper, Asked
    <2>2. /\ program' = program
          /\ \/ Still
             \/ /\ IsType(at, Item.in) /\ at' = found.at
                /\ \/ /\ found.sym # Nothing /\ found.sym.kind = "type"
                      /\ types' = Bind(found.types, at[Item.in], found.sym.type)
                      /\ answers' = Recorded(Asked, found.sym)
                   \/ types' = found.types /\ answers' = answers
        BY <1>2, <2>1 DEF ResolveSuper
    <2>3. IsType(at, Item.in) => at[Item.in] \in DOMAIN types
        BY BusyFacts DEF IsType
    <2> HIDE DEF found
    <2> QED BY <2>2, <2>3 DEF Follows, BindsFound
<1>3. ASSUME ClimbUnbound PROVE Outcome
    <2>1. Asked = types[walk.type].super /\ walk.type \in DOMAIN types
        BY <1>3, BusyFacts DEF ClimbUnbound, Asked
    <2>2. /\ program' = program
          /\ \/ Still
             \/ /\ at' = found.at
                /\ \/ /\ found.sym # Nothing /\ found.sym.kind = "type"
                      /\ types' = Bind(found.types, walk.type, found.sym.type)
                      /\ answers' = Recorded(Asked, found.sym)
                   \/ types' = found.types /\ answers' = answers
        BY <1>3, <2>1 DEF ClimbUnbound
    <2> HIDE DEF found
    <2> QED BY <2>1, <2>2 DEF Follows, BindsFound
<1>4. ASSUME ResolveUse PROVE Outcome
    <2>1. Asked = Item.name /\ Item.kind \in {"type", "field"}
        BY <1>4 DEF ResolveUse, Asked
    <2> QED BY <1>4, <2>1 DEF ResolveUse, Follows, Wanted
<1>5. ASSUME ResolveCall PROVE Outcome
    <2>1. Asked = Front(Item.name)
        BY <1>5 DEF ResolveCall, Asked
    <2> QED BY <1>5, <2>1 DEF ResolveCall, Follows
<1>6. ASSUME Arrive \/ ClimbBound \/ ClimbOut \/ NextFile \/ Ended PROVE Outcome
    <2>1. Still /\ program' = program
        BY <1>6 DEF Arrive, ClimbBound, ClimbOut, NextFile, Ended, vars
    <2> QED BY <2>1
<1>7. ~ (MakeContext \/ Collect \/ ResolveBuiltin \/ PostCollect)
    BY BusyFacts DEF MakeContext, Collect, ResolveBuiltin, PostCollect
<1>8. Outcome
    <2> HIDE DEF Outcome
    <2> QED BY <1>2, <1>3, <1>4, <1>5, <1>6, <1>7 DEF Next
<1> QED BY <1>1, <1>8

(* Binding leaves the members as the look-up left them.                    *)
LEMMA MembersFound ==
    ASSUME IInv, Busy, Next, Follows(Lookup(next, Asked))
    PROVE  LET r == Lookup(next, Asked).types
           IN  /\ Loads(r) /\ DOMAIN types' = DOMAIN r
               /\ \A i \in DOMAIN r :
                    /\ types'[i].fields = r[i].fields /\ types'[i].methods = r[i].methods
                    /\ types'[i].name = r[i].name /\ types'[i].by = r[i].by
                    /\ types'[i].super = r[i].super
                    /\ types'[i].bound = r[i].bound \/ types'[i].bound # Unbound
<1> DEFINE found == Lookup(next, Asked)
           r == found.types
<1>1. /\ Loads(r) /\ DOMAIN types \subseteq DOMAIN r
      /\ found.sym # Nothing /\ found.sym.kind = "type" => found.sym.type \in DOMAIN r
    BY StepAsks, Looked DEF Follows
<1>2. r \in Seq(Parts) /\ DOMAIN r = 1..Len(r) /\ Len(r) \in Nat
    BY <1>1, LenProperties DEF Loads, Rooted
<1>3. CASE types' = r
    BY <1>1, <1>3
<1>4. CASE BindsFound(found)
    <2> HIDE DEF found
    <2>1. PICK w \in DOMAIN types :
                /\ found.sym # Nothing /\ found.sym.kind = "type"
                /\ types' = Bind(r, w, found.sym.type)
        BY <1>4 DEF BindsFound
    <2> DEFINE super == found.sym.type
    <2>2. r \in Seq(Parts) /\ w \in DOMAIN r /\ super \in DOMAIN r
        BY <1>1, <1>2, <2>1
    <2>3. super # Unbound
        BY <1>2, <2>2 DEF Unbound
    <2> HIDE DEF r, super
    <2>4. /\ DOMAIN Bind(r, w, super) = DOMAIN r
          /\ \A i \in DOMAIN r :
                /\ Bind(r, w, super)[i].by = r[i].by /\ Bind(r, w, super)[i].name = r[i].name
                /\ Bind(r, w, super)[i].super = r[i].super
                /\ Bind(r, w, super)[i].fields = r[i].fields
                /\ Bind(r, w, super)[i].methods = r[i].methods
                /\ Bind(r, w, super)[i].bound = IF i = w THEN super ELSE r[i].bound
        BY <2>2, BindFacts
    <2>5. types' = Bind(r, w, super)
        BY <2>1 DEF r, super
    <2> QED BY <1>1, <2>3, <2>4, <2>5 DEF found, r
<1> QED BY <1>3, <1>4 DEF Follows

(* The members of a type of the sources come from the sources, but for     *)
(* those of a class file that a name asks for which goes through the type  *)
(* to something the type lacks (loader.cpp, class_file_loader).            *)
THEOREM SourceTypesKept == Spec => SourceMembersKept
<1> DEFINE Kept == Busy /\ ClassesInPlace
                   => \A i \in DOMAIN types : types[i].by > 0 => OnlyForMissingMembers(i)
<1>1. ASSUME IInv, Next, Busy, ClassesInPlace, NEW i \in DOMAIN types
      PROVE  OnlyForMissingMembers(i)
    <2> SUFFICES ASSUME types'[i].fields \cup types'[i].methods # Members(i)
                 PROVE  \E k \in 1..(Len(Asked) - 1) :
                            \E country \in ToSet(LookupCountries(next)) :
                                LET through == country \o SubSeq(Asked, 1, k)
                                IN  IsType(at, through) /\ at[through] = i
        BY DEF OnlyForMissingMembers
    <2>1. /\ Asked \in PathName
          /\ \/ types'[i] = types[i]
             \/ /\ types'[i].fields = Lookup(next, Asked).types[i].fields
                /\ types'[i].methods = Lookup(next, Asked).types[i].methods
        <3>1. CASE types' = types
            BY <3>1, <1>1, StepAsks
        <3>2. CASE Follows(Lookup(next, Asked))
            <4>1. i \in DOMAIN Lookup(next, Asked).types
                BY <1>1, <3>2, MembersFound DEF Loads, Grown
            <4> QED BY <4>1, <3>2, <1>1, StepAsks, MembersFound
        <3> QED BY <3>1, <3>2, <1>1, StepAsks
    <2>2. \/ Lookup(next, Asked).types[i].fields # types[i].fields
          \/ Lookup(next, Asked).types[i].methods # types[i].methods
        BY <2>1 DEF Members
    <2> QED BY <1>1, <2>1, <2>2, LookupTouches
<1>2. IInv /\ [Next]_vars => [Kept]_vars
    BY <1>1
<1> QED BY <1>2, Inductive, PTL DEF Spec, SourceMembersKept


=============================================================================
