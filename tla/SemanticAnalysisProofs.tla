---------------------- MODULE SemanticAnalysisProofs ----------------------
(***************************************************************************)
(* For every program, every number of files and every order of them, the   *)
(* methods whose signatures are still to be resolved are found             *)
(* (SignatureFound).  This is not inductive: it needs to know that a slot  *)
(* holds one symbol, that pass two reported every collision (the gate      *)
(* before pass three), that no method is re-keyed twice, and that a file's *)
(* aliases are resolved after all its signatures.                          *)
(***************************************************************************)
EXTENDS SemanticAnalysis, FiniteSetTheorems, TLAPS

Unresolved(d) == Entry(d, prog.decl[d].name, UnresolvedKey(d))
FileOf(d) == prog.file[prog.decl[d].cls]
Distinct(table) == \A o1, o2 \in table : Slot(o1) = Slot(o2) => o1 = o2

(* Where the loops stand. *)
LoopInv ==
    /\ prog \in Programs
    /\ file \in File \cup {NoFile}
    /\ left \subseteq File /\ pending \subseteq Decls
    /\ phase \in {"symbols", "methods", "types", "bodies", "aliases",
                  "accepted", "rejected", "crashed"}
    /\ phase \in {"bodies", "aliases"} => file # NoFile
    /\ phase # "types" => type = NoClass \/ phase = "crashed"
    /\ (type = NoClass /\ phase = "types") => pending = {}
    /\ (file = NoFile /\ phase # "crashed") =>
           types = {} /\ type = NoClass /\ pending = {}
    /\ file # NoFile => file \notin left /\ types \subseteq ClassesOf(file)
    /\ (type # NoClass /\ phase = "types") =>
           /\ type \in ClassesOf(file) \ types
           /\ pending \subseteq MethodsOf(type)

(* Which signatures were resolved. *)
RekeyInv ==
    /\ \A d \in Decls : ~IsSource(d) => d \in rekeyed
    /\ phase \in {"symbols", "methods"} => \A d \in rekeyed : ~IsSource(d)
    /\ phase \in {"types", "bodies", "aliases"} =>
           \A d \in rekeyed : IsSource(d) => FileOf(d) \notin left
    /\ phase = "types" =>
           \A d \in rekeyed : IsSource(d) =>
               prog.decl[d].cls \notin types /\ d \notin pending
    /\ (phase = "types" /\ file # NoFile) =>
           \A d \in MethodsIn(file) :
               d \in rekeyed \/ prog.decl[d].cls \in types \/ d \in pending
    /\ phase \in {"bodies", "aliases"} => MethodsIn(file) \subseteq rekeyed

(* What pass two put in the tables. *)
CollectInv ==
    (phase = "methods" /\ errors = {}) =>
        \A d \in Decls \ rekeyed :
            (FileOf(d) \notin left /\ d \notin pending) => Unresolved(d) \in overloads

(* The tables are maps. *)
OneSymbolPerKey ==
    \A o1, o2 \in overloads : Slot(o1) = Slot(o2) => o1 = o2

IInv == LoopInv /\ RekeyInv /\ CollectInv /\ OneSymbolPerKey /\ SignatureFound

-----------------------------------------------------------------------------
(* Inserting into a table keeps what is there. *)
LEMMA EmplaceKeeps ==
    ASSUME NEW table, NEW new
    PROVE  table \subseteq Emplace(table, new)
BY DEF Emplace

(* Inserting entries of which no two share a slot keeps slots distinct. *)
LEMMA EmplaceDistinct ==
    ASSUME NEW table, NEW new, Distinct(table), Distinct(new)
    PROVE  Distinct(Emplace(table, new))
BY DEF Emplace, Distinct

-----------------------------------------------------------------------------
(* The loops over files, types and methods keep their bookkeeping. *)
LEMMA LoopInit == Init => LoopInv
BY ConstantsAssumption DEF Init, LoopInv, Decls

LEMMA LoopStep == LoopInv /\ [Next]_vars => LoopInv'
<1> SUFFICES ASSUME LoopInv, [Next]_vars PROVE LoopInv'
    OBVIOUS
<1> USE ConstantsAssumption DEF LoopInv, Decls, ClassesOf, MethodsOf
<1>1. ASSUME NEW f \in File, BeginFile(f) PROVE LoopInv'
    BY <1>1 DEF BeginFile, MethodsIn, ClassesOf
<1>2. ASSUME NEW c \in Class, CollectType(c) PROVE LoopInv'
    BY <1>2 DEF CollectType, ClassesOf
<1>3. ASSUME NEW d \in DeclId, CollectMethod(d) PROVE LoopInv'
    BY <1>3 DEF CollectMethod
<1>4. CASE EndFile
    BY <1>4 DEF EndFile
<1>5. CASE EndPass
    BY <1>5 DEF EndPass, PhaseAfter, Following, Verdicts
<1>6. ASSUME NEW c \in Class, BeginType(c) PROVE LoopInv'
    BY <1>6 DEF BeginType, MethodsOf
<1>7. ASSUME NEW d \in DeclId, ResolveMethodSignature(d) PROVE LoopInv'
    BY <1>7 DEF ResolveMethodSignature, MethodsOf
<1>8. CASE FinishType
    BY <1>8 DEF FinishType
<1>9. CASE BeginBodies
    BY <1>9 DEF BeginBodies, MethodsIn
<1>10. ASSUME NEW d \in DeclId, ResolveMethodBody(d) PROVE LoopInv'
    BY <1>10 DEF ResolveMethodBody
<1>11. CASE BeginAliases
    BY <1>11 DEF BeginAliases, ClassesOf
<1>12. ASSUME NEW c \in Class, ResolveAliases(c) PROVE LoopInv'
    BY <1>12 DEF ResolveAliases, ClassesOf
<1>13. CASE Done \/ UNCHANGED vars
    BY <1>13 DEF Done, vars, MethodsOf, ClassesOf
<1> QED BY <1>1, <1>2, <1>3, <1>4, <1>5, <1>6, <1>7, <1>8, <1>9, <1>10, <1>11,
           <1>12, <1>13 DEF Next

-----------------------------------------------------------------------------
(* The parser gives every method a type. *)
LEMMA MethodHasType ==
    ASSUME prog \in Programs, NEW d \in Decls
    PROVE  d \in DeclId /\ prog.decl[d].cls \in Class
BY ProgramsAssumption DEF Program, Declaration, Decls

(* No signature is resolved twice, and those of a file before its aliases. *)
LEMMA RekeyInit == Init => RekeyInv
BY ConstantsAssumption DEF Init, RekeyInv, Decls, IsSource, MethodsIn

LEMMA RekeyStep == LoopInv /\ RekeyInv /\ [Next]_vars => RekeyInv'
<1> SUFFICES ASSUME LoopInv /\ RekeyInv, [Next]_vars PROVE RekeyInv'
    OBVIOUS
<1> USE ConstantsAssumption DEF LoopInv, RekeyInv, Decls, IsSource, FileOf, MethodsIn, MethodsOf, ClassesOf
<1>1. ASSUME NEW f \in File, BeginFile(f) PROVE RekeyInv'
    BY <1>1, MethodHasType DEF BeginFile
<1>2. ASSUME NEW c \in Class, CollectType(c) PROVE RekeyInv'
    BY <1>2 DEF CollectType
<1>3. ASSUME NEW d \in DeclId, CollectMethod(d) PROVE RekeyInv'
    BY <1>3 DEF CollectMethod
<1>4. CASE EndFile
    BY <1>4 DEF EndFile
<1>5. CASE EndPass
    BY <1>5 DEF EndPass, PhaseAfter, Following, Verdicts
<1>6. ASSUME NEW c \in Class, BeginType(c) PROVE RekeyInv'
    <2>1. phase = "types" /\ phase' = phase /\ pending = {} /\ file' = file
          /\ rekeyed' = rekeyed /\ prog' = prog /\ left' = left
        BY <1>6 DEF BeginType
    <2>2. types' = types \ {c} /\ pending' = {e \in Decls : prog.decl[e].cls = c}
        BY <1>6 DEF BeginType
    <2>3. c \in types
        BY <1>6 DEF BeginType
    <2>4. \A e \in rekeyed' : IsSource(e)' =>
              prog'.decl[e].cls \notin types' /\ e \notin pending'
        BY <2>1, <2>2, <2>3
    <2>5. file' # NoFile =>
              \A e \in MethodsIn(file)' :
                  e \in rekeyed' \/ prog'.decl[e].cls \in types' \/ e \in pending'
        BY <2>1, <2>2
    <2>6. \A e \in rekeyed' : IsSource(e)' => FileOf(e)' \notin left'
        BY <2>1
    <2>7. \A e \in Decls' : ~IsSource(e)' => e \in rekeyed'
        BY <2>1
    <2> HIDE DEF LoopInv, Decls, IsSource, FileOf, MethodsIn
    <2> QED BY <2>1, <2>4, <2>5, <2>6, <2>7
<1>7. ASSUME NEW d \in DeclId, ResolveMethodSignature(d) PROVE RekeyInv'
    BY <1>7 DEF ResolveMethodSignature
<1>8. CASE FinishType
    BY <1>8 DEF FinishType
<1>9. CASE BeginBodies
    BY <1>9 DEF BeginBodies
<1>10. ASSUME NEW d \in DeclId, ResolveMethodBody(d) PROVE RekeyInv'
    BY <1>10 DEF ResolveMethodBody
<1>11. CASE BeginAliases
    BY <1>11 DEF BeginAliases
<1>12. ASSUME NEW c \in Class, ResolveAliases(c) PROVE RekeyInv'
    BY <1>12 DEF ResolveAliases
<1>13. CASE Done \/ UNCHANGED vars
    BY <1>13 DEF Done, vars
<1> QED BY <1>1, <1>2, <1>3, <1>4, <1>5, <1>6, <1>7, <1>8,
           <1>9, <1>10, <1>11, <1>12, <1>13 DEF Next

-----------------------------------------------------------------------------
(* Moving the one entry of a slot moves one entry. *)
LEMMA MovedDistinct ==
    ASSUME OneSymbolPerKey, NEW c, NEW n, NEW k, NEW S \in SUBSET At(c, n, k)
    PROVE  \A o1, o2 \in S : o1 = o2
BY DEF OneSymbolPerKey, At

(* One method per descriptor, in the initial tables and after every step. *)
LEMMA OneSymbolInit == Init => OneSymbolPerKey
<1> SUFFICES ASSUME Init PROVE OneSymbolPerKey
    OBVIOUS
<1>1. ASSUME NEW d1 \in Decls, NEW d2 \in Decls, ~IsSource(d1), ~IsSource(d2),
             Slot(Entry(d1, prog.decl[d1].name, ResolvedKey(d1)))
               = Slot(Entry(d2, prog.decl[d2].name, ResolvedKey(d2)))
      PROVE  d1 = d2
    BY <1>1, ExternalsAssumption
    DEF Init, Decls, IsSource, Slot, Entry, ResolvedKey, Denoted
<1> QED BY <1>1 DEF Init, OneSymbolPerKey

LEMMA OneSymbolStep == OneSymbolPerKey /\ [Next]_vars => OneSymbolPerKey'
<1> SUFFICES ASSUME OneSymbolPerKey, [Next]_vars PROVE OneSymbolPerKey'
    OBVIOUS
<1> USE DEF OneSymbolPerKey
<1>1. ASSUME NEW f \in File, BeginFile(f) PROVE OneSymbolPerKey'
    BY <1>1 DEF BeginFile
<1>2. ASSUME NEW c \in Class, CollectType(c) PROVE OneSymbolPerKey'
    BY <1>2 DEF CollectType
<1>3. ASSUME NEW d \in DeclId, CollectMethod(d) PROVE OneSymbolPerKey'
    <2> DEFINE entry == Entry(d, prog.decl[d].name, UnresolvedKey(d))
    <2>1. overloads' = Emplace(overloads, {entry})
        BY <1>3 DEF CollectMethod
    <2>2. Distinct(overloads) /\ Distinct({entry})
        BY DEF Distinct
    <2>3. Distinct(overloads')
        BY <2>1, <2>2, EmplaceDistinct
    <2> QED BY <2>3 DEF Distinct, Slot
<1>4. CASE EndFile
    BY <1>4 DEF EndFile
<1>5. CASE EndPass
    BY <1>5 DEF EndPass
<1>6. ASSUME NEW c \in Class, BeginType(c) PROVE OneSymbolPerKey'
    BY <1>6 DEF BeginType
<1>7. ASSUME NEW d \in DeclId, ResolveMethodSignature(d) PROVE OneSymbolPerKey'
    <2> DEFINE found == At(type, prog.decl[d].name, UnresolvedKey(d))
               moved == {[o EXCEPT !.key = ResolvedKey(d)] : o \in found}
    <2>1. overloads' = Emplace(overloads \ found, moved)
        BY <1>7 DEF ResolveMethodSignature
    <2>2. \A o1, o2 \in found : o1 = o2
        BY MovedDistinct
    <2>3. Distinct(moved) /\ Distinct(overloads \ found)
        BY <2>2 DEF Distinct
    <2>4. Distinct(overloads')
        BY <2>1, <2>3, EmplaceDistinct
    <2> QED BY <2>4 DEF Distinct, Slot
<1>8. CASE FinishType
    BY <1>8 DEF FinishType
<1>9. CASE BeginBodies
    BY <1>9 DEF BeginBodies
<1>10. ASSUME NEW d \in DeclId, ResolveMethodBody(d) PROVE OneSymbolPerKey'
    BY <1>10 DEF ResolveMethodBody
<1>11. CASE BeginAliases
    BY <1>11 DEF BeginAliases
<1>12. ASSUME NEW c \in Class, ResolveAliases(c) PROVE OneSymbolPerKey'
    <2> DEFINE bereshit == At(c, Bereshit, <<StringArray>>)
               renamed == {o \in bereshit : /\ prog.decl[o.decl].public
                                            /\ prog.decl[o.decl].static}
               moved == {[o EXCEPT !.name = MainName] : o \in renamed}
    <2>1. overloads' = Emplace(overloads \ renamed, moved)
        BY <1>12 DEF ResolveAliases
    <2>2. \A o1, o2 \in bereshit : o1 = o2
        BY MovedDistinct
    <2>3. Distinct(moved) /\ Distinct(overloads \ renamed)
        BY <2>2 DEF Distinct
    <2>4. Distinct(overloads')
        BY <2>1, <2>3, EmplaceDistinct
    <2> QED BY <2>4 DEF Distinct, Slot
<1>13. CASE Done \/ UNCHANGED vars
    BY <1>13 DEF Done, vars
<1> QED BY <1>1, <1>2, <1>3, <1>4, <1>5, <1>6, <1>7, <1>8,
           <1>9, <1>10, <1>11, <1>12, <1>13 DEF Next

-----------------------------------------------------------------------------
(* A slot that holds the entry of a method holds no other. *)
LEMMA EntryAlone ==
    ASSUME OneSymbolPerKey, NEW d, Unresolved(d) \in overloads
    PROVE  At(prog.decl[d].cls, prog.decl[d].name, UnresolvedKey(d)) = {Unresolved(d)}
BY DEF OneSymbolPerKey, At, Unresolved, Entry, Slot

(* What pass two has processed and not reported is in the tables. *)
LEMMA CollectStep == LoopInv /\ RekeyInv /\ CollectInv /\ [Next]_vars => CollectInv'
<1> SUFFICES ASSUME LoopInv, RekeyInv, CollectInv, [Next]_vars,
                    phase' = "methods", errors' = {},
                    NEW d \in Decls', d \notin rekeyed',
                    FileOf(d)' \notin left', d \notin pending'
             PROVE  Unresolved(d)' \in overloads'
    BY DEF CollectInv
<1>a. prog' = prog
    BY DEF Next, BeginFile, CollectType, CollectMethod, EndFile, EndPass, BeginType,
       ResolveMethodSignature, FinishType, BeginBodies, ResolveMethodBody,
       BeginAliases, ResolveAliases, Done, vars
<1>b. /\ Unresolved(d)' = Unresolved(d) /\ FileOf(d)' = FileOf(d)
      /\ d \in Decls /\ (d \notin rekeyed => FileOf(d) \in File)
    BY <1>a, MethodHasType, ProgramsAssumption
    DEF Unresolved, Entry, UnresolvedKey, FileOf, Decls, RekeyInv, IsSource, LoopInv,
        Program
<1>1. ASSUME NEW f \in File, BeginFile(f) PROVE Unresolved(d) \in overloads'
    BY <1>1, <1>b DEF BeginFile, CollectInv, LoopInv, MethodsIn, FileOf
<1>2. ASSUME NEW c \in Class, CollectType(c) PROVE Unresolved(d) \in overloads'
    BY <1>2 DEF CollectType
<1>3. ASSUME NEW e \in DeclId, CollectMethod(e) PROVE Unresolved(d) \in overloads'
    <2>1. /\ phase = "methods" /\ pending' = pending \ {e} /\ rekeyed' = rekeyed
          /\ left' = left /\ overloads' = Emplace(overloads, {Unresolved(e)})
        BY <1>3 DEF CollectMethod, Unresolved
    <2>2. errors = {} /\ \A o \in overloads : Slot(o) # Slot(Unresolved(e))
        BY <1>3 DEF CollectMethod, Unresolved
    <2>3. CASE d = e
        BY <2>1, <2>2, <2>3 DEF Emplace
    <2>4. CASE d # e
        BY <2>1, <2>2, <2>4, <1>b, EmplaceKeeps DEF CollectInv
    <2> QED BY <2>3, <2>4
<1>4. CASE EndFile
    BY <1>4, <1>b DEF EndFile, CollectInv
<1>5. CASE EndPass
    BY <1>5, <1>b DEF EndPass, PhaseAfter, Following, Verdicts
<1>6. ASSUME NEW c \in Class, BeginType(c) PROVE Unresolved(d) \in overloads'
    BY <1>6 DEF BeginType
<1>7. ASSUME NEW e \in DeclId, ResolveMethodSignature(e)
      PROVE  Unresolved(d) \in overloads'
    BY <1>7 DEF ResolveMethodSignature
<1>8. CASE FinishType
    BY <1>8 DEF FinishType
<1>9. CASE BeginBodies
    BY <1>9 DEF BeginBodies
<1>10. ASSUME NEW e \in DeclId, ResolveMethodBody(e) PROVE Unresolved(d) \in overloads'
    BY <1>10 DEF ResolveMethodBody
<1>11. CASE BeginAliases
    BY <1>11 DEF BeginAliases
<1>12. ASSUME NEW c \in Class, ResolveAliases(c) PROVE Unresolved(d) \in overloads'
    BY <1>12 DEF ResolveAliases
<1>13. CASE Done \/ UNCHANGED vars
    BY <1>13, <1>b DEF Done, vars, CollectInv
<1> QED BY <1>b, <1>1, <1>2, <1>3, <1>4, <1>5, <1>6, <1>7, <1>8, <1>9, <1>10,
           <1>11, <1>12, <1>13 DEF Next

-----------------------------------------------------------------------------
(* The moves of other methods leave an unresolved method in its place. *)
LEMMA FoundStep == IInv /\ [Next]_vars => SignatureFound'
<1> SUFFICES ASSUME IInv, [Next]_vars,
                    phase' \in {"types", "bodies", "aliases"},
                    NEW d \in Decls', d \notin rekeyed'
             PROVE  Unresolved(d)' \in overloads'
    BY DEF SignatureFound, Unresolved
<1>a. prog' = prog
    BY DEF Next, BeginFile, CollectType, CollectMethod, EndFile, EndPass, BeginType,
       ResolveMethodSignature, FinishType, BeginBodies, ResolveMethodBody,
       BeginAliases, ResolveAliases, Done, vars
<1>b. Unresolved(d)' = Unresolved(d) /\ d \in Decls
    BY <1>a DEF Unresolved, Entry, UnresolvedKey, Decls
<1>c. ASSUME phase \in {"types", "bodies", "aliases"}, d \notin rekeyed
      PROVE  Unresolved(d) \in overloads
    BY <1>b, <1>c DEF IInv, SignatureFound, Unresolved
<1>1. ASSUME NEW f \in File, BeginFile(f) PROVE Unresolved(d) \in overloads'
    BY <1>1, <1>c DEF BeginFile
<1>2. ASSUME NEW c \in Class, CollectType(c) PROVE Unresolved(d) \in overloads'
    BY <1>2 DEF CollectType
<1>3. ASSUME NEW e \in DeclId, CollectMethod(e) PROVE Unresolved(d) \in overloads'
    BY <1>3 DEF CollectMethod
<1>4. CASE EndFile
    BY <1>4, <1>b, <1>c DEF EndFile
<1>5. CASE EndPass
    <2>1. /\ overloads' = overloads /\ rekeyed' = rekeyed /\ left = {}
          /\ file = NoFile /\ phase \in {"symbols", "methods", "types"}
          /\ phase' = PhaseAfter(phase)
        BY <1>5 DEF EndPass
    <2>2. phase = "methods" /\ errors = {}
        BY <2>1 DEF PhaseAfter, Following
    <2>3. pending = {}
        BY <2>1, <2>2 DEF IInv, LoopInv
    <2> QED BY <2>1, <2>2, <2>3, <1>b DEF IInv, CollectInv
<1>6. ASSUME NEW c \in Class, BeginType(c) PROVE Unresolved(d) \in overloads'
    BY <1>6, <1>c DEF BeginType
<1>7. ASSUME NEW e \in DeclId, ResolveMethodSignature(e)
      PROVE  Unresolved(d) \in overloads'
    <2> DEFINE found == At(type, prog.decl[e].name, UnresolvedKey(e))
               moved == {[o EXCEPT !.key = ResolvedKey(e)] : o \in found}
    <2>1. /\ phase = "types" /\ type # NoClass /\ e \in pending
          /\ rekeyed' = rekeyed \cup {e} /\ overloads' = Emplace(overloads \ found, moved)
        BY <1>7 DEF ResolveMethodSignature
    <2>2. e \in Decls /\ prog.decl[e].cls = type
        BY <2>1 DEF IInv, LoopInv, MethodsOf
    <2>3. e \notin rekeyed
        <3>1. type \in ClassesOf(file) /\ file \in File
            BY <2>1 DEF IInv, LoopInv
        <3>2. IsSource(e)
            BY <2>2, <3>1, ConstantsAssumption DEF IsSource, ClassesOf
        <3> QED BY <2>1, <3>2 DEF IInv, RekeyInv
    <2>4. Unresolved(e) \in overloads
        BY <2>1, <2>2, <2>3 DEF IInv, SignatureFound, Unresolved
    <2>5. found = {Unresolved(e)}
        BY <2>2, <2>4, EntryAlone DEF IInv
    <2>6. d # e /\ Unresolved(d) \in overloads
        BY <2>1, <1>c
    <2>7. Unresolved(d) \in overloads \ found
        BY <2>5, <2>6 DEF Unresolved, Entry
    <2> QED BY <2>1, <2>7, EmplaceKeeps
<1>8. CASE FinishType
    BY <1>8, <1>b, <1>c DEF FinishType
<1>9. CASE BeginBodies
    BY <1>9, <1>b, <1>c DEF BeginBodies
<1>10. ASSUME NEW e \in DeclId, ResolveMethodBody(e) PROVE Unresolved(d) \in overloads'
    BY <1>10, <1>c DEF ResolveMethodBody
<1>11. CASE BeginAliases
    BY <1>11, <1>b, <1>c DEF BeginAliases
<1>12. ASSUME NEW c \in Class, ResolveAliases(c) PROVE Unresolved(d) \in overloads'
    <2> DEFINE bereshit == At(c, Bereshit, <<StringArray>>)
               renamed == {o \in bereshit : /\ prog.decl[o.decl].public
                                            /\ prog.decl[o.decl].static}
               moved == {[o EXCEPT !.name = MainName] : o \in renamed}
    <2>1. /\ phase = "aliases" /\ c \in types /\ rekeyed' = rekeyed
          /\ overloads' = Emplace(overloads \ renamed, moved)
        BY <1>12 DEF ResolveAliases
    <2>2. c \in ClassesOf(file) /\ MethodsIn(file) \subseteq rekeyed
        BY <2>1 DEF IInv, LoopInv, RekeyInv
    <2>3. prog.decl[d].cls # c
        BY <1>b, <2>1, <2>2 DEF MethodsIn, ClassesOf
    <2>4. Unresolved(d) \in overloads \ renamed
        BY <1>c, <2>1, <2>3 DEF At, Unresolved, Entry, Slot
    <2> QED BY <2>1, <2>4, EmplaceKeeps
<1>13. CASE Done \/ UNCHANGED vars
    BY <1>13, <1>b, <1>c DEF Done, vars
<1> QED BY <1>b, <1>1, <1>2, <1>3, <1>4, <1>5, <1>6, <1>7, <1>8, <1>9, <1>10,
           <1>11, <1>12, <1>13 DEF Next

-----------------------------------------------------------------------------
(* The inductive invariant holds in every behaviour. *)
THEOREM Invariance == Spec => []IInv
<1>1. Init => IInv
    <2>1. ASSUME Init PROVE CollectInv /\ SignatureFound
        BY <2>1 DEF Init, CollectInv, SignatureFound
    <2> QED BY <2>1, LoopInit, RekeyInit, OneSymbolInit DEF IInv
<1>2. IInv /\ [Next]_vars => IInv'
    BY LoopStep, RekeyStep, CollectStep, OneSymbolStep, FoundStep DEF IInv
<1> QED BY <1>1, <1>2, PTL DEF Spec

(* In every program and order of files, the symbol of a method is where
   resolve_method_signature looks for it: the pointer is never null. *)
THEOREM SignaturesFound == Spec => []SignatureFound
<1>1. IInv => SignatureFound
    BY DEF IInv
<1> QED BY <1>1, Invariance, PTL

-----------------------------------------------------------------------------
(***************************************************************************)
(* A symbol that left the overloads tables was destroyed by a collision    *)
(* (LostOnlyByCollision).  The proof needs to know in which forms a symbol *)
(* can stand in a table, that the one under its unresolved descriptor was  *)
(* never re-keyed, and that the symbols renamed to main belong to files    *)
(* that are over: a method main that is re-keyed never meets one.          *)
(***************************************************************************)

Resolved(d) == Entry(d, prog.decl[d].name, ResolvedKey(d))
Renamed(d)  == Entry(d, MainName, ResolvedKey(d))

(* The forms in which the symbol of d stands in its table. *)
FormInv ==
    \A o \in overloads :
        /\ o.decl \in Decls
        /\ \/ o = Unresolved(o.decl) /\ o.decl \notin rekeyed
           \/ o = Resolved(o.decl)
           \/ o = Renamed(o.decl) /\ prog.decl[o.decl].name = Bereshit

(* Symbols are renamed when their file is at its aliases. *)
RenameInv ==
    \A o \in overloads : o.name # prog.decl[o.decl].name =>
        /\ phase \notin {"symbols", "methods"}
        /\ phase \in {"types", "bodies", "aliases"} => prog.file[o.cls] \in File \ left
        /\ phase \in {"types", "bodies"} => prog.file[o.cls] # file

(* Pass two goes over methods of the sources, and those of class files have
   been in the tables since they were loaded. *)
LoadedInv ==
    /\ phase = "methods" => \A d \in pending : IsSource(d)
    /\ phase \in {"symbols", "methods"} => \A d \in rekeyed : d \notin Lost

(* What a destroyed symbol may have collided with. *)
Explained(d) == \E e \in Decls \ {d} : Collides(d, e)

CInv == FormInv /\ RenameInv /\ LoadedInv /\ LostOnlyByCollision

-----------------------------------------------------------------------------
(* The program stays. *)
LEMMA ProgStays == [Next]_vars => prog' = prog
BY DEF Next, BeginFile, CollectType, CollectMethod, EndFile, EndPass, BeginType,
   ResolveMethodSignature, FinishType, BeginBodies, ResolveMethodBody,
   BeginAliases, ResolveAliases, Done, vars

(* Which actions touch the tables, and the passes. *)
LEMMA TablesStay ==
    ASSUME [Next]_vars,
           ~ \E d \in DeclId : CollectMethod(d),
           ~ \E d \in DeclId : ResolveMethodSignature(d),
           ~ \E c \in Class : ResolveAliases(c)
    PROVE  overloads' = overloads /\ rekeyed' = rekeyed
BY DEF Next, BeginFile, CollectType, EndFile, EndPass, BeginType,
   FinishType, BeginBodies, ResolveMethodBody, BeginAliases, Done, vars

(* What a definition about the program says does not change. *)
LEMMA FixedByProg ==
    ASSUME prog' = prog
    PROVE  /\ Decls' = Decls
           /\ \A d : /\ Unresolved(d)' = Unresolved(d) /\ Resolved(d)' = Resolved(d)
                     /\ Renamed(d)' = Renamed(d) /\ IsSource(d)' = IsSource(d)
                     /\ Explained(d)' = Explained(d)
BY DEF Decls, Unresolved, Resolved, Renamed, Entry, UnresolvedKey, ResolvedKey, Denoted,
       IsSource, Explained, Collides

(* The three ways in which a table changes. *)
LEMMA Collecting ==
    ASSUME IInv, NEW d \in DeclId, CollectMethod(d)
    PROVE  /\ d \in pending /\ phase = "methods" /\ phase' = phase /\ rekeyed' = rekeyed
           /\ overloads \subseteq overloads'
           /\ \A o \in overloads' : o \in overloads \/ o = Unresolved(d)
BY DEF CollectMethod, Emplace, Unresolved

(* The symbol found is that of the method and no other. *)
LEMMA Rekeying ==
    ASSUME IInv, NEW d \in DeclId, ResolveMethodSignature(d)
    PROVE  /\ d \in Decls /\ d \in pending /\ phase = "types" /\ phase' = "types"
           /\ type # NoClass /\ type \in ClassesOf(file) /\ prog.decl[d].cls = type
           /\ rekeyed' = rekeyed \cup {d} /\ d \notin rekeyed /\ Unresolved(d) \in overloads
           /\ overloads' = Emplace(overloads \ {Unresolved(d)}, {Resolved(d)})
<1> DEFINE found == At(type, prog.decl[d].name, UnresolvedKey(d))
           moved == {[o EXCEPT !.key = ResolvedKey(d)] : o \in found}
<1>1. /\ phase = "types" /\ type # NoClass /\ d \in pending
      /\ rekeyed' = rekeyed \cup {d} /\ overloads' = Emplace(overloads \ found, moved)
      /\ phase' = IF found = {} THEN "crashed" ELSE phase
    BY DEF ResolveMethodSignature
<1>2. d \in Decls /\ prog.decl[d].cls = type /\ type \in ClassesOf(file) /\ file \in File
    BY <1>1 DEF IInv, LoopInv, MethodsOf
<1>3. d \notin rekeyed
    BY <1>1, <1>2, ConstantsAssumption DEF IInv, RekeyInv, IsSource, ClassesOf
<1>4. found = {Unresolved(d)}
    BY <1>1, <1>2, <1>3, EntryAlone DEF IInv, SignatureFound, Unresolved
<1>5. [Unresolved(d) EXCEPT !.key = ResolvedKey(d)] = Resolved(d)
    BY DEF Unresolved, Resolved, Entry
<1> QED BY <1>1, <1>2, <1>3, <1>4, <1>5 DEF At

(* The Bereshit of a type is under its resolved descriptor when it moves. *)
LEMMA Renaming ==
    ASSUME IInv, FormInv, NEW c \in Class, ResolveAliases(c)
    PROVE  LET bereshit == At(c, Bereshit, <<StringArray>>)
               renamed == {o \in bereshit : /\ prog.decl[o.decl].public
                                            /\ prog.decl[o.decl].static}
           IN  /\ phase = "aliases" /\ phase' = "aliases" /\ c \in types /\ c \in ClassesOf(file)
               /\ rekeyed' = rekeyed /\ MethodsIn(file) \subseteq rekeyed
               /\ \A b \in bereshit : /\ b.decl \in MethodsOf(c) /\ b = Resolved(b.decl)
                                      /\ prog.decl[b.decl].name = Bereshit
               /\ overloads' = Emplace(overloads \ renamed, {Renamed(b.decl) : b \in renamed})
<1> DEFINE bereshit == At(c, Bereshit, <<StringArray>>)
           renamed == {o \in bereshit : /\ prog.decl[o.decl].public
                                        /\ prog.decl[o.decl].static}
<1>1. /\ rekeyed' = rekeyed /\ phase = "aliases" /\ phase' = "aliases" /\ c \in types
      /\ overloads' = Emplace(overloads \ renamed, {[o EXCEPT !.name = MainName] : o \in renamed})
    BY DEF ResolveAliases
<1>2. c \in ClassesOf(file) /\ MethodsIn(file) \subseteq rekeyed
    BY <1>1 DEF IInv, LoopInv, RekeyInv
<1>3. ASSUME NEW b \in bereshit
      PROVE  b.decl \in MethodsOf(c) /\ b = Resolved(b.decl) /\ prog.decl[b.decl].name = Bereshit
    <2>1. b \in overloads /\ b.cls = c /\ b.name = Bereshit
        BY DEF At, Slot
    <2>2. b.decl \in Decls /\ prog.decl[b.decl].cls = c /\ prog.decl[b.decl].name = Bereshit
        BY <2>1, ConstantsAssumption DEF FormInv, Unresolved, Resolved, Renamed, Entry
    <2>3. b.decl \in rekeyed
        BY <1>2, <2>2 DEF MethodsIn, ClassesOf
    <2> QED BY <2>1, <2>2, <2>3, ConstantsAssumption DEF FormInv, Renamed, Entry, MethodsOf
<1>4. ASSUME NEW b \in renamed PROVE [b EXCEPT !.name = MainName] = Renamed(b.decl)
    BY <1>3 DEF Resolved, Renamed, Entry
<1>5. {[o EXCEPT !.name = MainName] : o \in renamed} = {Renamed(b.decl) : b \in renamed}
    BY <1>4
<1> QED BY <1>1, <1>2, <1>3, <1>5

-----------------------------------------------------------------------------
(* The forms. *)
LEMMA FormInit == Init => FormInv
BY DEF Init, FormInv, Resolved, Entry, Decls

LEMMA FormStep == IInv /\ CInv /\ [Next]_vars => FormInv'
<1> SUFFICES ASSUME IInv, CInv, [Next]_vars PROVE FormInv'
    OBVIOUS
<1>a. prog' = prog /\ Decls' = Decls
    BY ProgStays, FixedByProg
<1>b. \A d : Unresolved(d)' = Unresolved(d) /\ Resolved(d)' = Resolved(d) /\ Renamed(d)' = Renamed(d)
    BY <1>a, FixedByProg
<1>c. \A d : Unresolved(d).decl = d /\ Resolved(d).decl = d /\ Renamed(d).decl = d
    BY DEF Unresolved, Resolved, Renamed, Entry
<1>1. ASSUME NEW d \in DeclId, CollectMethod(d) PROVE FormInv'
    <2>1. d \in Decls /\ d \notin rekeyed
        BY <1>1, Collecting DEF CInv, LoadedInv, IInv, LoopInv, RekeyInv
    <2> QED BY <1>1, <1>a, <1>b, <1>c, <2>1, Collecting DEF CInv, FormInv
<1>2. ASSUME NEW d \in DeclId, ResolveMethodSignature(d) PROVE FormInv'
    <2>1. /\ d \in Decls /\ rekeyed' = rekeyed \cup {d}
          /\ \A o \in overloads' : o \in overloads \ {Unresolved(d)} \/ o = Resolved(d)
        BY <1>2, Rekeying DEF Emplace
    <2> QED BY <1>a, <1>b, <1>c, <2>1 DEF CInv, FormInv
<1>3. ASSUME NEW c \in Class, ResolveAliases(c) PROVE FormInv'
    <2> DEFINE bereshit == At(c, Bereshit, <<StringArray>>)
    <2>1. /\ rekeyed' = rekeyed
          /\ \A o \in overloads' : o \in overloads \/ \E b \in bereshit : o = Renamed(b.decl)
        BY <1>3, Renaming DEF CInv, Emplace
    <2>2. \A b \in bereshit : b.decl \in Decls /\ prog.decl[b.decl].name = Bereshit
        BY <1>3, Renaming DEF CInv, MethodsOf
    <2> QED BY <1>a, <1>b, <1>c, <2>1, <2>2 DEF CInv, FormInv
<1>4. CASE overloads' = overloads /\ rekeyed' = rekeyed
    BY <1>a, <1>b, <1>4 DEF CInv, FormInv
<1> QED BY <1>1, <1>2, <1>3, <1>4, TablesStay

-----------------------------------------------------------------------------
(* Renamed symbols belong to files that are over, or to the one in turn. *)
LEMMA RenameInit == Init => RenameInv
BY DEF Init, RenameInv, Entry

LEMMA RenameStep == IInv /\ CInv /\ [Next]_vars => RenameInv'
<1> SUFFICES ASSUME IInv, CInv, [Next]_vars,
                    NEW o \in overloads', o.name # prog'.decl[o.decl].name
             PROVE  /\ phase' \notin {"symbols", "methods"}
                    /\ phase' \in {"types", "bodies", "aliases"} => prog'.file[o.cls] \in File \ left'
                    /\ phase' \in {"types", "bodies"} => prog'.file[o.cls] # file'
    BY DEF RenameInv
<1> DEFINE Safe == /\ phase' \notin {"symbols", "methods"}
                   /\ phase' \in {"types", "bodies", "aliases"} => prog.file[o.cls] \in File \ left'
                   /\ phase' \in {"types", "bodies"} => prog.file[o.cls] # file'
<1>a. prog' = prog
    BY ProgStays
<1>b. o \in overloads => /\ phase \notin {"symbols", "methods"}
                         /\ phase \in {"types", "bodies", "aliases"} => prog.file[o.cls] \in File \ left
                         /\ phase \in {"types", "bodies"} => prog.file[o.cls] # file
    BY <1>a DEF CInv, RenameInv
<1>1. ASSUME NEW d \in DeclId, CollectMethod(d) PROVE Safe
    BY <1>1, <1>a, <1>b, Collecting DEF Unresolved, Entry
<1>2. ASSUME NEW d \in DeclId, ResolveMethodSignature(d) PROVE Safe
    <2>1. o \in overloads
        BY <1>2, <1>a, Rekeying DEF Emplace, Resolved, Entry
    <2> QED BY <1>2, <1>b, <2>1, Rekeying DEF ResolveMethodSignature
<1>3. ASSUME NEW c \in Class, ResolveAliases(c) PROVE Safe
    <2>1. /\ phase = "aliases" /\ phase' = "aliases" /\ left' = left
          /\ c \in types
        BY <1>3 DEF ResolveAliases
    <2>2. prog.file[c] \in File \ left
        BY <2>1 DEF IInv, LoopInv, ClassesOf
    <2>3. o \in overloads \/ \E b \in At(c, Bereshit, <<StringArray>>) : o = Renamed(b.decl)
        BY <1>3, Renaming DEF CInv, Emplace
    <2>4. \A b \in At(c, Bereshit, <<StringArray>>) : Renamed(b.decl).cls = c
        BY <1>3, Renaming DEF CInv, MethodsOf, Renamed, Entry
    <2> QED BY <1>b, <2>1, <2>2, <2>3, <2>4
<1>4. ASSUME overloads' = overloads PROVE Safe
    <2>1. ASSUME NEW f \in File, BeginFile(f) PROVE Safe
        BY <1>b, <1>4, <2>1 DEF BeginFile
    <2>2. ASSUME NEW c \in Class, CollectType(c) PROVE Safe
        BY <1>b, <1>4, <2>2 DEF CollectType
    <2>3. CASE EndFile
        BY <1>b, <1>4, <2>3, ConstantsAssumption DEF EndFile
    <2>4. CASE EndPass
        BY <1>b, <1>4, <2>4 DEF EndPass, PhaseAfter, Following, Verdicts
    <2>5. ASSUME NEW c \in Class, BeginType(c) PROVE Safe
        BY <1>b, <1>4, <2>5 DEF BeginType
    <2>6. CASE FinishType
        BY <1>b, <1>4, <2>6 DEF FinishType
    <2>7. CASE BeginBodies
        BY <1>b, <1>4, <2>7 DEF BeginBodies
    <2>8. ASSUME NEW d \in DeclId, ResolveMethodBody(d) PROVE Safe
        BY <1>b, <1>4, <2>8 DEF ResolveMethodBody
    <2>9. CASE BeginAliases
        BY <1>b, <1>4, <2>9 DEF BeginAliases
    <2>10. CASE Done \/ UNCHANGED vars
        BY <1>b, <1>4, <2>10 DEF Done, vars
    <2> QED BY <2>1, <2>2, <2>3, <2>4, <2>5, <2>6, <2>7, <2>8, <2>9, <2>10, <1>1, <1>2, <1>3 DEF Next
<1>5. Safe
    BY <1>1, <1>2, <1>3, <1>4, TablesStay
<1> QED BY <1>5, <1>a

-----------------------------------------------------------------------------
(* What is loaded, and what pass two goes over. *)
LEMMA LoadedInit == Init => LoadedInv
<1> SUFFICES ASSUME Init, NEW d \in rekeyed PROVE d \notin Lost
    BY DEF Init, LoadedInv
<1>1. d \in {e \in Decls : ~IsSource(e)}
    BY DEF Init
<1>2. Resolved(d) \in overloads
    BY <1>1 DEF Init, Resolved
<1> QED BY <1>2 DEF Lost, Resolved, Entry

LEMMA LoadedStep == IInv /\ CInv /\ [Next]_vars => LoadedInv'
<1> SUFFICES ASSUME IInv, CInv, [Next]_vars PROVE LoadedInv'
    OBVIOUS
<1>a. prog' = prog /\ Decls' = Decls /\ \A d : IsSource(d)' = IsSource(d)
    BY ProgStays, FixedByProg
<1>1. phase' = "methods" => \A d \in pending' : IsSource(d)'
    <2>1. ASSUME NEW f \in File, BeginFile(f), phase' = "methods", NEW d \in pending'
          PROVE  IsSource(d)
        BY <2>1, ConstantsAssumption DEF BeginFile, MethodsIn, IsSource
    <2>2. ASSUME EndPass, phase' = "methods" PROVE pending' = {}
        BY <2>2 DEF EndPass, PhaseAfter, Following, IInv, LoopInv
    <2>3. ASSUME ~ \E f \in File : BeginFile(f), ~ EndPass, phase' = "methods"
          PROVE  phase = "methods" /\ pending' \subseteq pending
        BY <2>3 DEF Next, CollectType, CollectMethod, EndFile, BeginType,
           ResolveMethodSignature, FinishType, BeginBodies, ResolveMethodBody,
           BeginAliases, ResolveAliases, Done, vars
    <2> QED BY <1>a, <2>1, <2>2, <2>3 DEF CInv, LoadedInv
<1>2. ASSUME phase' \in {"symbols", "methods"}
      PROVE  phase \in {"symbols", "methods"} /\ rekeyed' = rekeyed /\ overloads \subseteq overloads'
    <2>1. phase \in {"symbols", "methods"}
        BY <1>2 DEF Next, BeginFile, CollectType, CollectMethod, EndFile, EndPass, PhaseAfter, Following,
           BeginType, ResolveMethodSignature, FinishType, BeginBodies, ResolveMethodBody,
           BeginAliases, ResolveAliases, Done, vars
    <2>2. CASE \E d \in DeclId : CollectMethod(d)
        BY <2>1, <2>2, Collecting
    <2>3. ~ \E d \in DeclId : ResolveMethodSignature(d)
        BY <2>1 DEF ResolveMethodSignature
    <2>4. ~ \E c \in Class : ResolveAliases(c)
        BY <2>1 DEF ResolveAliases
    <2> QED BY <2>1, <2>2, <2>3, <2>4, TablesStay
<1>3. phase' \in {"symbols", "methods"} => \A d \in rekeyed' : d \notin Lost'
    <2>1. ASSUME phase' \in {"symbols", "methods"}, NEW d \in rekeyed' PROVE d \notin Lost'
        <3>1. d \in rekeyed /\ d \notin Lost /\ overloads \subseteq overloads'
            BY <1>2, <2>1 DEF CInv, LoadedInv
        <3> QED BY <1>a, <3>1 DEF Lost
    <2> QED BY <2>1
<1> QED BY <1>1, <1>3 DEF LoadedInv

-----------------------------------------------------------------------------
(* What a step destroys, it destroys by a collision. *)
LEMMA RekeyedCollides ==
    ASSUME IInv, CInv, NEW d \in DeclId, ResolveMethodSignature(d),
           NEW e \in Lost', e \notin Lost, e \in Decls
    PROVE  Explained(e)
<1>1. /\ d \in Decls /\ d \in pending /\ phase = "types" /\ type \in ClassesOf(file)
      /\ prog.decl[d].cls = type
      /\ overloads' = Emplace(overloads \ {Unresolved(d)}, {Resolved(d)})
    BY Rekeying
<1>2. overloads \ {Unresolved(d)} \subseteq overloads'
    BY <1>1, EmplaceKeeps
<1>3. PICK gone \in overloads : gone.decl = e
    BY DEF Lost
<1>4. \A o \in overloads' : o.decl # e
    BY DEF Lost
<1>5. gone = Unresolved(d) /\ e = d
    BY <1>2, <1>3, <1>4 DEF Unresolved, Entry
<1>6. Resolved(d) \notin overloads'
    BY <1>4, <1>5 DEF Resolved, Entry
<1>7. PICK o \in overloads \ {Unresolved(d)} : Slot(o) = Slot(Resolved(d))
    BY <1>1, <1>6 DEF Emplace
<1>8. o \in overloads' /\ o.decl # d
    BY <1>2, <1>4, <1>5
<1>9. /\ o.cls = prog.decl[d].cls /\ o.name = prog.decl[d].name /\ o.key = ResolvedKey(d)
    BY <1>7 DEF Slot, Resolved, Entry
<1>10. o.name = prog.decl[o.decl].name
    BY <1>1, <1>7, <1>9 DEF CInv, RenameInv, ClassesOf
<1>11. o.decl \in Decls /\ o.cls = prog.decl[o.decl].cls
       /\ o.key \in {UnresolvedKey(o.decl), ResolvedKey(o.decl)}
    BY <1>7 DEF CInv, FormInv, Unresolved, Resolved, Renamed, Entry
<1> QED BY <1>5, <1>8, <1>9, <1>10, <1>11 DEF Explained, Collides

LEMMA RenamedCollides ==
    ASSUME IInv, CInv, NEW c \in Class, ResolveAliases(c),
           NEW d \in Lost', d \notin Lost, d \in Decls
    PROVE  Explained(d)
<1> DEFINE bereshit == At(c, Bereshit, <<StringArray>>)
           renamed == {o \in bereshit : /\ prog.decl[o.decl].public
                                        /\ prog.decl[o.decl].static}
           moved == {[o EXCEPT !.name = MainName] : o \in renamed}
<1>1. /\ phase = "aliases" /\ c \in types /\ overloads' = Emplace(overloads \ renamed, moved)
    BY DEF ResolveAliases
<1>2. overloads \ renamed \subseteq overloads'
    BY <1>1, EmplaceKeeps
<1>3. PICK gone \in overloads : gone.decl = d
    BY DEF Lost
<1>4. \A o \in overloads' : o.decl # d
    BY DEF Lost
<1>5. gone \in renamed
    BY <1>2, <1>3, <1>4
<1>6. gone.cls = c /\ gone.name = Bereshit /\ gone.key = <<StringArray>>
    BY <1>5 DEF At, Slot
<1>7. MethodsIn(file) \subseteq rekeyed /\ c \in ClassesOf(file)
    BY <1>1 DEF IInv, LoopInv, RekeyInv
<1>8. prog.decl[d].cls = c /\ prog.decl[d].name = Bereshit
    BY <1>3, <1>6, ConstantsAssumption DEF CInv, FormInv, Unresolved, Resolved, Renamed, Entry
<1>9. gone = Resolved(d) /\ ResolvedKey(d) = <<StringArray>>
    <2>1. d \in rekeyed
        BY <1>7, <1>8 DEF MethodsIn, ClassesOf
    <2>2. gone # Renamed(d)
        BY <1>6, ConstantsAssumption DEF Renamed, Entry
    <2>3. gone = Resolved(d)
        BY <1>3, <2>1, <2>2 DEF CInv, FormInv
    <2> QED BY <1>6, <2>3 DEF Resolved, Entry
<1>10. [gone EXCEPT !.name = MainName] = Renamed(d)
    BY <1>8, <1>9 DEF Resolved, Renamed, Entry
<1>11. Renamed(d) \in moved /\ Renamed(d) \notin overloads'
    BY <1>4, <1>5, <1>10 DEF Renamed, Entry
<1>12. PICK o \in overloads \ renamed : Slot(o) = Slot(Renamed(d))
    BY <1>1, <1>11 DEF Emplace
<1>13. o.decl # d /\ o.cls = c /\ o.name = MainName /\ o.key = <<StringArray>>
    BY <1>2, <1>4, <1>8, <1>9, <1>12 DEF Slot, Renamed, Entry
<1>14. o.decl \in Decls /\ prog.decl[o.decl].cls = c
    BY <1>12, <1>13 DEF CInv, FormInv, Unresolved, Resolved, Renamed, Entry
<1>15. o.decl \in rekeyed
    BY <1>7, <1>14 DEF MethodsIn, ClassesOf
<1>16. \/ o = Resolved(o.decl)
       \/ o = Renamed(o.decl) /\ prog.decl[o.decl].name = Bereshit
    BY <1>12, <1>15 DEF CInv, FormInv
<1>17. ResolvedKey(o.decl) = ResolvedKey(d) /\ prog.decl[o.decl].name \in {MainName, Bereshit}
    BY <1>9, <1>13, <1>16 DEF Resolved, Renamed, Entry
<1> QED BY <1>8, <1>13, <1>14, <1>17 DEF Explained, Collides

LEMMA LostStep == IInv /\ CInv /\ [Next]_vars => LostOnlyByCollision'
<1> SUFFICES ASSUME IInv, CInv, [Next]_vars,
                    phase' \in {"types", "bodies", "aliases", "accepted"},
                    NEW d \in Lost'
             PROVE  Explained(d)'
    BY DEF LostOnlyByCollision, Explained
<1>a. prog' = prog /\ Decls' = Decls /\ Explained(d)' = Explained(d) /\ Unresolved(d)' = Unresolved(d)
    BY ProgStays, FixedByProg
<1>b. d \in Decls
    BY <1>a DEF Lost
<1>1. CASE phase \in {"types", "bodies", "aliases", "accepted"} /\ d \in Lost
    BY <1>a, <1>1 DEF CInv, LostOnlyByCollision, Explained
<1>2. CASE phase \in {"types", "bodies", "aliases", "accepted"} /\ d \notin Lost
    <2>1. ~ \E e \in DeclId : CollectMethod(e)
        BY <1>2, Collecting
    <2>2. overloads' # overloads
        BY <1>a, <1>2 DEF Lost
    <2> QED BY <1>a, <1>b, <1>2, <2>1, <2>2, TablesStay, RekeyedCollides, RenamedCollides
<1>3. CASE phase \notin {"types", "bodies", "aliases", "accepted"}
    <2>1. EndPass
        BY <1>3 DEF Next, BeginFile, CollectType, CollectMethod, EndFile, BeginType,
           ResolveMethodSignature, FinishType, BeginBodies, ResolveMethodBody,
           BeginAliases, ResolveAliases, Done, vars
    <2>2. phase = "methods" /\ phase' = "types" /\ overloads' = overloads /\ rekeyed' = rekeyed
        BY <1>3, <2>1 DEF EndPass, PhaseAfter, Following
    <2>3. d \notin rekeyed
        BY <1>a, <2>2 DEF CInv, LoadedInv, Lost
    <2>4. Unresolved(d)' \in overloads'
        BY <1>a, <1>b, <2>2, <2>3, FoundStep DEF SignatureFound, Unresolved
    <2> QED BY <1>a, <2>4 DEF Lost, Unresolved, Entry
<1> QED BY <1>1, <1>2, <1>3

-----------------------------------------------------------------------------
(* The two invariants hold in every behaviour. *)
THEOREM CollisionInvariance == Spec => [](IInv /\ CInv)
<1>1. Init => CInv
    <2>1. Init => LostOnlyByCollision
        BY DEF Init, LostOnlyByCollision
    <2> QED BY <2>1, FormInit, RenameInit, LoadedInit DEF CInv
<1>2. IInv /\ CInv /\ [Next]_vars => CInv'
    BY FormStep, RenameStep, LoadedStep, LostStep DEF CInv
<1> QED BY <1>1, <1>2, Invariance, PTL DEF Spec

(* In every program and order of files, what is missing from the tables was
   destroyed by a collision, of the kinds listed. *)
THEOREM LostCollided == Spec => []LostOnlyByCollision
<1>1. CInv => LostOnlyByCollision
    BY DEF CInv
<1> QED BY <1>1, CollisionInvariance, PTL

-----------------------------------------------------------------------------
(***************************************************************************)
(* What the verdict of the analysis is worth, for every program and order  *)
(* of files.  Calls are bound to the nearest type (BoundToNearest), a      *)
(* Bereshit of an accepted program is main (BereshitIsMain), contracts of  *)
(* class files are kept (ExternalContractKept), and a type is blamed for a *)
(* method that it has only through the order of the files (BlameHasCause). *)
(*                                                                         *)
(* The last two compare the memoised abstract methods with tables whose    *)
(* keys change from file to file.  The proof says which files are over,    *)
(* which types are finished, that memoised types are closed under their    *)
(* super types, and that their memos hold every contract above them.       *)
(***************************************************************************)
(* Files are processed in the order of their positions. *)
OrderInv ==
    /\ position \in [File -> Int]
    /\ \A f, g \in File : position[f] = position[g] => f = g
    /\ \A f \in File \ left, g \in left : position[f] < position[g]
    /\ file # NoFile => \A g \in File \ (left \cup {file}) : position[g] < position[file]

(* The signatures of the files that are over are resolved. *)
DoneInv ==
    phase \in {"types", "bodies", "aliases"} =>
        \A d \in Decls : (IsSource(d) /\ FileOf(d) \notin left /\ FileOf(d) # file) => d \in rekeyed

(* The type c was collected and checked. *)
Finished(c) ==
    \/ phase = "accepted"
    \/ /\ phase \in {"types", "bodies", "aliases"}
       /\ prog.file[c] \notin left
       /\ (phase = "types" /\ prog.file[c] = file) => c \notin types /\ c # type

(* The type c was asked for its Bereshit. *)
Aliased(c) ==
    \/ phase = "accepted"
    \/ /\ phase \in {"types", "bodies", "aliases"}
       /\ prog.file[c] \notin left
       /\ prog.file[c] = file => phase = "aliases" /\ c \notin types

-----------------------------------------------------------------------------
(* The order of the files. *)
LEMMA OrderInit == Init => OrderInv
<1> SUFFICES ASSUME Init PROVE OrderInv
    OBVIOUS
<1>1. position \in [File -> 1..Cardinality(File)] /\ \A f, g \in File : position[f] = position[g] => f = g
    BY DEF Init
<1>2. Cardinality(File) \in Nat
    BY FiniteFiles, FS_CardinalityType
<1>3. left = File /\ file = NoFile
    BY DEF Init
<1> QED BY <1>1, <1>2, <1>3 DEF OrderInv

LEMMA OrderStep == LoopInv /\ OrderInv /\ [Next]_vars => OrderInv'
<1> SUFFICES ASSUME LoopInv, OrderInv, [Next]_vars PROVE OrderInv'
    OBVIOUS
<1>1. ASSUME NEW f \in File, BeginFile(f) PROVE OrderInv'
    <2>1. /\ position' = position /\ f \in left /\ left' = left \ {f} /\ file' = f
          /\ \A g \in left : position[f] <= position[g]
        BY <1>1 DEF BeginFile
    <2>2. \A g \in left \ {f} : position[f] < position[g]
        BY <2>1 DEF OrderInv, LoopInv
    <2> QED BY <2>1, <2>2 DEF OrderInv
<1>2. CASE EndFile
    BY <1>2 DEF EndFile, OrderInv
<1>3. CASE EndPass
    BY <1>3 DEF EndPass, OrderInv
<1>4. ASSUME ~ \E f \in File : BeginFile(f), ~ EndFile, ~ EndPass PROVE OrderInv'
    <2>1. position' = position /\ left' = left /\ file' = file
        BY <1>4 DEF Next, CollectType, CollectMethod, BeginType,
           ResolveMethodSignature, FinishType, BeginBodies, ResolveMethodBody,
           BeginAliases, ResolveAliases, Done, vars
    <2> QED BY <2>1 DEF OrderInv
<1> QED BY <1>1, <1>2, <1>3, <1>4

LEMMA DoneStep == LoopInv /\ RekeyInv /\ DoneInv /\ [Next]_vars => DoneInv'
<1> SUFFICES ASSUME LoopInv, RekeyInv, DoneInv, [Next]_vars, phase' \in {"types", "bodies", "aliases"},
                    NEW d \in Decls', IsSource(d)', FileOf(d)' \notin left', FileOf(d)' # file'
             PROVE  d \in rekeyed'
    BY DEF DoneInv
<1>1. prog' = prog
    BY ProgStays
<1>2. d \in Decls /\ IsSource(d) /\ FileOf(d) \notin left' /\ FileOf(d) # file' /\ FileOf(d) \in File
    BY <1>1, MethodHasType, ProgramsAssumption DEF Decls, IsSource, FileOf, LoopInv, Program
<1>3. (phase \in {"types", "bodies", "aliases"} /\ FileOf(d) \notin left /\ FileOf(d) # file)
          => d \in rekeyed
    BY <1>2 DEF DoneInv
<1>4. ASSUME NEW f \in File, BeginFile(f) PROVE d \in rekeyed'
    BY <1>2, <1>3, <1>4, ConstantsAssumption DEF BeginFile
<1>5. ASSUME NEW e \in DeclId, ResolveMethodSignature(e) PROVE d \in rekeyed'
    BY <1>2, <1>3, <1>5 DEF ResolveMethodSignature
<1>6. CASE EndFile
    <2>1. CASE FileOf(d) = file
        BY <1>2, <1>6, <2>1 DEF EndFile, RekeyInv, MethodsIn, FileOf
    <2>2. CASE FileOf(d) # file
        BY <1>2, <1>3, <1>6, <2>2 DEF EndFile
    <2> QED BY <2>1, <2>2
<1>7. CASE EndPass
    BY <1>2, <1>3, <1>7 DEF EndPass, PhaseAfter, Following, Verdicts
<1>8. ASSUME ~ \E f \in File : BeginFile(f), ~ \E e \in DeclId : ResolveMethodSignature(e),
             ~ EndFile, ~ EndPass
      PROVE  d \in rekeyed'
    <2>1. /\ left' = left /\ file' = file /\ rekeyed' = rekeyed
          /\ phase \in {"types", "bodies", "aliases"}
        BY <1>8 DEF Next, CollectType, CollectMethod, BeginType,
           FinishType, BeginBodies, ResolveMethodBody,
           BeginAliases, ResolveAliases, Done, vars
    <2> QED BY <1>2, <1>3, <2>1
<1> QED BY <1>4, <1>5, <1>6, <1>7, <1>8

-----------------------------------------------------------------------------
(* A type is finished by FinishType, and asked for its Bereshit once. *)
LEMMA FinishedStep ==
    ASSUME LoopInv, [Next]_vars, NEW c \in SourceClasses, Finished(c)'
    PROVE  Finished(c) \/ (FinishType /\ type = c /\ phase' = phase)
<1>a. prog' = prog
    BY ProgStays
<1>b. prog.file[c] \in File /\ c \in Class /\ c # NoClass
    BY ProgramsAssumption, ConstantsAssumption DEF LoopInv, Program, SourceClasses
<1> USE <1>a, <1>b, ConstantsAssumption DEF Finished, LoopInv
<1>1. ASSUME NEW f \in File, BeginFile(f) PROVE Finished(c)
    BY <1>1 DEF BeginFile, ClassesOf
<1>2. ASSUME NEW k \in Class, CollectType(k) PROVE Finished(c)
    BY <1>2 DEF CollectType
<1>3. ASSUME NEW d \in DeclId, CollectMethod(d) PROVE Finished(c)
    BY <1>3 DEF CollectMethod
<1>4. CASE EndFile
    BY <1>4 DEF EndFile
<1>5. CASE EndPass
    BY <1>5 DEF EndPass, PhaseAfter, Following, Verdicts
<1>6. ASSUME NEW k \in Class, BeginType(k) PROVE Finished(c)
    BY <1>6 DEF BeginType
<1>7. ASSUME NEW d \in DeclId, ResolveMethodSignature(d) PROVE Finished(c)
    BY <1>7 DEF ResolveMethodSignature
<1>8. CASE FinishType
    BY <1>8 DEF FinishType
<1>9. CASE BeginBodies
    BY <1>9 DEF BeginBodies
<1>10. ASSUME NEW d \in DeclId, ResolveMethodBody(d) PROVE Finished(c)
    BY <1>10 DEF ResolveMethodBody
<1>11. CASE BeginAliases
    BY <1>11 DEF BeginAliases
<1>12. ASSUME NEW k \in Class, ResolveAliases(k) PROVE Finished(c)
    BY <1>12 DEF ResolveAliases
<1>13. CASE Done \/ UNCHANGED vars
    BY <1>13 DEF Done, vars
<1> QED BY <1>1, <1>2, <1>3, <1>4, <1>5, <1>6, <1>7, <1>8, <1>9, <1>10, <1>11,
           <1>12, <1>13 DEF Next

LEMMA AliasedStep ==
    ASSUME LoopInv, [Next]_vars, NEW c \in SourceClasses
    PROVE  /\ Aliased(c)' => Aliased(c) \/ ResolveAliases(c)
           /\ (Aliased(c) /\ phase' \in {"types", "bodies", "aliases"}) => Aliased(c)'
<1>a. prog' = prog
    BY ProgStays
<1>b. prog.file[c] \in File /\ c \in Class /\ c # NoClass
    BY ProgramsAssumption, ConstantsAssumption DEF LoopInv, Program, SourceClasses
<1> DEFINE Goal == /\ Aliased(c)' => Aliased(c) \/ ResolveAliases(c)
                   /\ (Aliased(c) /\ phase' \in {"types", "bodies", "aliases"}) => Aliased(c)'
<1> USE <1>a, <1>b, ConstantsAssumption DEF Aliased, LoopInv
<1>1. ASSUME NEW f \in File, BeginFile(f) PROVE Goal
    BY <1>1 DEF BeginFile, ClassesOf
<1>2. ASSUME NEW k \in Class, CollectType(k) PROVE Goal
    BY <1>2 DEF CollectType
<1>3. ASSUME NEW d \in DeclId, CollectMethod(d) PROVE Goal
    BY <1>3 DEF CollectMethod
<1>4. CASE EndFile
    BY <1>4 DEF EndFile
<1>5. CASE EndPass
    BY <1>5 DEF EndPass, PhaseAfter, Following, Verdicts
<1>6. ASSUME NEW k \in Class, BeginType(k) PROVE Goal
    BY <1>6 DEF BeginType
<1>7. ASSUME NEW d \in DeclId, ResolveMethodSignature(d) PROVE Goal
    BY <1>7 DEF ResolveMethodSignature
<1>8. CASE FinishType
    BY <1>8 DEF FinishType
<1>9. CASE BeginBodies
    BY <1>9 DEF BeginBodies
<1>10. ASSUME NEW d \in DeclId, ResolveMethodBody(d) PROVE Goal
    BY <1>10 DEF ResolveMethodBody
<1>11. CASE BeginAliases
    BY <1>11 DEF BeginAliases, ClassesOf
<1>12. ASSUME NEW k \in Class, ResolveAliases(k) PROVE Goal
    BY <1>12 DEF ResolveAliases
<1>13. CASE Done \/ UNCHANGED vars
    BY <1>13 DEF Done, vars
<1> QED BY <1>1, <1>2, <1>3, <1>4, <1>5, <1>6, <1>7, <1>8, <1>9, <1>10, <1>11,
           <1>12, <1>13 DEF Next

-----------------------------------------------------------------------------
(* A method that is lost stays lost once the tables are filled. *)
LEMMA LostStays ==
    ASSUME IInv, CInv, [Next]_vars, phase \notin {"symbols", "methods"}
    PROVE  Lost \subseteq Lost'
<1>a. prog' = prog /\ Decls' = Decls
    BY ProgStays, FixedByProg
<1> SUFFICES ASSUME NEW o \in overloads' PROVE \E b \in overloads : b.decl = o.decl
    BY <1>a DEF Lost
<1>1. ASSUME NEW d \in DeclId, CollectMethod(d) PROVE FALSE
    BY <1>1 DEF CollectMethod
<1>2. ASSUME NEW d \in DeclId, ResolveMethodSignature(d)
      PROVE  \E b \in overloads : b.decl = o.decl
    <2>1. Unresolved(d) \in overloads /\ (o \in overloads \/ o = Resolved(d))
        BY <1>2, Rekeying DEF Emplace
    <2> QED BY <2>1 DEF Unresolved, Resolved, Entry
<1>3. ASSUME NEW c \in Class, ResolveAliases(c) PROVE \E b \in overloads : b.decl = o.decl
    <2>1. o \in overloads \/ \E b \in At(c, Bereshit, <<StringArray>>) : o = Renamed(b.decl)
        BY <1>3, Renaming DEF CInv, Emplace
    <2> QED BY <2>1 DEF At, Renamed, Entry
<1> QED BY <1>1, <1>2, <1>3, TablesStay

(* A call is bound when the tables are filled, to an overload of the nearest
   type that has any of that name. *)
NearestInv ==
    /\ phase \in {"symbols", "methods"} => bound = {}
    /\ BoundToNearest

Nearest(k, d) ==
    /\ Len(prog.decl[d].params) = Len(k.args)
    /\ \/ prog.decl[d].name = k.name
       \/ prog.decl[d].name = Bereshit /\ k.name = MainName
    /\ \E n \in DOMAIN Walk(k.on) :
        /\ Walk(k.on)[n] = prog.decl[d].cls
        /\ k.name # Bereshit =>
               \A m \in 0..(n - 1) : \A e \in Decls \ Lost :
                   ~ (prog.decl[e].cls = Walk(k.on)[m] /\ prog.decl[e].name = k.name)

LEMMA CandidateIsNearest ==
    ASSUME IInv, CInv, NEW k, NEW d \in Candidates(k)
    PROVE  Nearest(k, d)
<1> DEFINE walk == Walk(k.on)
           Has(n) == walk[n] # NoClass /\ Bucket(walk[n], k.name) # {}
<1>1. /\ \E c \in Container(k) : \E o \in Bucket(c, k.name) : o.decl = d
      /\ Len(prog.decl[d].params) = Len(k.args)
    BY DEF Candidates
<1>2. PICK n \in DOMAIN walk : /\ Has(n) /\ \A m \in 0..(n - 1) : ~Has(m)
                              /\ \E o \in Bucket(walk[n], k.name) : o.decl = d
    BY <1>1 DEF Container
<1>3. PICK o \in overloads : o.decl = d /\ o.cls = walk[n] /\ o.name = k.name
    BY <1>2 DEF Bucket
<1>4. /\ prog.decl[d].cls = walk[n]
      /\ \/ prog.decl[d].name = k.name
         \/ prog.decl[d].name = Bereshit /\ k.name = MainName
    BY <1>3 DEF CInv, FormInv, Unresolved, Resolved, Renamed, Entry
<1>5. ASSUME k.name # Bereshit, NEW m \in 0..(n - 1), NEW e \in Decls \ Lost,
             prog.decl[e].cls = walk[m], prog.decl[e].name = k.name
      PROVE  FALSE
    <2>1. PICK b \in overloads : b.decl = e
        BY DEF Lost
    <2>2. b.cls = walk[m] /\ b.name = k.name
        BY <1>5, <2>1 DEF CInv, FormInv, Unresolved, Resolved, Renamed, Entry
    <2>3. walk[m] # NoClass
        BY <1>5, MethodHasType, ConstantsAssumption DEF IInv, LoopInv
    <2> QED BY <1>2, <2>2, <2>3 DEF Bucket
<1> QED BY <1>1, <1>4, <1>5 DEF Nearest

LEMMA NearestStep == IInv /\ CInv /\ NearestInv /\ [Next]_vars => NearestInv'
<1> SUFFICES ASSUME IInv, CInv, NearestInv, [Next]_vars PROVE NearestInv'
    OBVIOUS
<1>a. prog' = prog /\ Decls' = Decls
    BY ProgStays, FixedByProg
<1>1. phase' \in {"symbols", "methods"} => bound' = {}
    <2>1. phase' \in {"symbols", "methods"} => phase \in {"symbols", "methods"} /\ bound' = bound
        BY DEF Next, BeginFile, CollectType, CollectMethod, EndFile, EndPass, PhaseAfter, Following,
           BeginType, ResolveMethodSignature, FinishType, BeginBodies, ResolveMethodBody,
           BeginAliases, ResolveAliases, Done, vars
    <2> QED BY <2>1 DEF NearestInv
<1>2. ASSUME NEW b \in bound PROVE Nearest(b[1], b[2])'
    <2>1. Nearest(b[1], b[2])
        BY <1>2 DEF NearestInv, BoundToNearest, Nearest
    <2>2. Lost \subseteq Lost'
        BY LostStays DEF NearestInv
    <2>3. Walk(b[1].on)' = Walk(b[1].on)
        BY <1>a DEF Walk
    <2> QED BY <1>a, <2>1, <2>2, <2>3 DEF Nearest
<1>3. ASSUME NEW d \in DeclId, ResolveMethodBody(d), NEW b \in bound', b \notin bound
      PROVE  Nearest(b[1], b[2])'
    <2>1. PICK pick \in [{k \in CallsFrom(d) : Candidates(k) # {}} -> DeclId] :
                /\ \A k \in DOMAIN pick : pick[k] \in Candidates(k)
                /\ bound' = bound \cup {<<k, pick[k]>> : k \in DOMAIN pick}
        BY <1>3 DEF ResolveMethodBody
    <2>4. PICK k \in DOMAIN pick : b = <<k, pick[k]>>
        BY <1>3, <2>1
    <2>2. Nearest(b[1], b[2])
        BY <2>1, <2>4, CandidateIsNearest
    <2>3. Lost' = Lost /\ Walk(b[1].on)' = Walk(b[1].on)
        BY <1>3, <1>a DEF ResolveMethodBody, Lost, Walk
    <2> QED BY <1>a, <2>2, <2>3 DEF Nearest
<1>4. (~ \E d \in DeclId : ResolveMethodBody(d)) => bound' = bound
    BY DEF Next, BeginFile, CollectType, CollectMethod, EndFile, EndPass, BeginType,
       ResolveMethodSignature, FinishType, BeginBodies, BeginAliases, ResolveAliases, Done, vars
<1>5. \A b \in bound' : Nearest(b[1], b[2])'
    BY <1>2, <1>3, <1>4
<1> QED BY <1>1, <1>5 DEF NearestInv, BoundToNearest, Nearest

-----------------------------------------------------------------------------
(* The Bereshits that can become main, and the types for which nothing is in
   their way. *)
Own(c) ==
    {d \in MethodsOf(c) : prog.decl[d].name = Bereshit /\ ResolvedKey(d) = <<StringArray>>}
Proper(c) ==
    /\ \E d \in Own(c) : Own(c) = {d} /\ prog.decl[d].public /\ prog.decl[d].static
    /\ \A d \in MethodsOf(c) \ Own(c) :
           prog.decl[d].name = Bereshit => UnresolvedKey(d) # <<StringArray>>

(* Until its type is asked for it, the Bereshit stays; then there is a main. *)
MainInv ==
    \A c \in SourceClasses : Proper(c) =>
        /\ (phase \in {"types", "bodies", "aliases"} /\ ~Aliased(c))
               => \A b \in Own(c) : b \in rekeyed => Resolved(b) \in overloads
        /\ Aliased(c) => c \in mains /\ At(c, MainName, <<StringArray>>) # {}

(* Re-keying moves the Bereshit into a free slot, and leaves it there. *)
LEMMA BereshitRekeyed ==
    ASSUME IInv, CInv, MainInv, NEW d \in DeclId, ResolveMethodSignature(d),
           NEW c \in SourceClasses, Proper(c), ~Aliased(c),
           NEW b \in Own(c), b \in rekeyed'
    PROVE  Resolved(b) \in overloads'
<1>1. /\ d \in Decls /\ prog.decl[d].cls = type /\ phase = "types" /\ type \in ClassesOf(file)
      /\ rekeyed' = rekeyed \cup {d} /\ d \notin rekeyed
      /\ overloads' = Emplace(overloads \ {Unresolved(d)}, {Resolved(d)})
    BY Rekeying
<1>2. CASE b # d
    <2>1. Resolved(b) \in overloads \ {Unresolved(d)}
        BY <1>1, <1>2 DEF MainInv, Resolved, Unresolved, Entry
    <2> QED BY <1>1, <2>1, EmplaceKeeps
<1>3. CASE b = d
    <2>1. SUFFICES ASSUME NEW o \in overloads \ {Unresolved(d)}, Slot(o) = Slot(Resolved(d))
                   PROVE  o = Resolved(d)
        BY <1>1, <1>3 DEF Emplace
    <2>2. /\ o.cls = type /\ o.name = Bereshit /\ o.key = <<StringArray>>
          /\ prog.decl[d].name = Bereshit
        BY <1>1, <1>3, <2>1 DEF Slot, Resolved, Entry, Own
    <2>3. prog.decl[o.decl].name = Bereshit
        BY <2>2, <1>1, ConstantsAssumption DEF CInv, FormInv, Unresolved, Resolved, Renamed, Entry
    <2>4. o.decl \in MethodsOf(c) /\ o.key \in {UnresolvedKey(o.decl), ResolvedKey(o.decl)}
        BY <1>1, <1>3, <2>2 DEF CInv, FormInv, Unresolved, Resolved, Renamed, Entry, Own, MethodsOf
    <2>5. o.decl = d
        BY <1>3, <2>2, <2>3, <2>4 DEF Proper, Own
    <2> QED BY <2>1, <2>2, <2>5, ConstantsAssumption DEF CInv, FormInv, Renamed, Entry
<1> QED BY <1>2, <1>3

(* A type is asked for its Bereshit, and from then on holds a main. *)
LEMMA BereshitRenamed ==
    ASSUME IInv, CInv, MainInv, NEW c \in SourceClasses, Proper(c), ResolveAliases(c)
    PROVE  c \in mains' /\ At(c, MainName, <<StringArray>>)' # {}
<1> DEFINE bereshit == At(c, Bereshit, <<StringArray>>)
           renamed == {o \in bereshit : /\ prog.decl[o.decl].public
                                        /\ prog.decl[o.decl].static}
<1>1. c \in Class
    BY DEF SourceClasses
<1>2. /\ phase = "aliases" /\ c \in types /\ c \in ClassesOf(file)
      /\ MethodsIn(file) \subseteq rekeyed
      /\ overloads' = Emplace(overloads \ renamed, {Renamed(o.decl) : o \in renamed})
    BY <1>1, Renaming DEF CInv
<1>3. PICK b \in Own(c) : Own(c) = {b} /\ prog.decl[b].public /\ prog.decl[b].static
    BY DEF Proper
<1>4. b \in rekeyed
    BY <1>2, <1>3 DEF Own, MethodsOf, MethodsIn, ClassesOf
<1>5. ~Aliased(c)
    BY <1>2 DEF Aliased, ClassesOf
<1>6. Resolved(b) \in renamed /\ Resolved(b).decl = b
    BY <1>2, <1>3, <1>4, <1>5 DEF MainInv, At, Slot, Resolved, Entry, Own, MethodsOf
<1>7. Slot(Renamed(b)) = <<c, MainName, <<StringArray>>>>
    BY <1>3 DEF Renamed, Entry, Own, MethodsOf, Slot
<1>8. Renamed(b) \in {Renamed(o.decl) : o \in renamed}
    BY <1>6
<1>9. \E o \in overloads' : Slot(o) = Slot(Renamed(b))
    <2>1. CASE \A o \in overloads \ renamed : Slot(o) # Slot(Renamed(b))
        BY <1>2, <1>8, <2>1 DEF Emplace
    <2>2. CASE ~ \A o \in overloads \ renamed : Slot(o) # Slot(Renamed(b))
        BY <1>2, <2>2, EmplaceKeeps
    <2> QED BY <2>1, <2>2
<1>10. mains' = mains \cup {c}
    BY <1>6 DEF ResolveAliases
<1> QED BY <1>7, <1>9, <1>10 DEF At, Slot

LEMMA MainStep == IInv /\ CInv /\ MainInv /\ [Next]_vars => MainInv'
<1> SUFFICES ASSUME IInv, CInv, MainInv, [Next]_vars, NEW c \in SourceClasses', Proper(c)'
             PROVE  /\ (phase' \in {"types", "bodies", "aliases"} /\ ~Aliased(c)')
                           => \A b \in Own(c)' : b \in rekeyed' => Resolved(b)' \in overloads'
                    /\ Aliased(c)' => c \in mains' /\ At(c, MainName, <<StringArray>>)' # {}
    BY DEF MainInv
<1>a. prog' = prog /\ Decls' = Decls /\ (\A b : Resolved(b)' = Resolved(b)) /\ LoopInv
    BY ProgStays, FixedByProg DEF IInv
<1>b. c \in SourceClasses /\ Own(c)' = Own(c) /\ Proper(c)
    <2>1. /\ MethodsOf(c)' = MethodsOf(c) /\ SourceClasses' = SourceClasses
          /\ \A d : UnresolvedKey(d)' = UnresolvedKey(d) /\ ResolvedKey(d)' = ResolvedKey(d)
        BY <1>a DEF SourceClasses, MethodsOf, ResolvedKey, UnresolvedKey, Denoted
    <2>2. Own(c)' = Own(c)
        BY <1>a, <2>1 DEF Own
    <2> QED BY <1>a, <2>1, <2>2 DEF Proper
<1>c. c \in Class /\ prog.file[c] \in File /\ \A b \in Own(c) : b \in Decls /\ prog.decl[b].cls = c
    BY <1>a, <1>b, ProgramsAssumption DEF SourceClasses, Own, MethodsOf, LoopInv, Program
<1>1. ASSUME phase' \in {"types", "bodies", "aliases"}, ~Aliased(c)', NEW b \in Own(c), b \in rekeyed'
      PROVE  Resolved(b) \in overloads'
    <2>1. ~Aliased(c)
        BY <1>a, <1>b, <1>1, AliasedStep
    <2>2. ASSUME NEW d \in DeclId, ResolveMethodSignature(d) PROVE Resolved(b) \in overloads'
        BY <1>b, <1>1, <2>1, <2>2, BereshitRekeyed
    <2>3. CASE phase \notin {"types", "bodies", "aliases"}
        <3>1. EndPass
            BY <1>1, <2>3 DEF Next, BeginFile, CollectType, CollectMethod, EndFile, BeginType,
               ResolveMethodSignature, FinishType, BeginBodies, ResolveMethodBody,
               BeginAliases, ResolveAliases, Done, vars
        <3>2. phase \in {"symbols", "methods"} /\ rekeyed' = rekeyed
            BY <2>3, <3>1 DEF EndPass
        <3> QED BY <1>1, <1>b, <1>c, <3>2, ConstantsAssumption DEF IInv, RekeyInv, IsSource
    <2>4. ASSUME NEW k \in Class, ResolveAliases(k) PROVE Resolved(b) \in overloads'
        <3>1. k \in types /\ phase = "aliases" /\ rekeyed' = rekeyed /\ types' = types \ {k}
              /\ file' = file /\ left' = left /\ phase' = phase /\ k \in ClassesOf(file)
            BY <2>4 DEF ResolveAliases, IInv, LoopInv
        <3>2. k # c
            BY <1>a, <1>1, <3>1 DEF Aliased, ClassesOf, LoopInv
        <3>3. Resolved(b) \in overloads \ At(k, Bereshit, <<StringArray>>)
            BY <1>b, <1>c, <1>1, <2>1, <3>1, <3>2 DEF MainInv, At, Slot, Resolved, Entry
        <3> QED BY <2>4, <3>3, EmplaceKeeps DEF ResolveAliases
    <2>5. ASSUME NEW d \in DeclId, CollectMethod(d), phase \in {"types", "bodies", "aliases"} PROVE FALSE
        BY <2>5 DEF CollectMethod
    <2> QED BY <1>b, <1>1, <2>1, <2>2, <2>3, <2>4, <2>5, TablesStay DEF MainInv
<1>2. ASSUME Aliased(c)' PROVE c \in mains' /\ At(c, MainName, <<StringArray>>)' # {}
    <2>1. CASE ResolveAliases(c)
        BY <1>b, <2>1, BereshitRenamed
    <2>2. CASE Aliased(c)
        <3>1. c \in mains /\ At(c, MainName, <<StringArray>>) # {}
            BY <1>b, <2>2 DEF MainInv
        <3>2. mains \subseteq mains'
            BY DEF Next, BeginFile, CollectType, CollectMethod, EndFile, EndPass, BeginType,
               ResolveMethodSignature, FinishType, BeginBodies, ResolveMethodBody, BeginAliases,
               ResolveAliases, Done, vars
        <3>3. PICK o \in overloads : Slot(o) = <<c, MainName, <<StringArray>>>>
            BY <3>1 DEF At
        <3>4. ASSUME NEW d \in DeclId, ResolveMethodSignature(d) PROVE o \in overloads'
            <4>1. /\ phase = "types" /\ prog.decl[d].cls \in ClassesOf(file)
                  /\ overloads' = Emplace(overloads \ {Unresolved(d)}, {Resolved(d)})
                BY <3>4, Rekeying
            <4>2. o # Unresolved(d)
                BY <2>2, <3>3, <4>1 DEF Aliased, ClassesOf, Slot, Unresolved, Entry
            <4> QED BY <4>1, <4>2, EmplaceKeeps
        <3>5. ASSUME NEW k \in Class, ResolveAliases(k) PROVE o \in overloads'
            <4>1. o \notin At(k, Bereshit, <<StringArray>>)
                BY <3>3, ConstantsAssumption DEF At, Slot
            <4> QED BY <3>5, <4>1, EmplaceKeeps DEF ResolveAliases
        <3>6. ASSUME NEW d \in DeclId, CollectMethod(d) PROVE o \in overloads'
            BY <3>6, Collecting
        <3>7. o \in overloads'
            BY <3>4, <3>5, <3>6, TablesStay
        <3> QED BY <3>1, <3>2, <3>3, <3>7 DEF At, Slot
    <2> QED BY <1>a, <1>b, <1>2, <2>1, <2>2, AliasedStep
<1> QED BY <1>a, <1>b, <1>1, <1>2


-----------------------------------------------------------------------------
(* Hierarchies: what holds of c and of the parents of all it holds of, holds
   of everything above c. *)
LEMMA AncestorsClosed ==
    ASSUME prog \in Programs, NEW c \in Class
    PROVE  /\ Parents[c] \subseteq Ancestors(c) /\ Ancestors(c) \subseteq Class
           /\ \A a \in Ancestors(c) : Parents[a] \subseteq Ancestors(c)
           /\ \A T \in SUBSET Class :
                 (Parents[c] \subseteq T /\ \A t \in T : Parents[t] \subseteq T) => Ancestors(c) \subseteq T
<1>1. \A a \in Class : Parents[a] \subseteq Class
    BY ProgramsAssumption DEF Parents, Program
<1> QED BY <1>1 DEF Ancestors

(* Everything above c is one of its parents or above one of them. *)
LEMMA AncestorsVia ==
    ASSUME prog \in Programs, NEW c \in Class
    PROVE  \A a \in Ancestors(c) : \E p \in Parents[c] : p \in Class /\ a \in Ancestors(p) \cup {p}
<1> DEFINE T == {a \in Class : \E p \in Parents[c] : p \in Class /\ a \in Ancestors(p) \cup {p}}
<1>1. Parents[c] \subseteq T
    BY AncestorsClosed DEF Ancestors
<1>2. \A t \in T : Parents[t] \subseteq T
    BY AncestorsClosed
<1>3. Ancestors(c) \subseteq T
    BY <1>1, <1>2, AncestorsClosed
<1> QED BY <1>3

(* The recursion visits what is not memoised and stops at what is: together
   they are all that is above c, and c. *)
LEMMA VisitedClosed ==
    ASSUME prog \in Programs, NEW c \in Class
    PROVE  /\ Visited(c) \subseteq Class \ collected
           /\ c \notin collected => c \in Visited(c)
           /\ \A v \in Visited(c) : Parents[v] \subseteq Visited(c) \cup collected
<1>1. ASSUME NEW v \in Visited(c), NEW p \in Parents[v], p \notin collected PROVE p \in Visited(c)
    <2>1. v \in Ancestors(c) \cup {c} /\ v \notin collected
        BY DEF Visited
    <2>2. p \in Ancestors(c) /\ p \in Class
        BY <2>1, AncestorsClosed
    <2>3. ASSUME NEW T \in SUBSET Class, c \in T, \A t \in T \ collected : Parents[t] \subseteq T
          PROVE  p \in T
        BY <2>1, <2>3 DEF Visited
    <2> QED BY <1>1, <2>2, <2>3 DEF Visited
<1>2. Visited(c) \subseteq Class \ collected
    BY AncestorsClosed DEF Visited
<1> QED BY <1>1, <1>2 DEF Visited

LEMMA AboveIsVisitedOrMemoised ==
    ASSUME prog \in Programs, NEW c \in Class, c \notin collected
    PROVE  \A a \in Ancestors(c) \cup {c} :
              \/ a \in Visited(c)
              \/ \E p \in collected \cap UNION {Parents[v] : v \in Visited(c)} :
                    p \in Class /\ a \in Ancestors(p) \cup {p}
<1> DEFINE Edge == collected \cap UNION {Parents[v] : v \in Visited(c)}
           T == {a \in Class : a \in Visited(c) \/ \E p \in Edge : p \in Class /\ a \in Ancestors(p) \cup {p}}
<1>1. c \in T /\ c \in Visited(c)
    BY VisitedClosed
<1>2. ASSUME NEW v \in Visited(c), NEW p \in Parents[v] PROVE p \in T
    <2>1. v \in Class /\ p \in Class
        BY VisitedClosed, AncestorsClosed
    <2>2. CASE p \in collected
        BY <2>1, <2>2
    <2>3. CASE p \notin collected
        BY <2>1, <2>3, VisitedClosed
    <2> QED BY <2>2, <2>3
<1>3. \A t \in T : Parents[t] \subseteq T
    <2>1. ASSUME NEW p \in Edge, p \in Class, NEW t \in Ancestors(p) \cup {p}
          PROVE  Parents[t] \subseteq T
        BY <2>1, AncestorsClosed
    <2> QED BY <1>2, <2>1
<1>4. Ancestors(c) \subseteq T
    BY <1>1, <1>2, <1>3, AncestorsClosed
<1> QED BY <1>1, <1>4


-----------------------------------------------------------------------------
(* The memoised abstract methods: a memoised type holds every contract of a
   class file above it, its super types are memoised too, and no memo was
   taken after a method was renamed. *)
Memo(d) == [name |-> prog.decl[d].name, key |-> ResolvedKey(d), decl |-> d]
Contract(d) == d \in Decls /\ prog.decl[d].abstract /\ ~IsSource(d)

MemoInv ==
    /\ \A d \in Decls : ~IsSource(d) => Resolved(d) \in overloads
    /\ collected \subseteq Class
    /\ \A c \in collected : Parents[c] \subseteq collected
    /\ \A c \in collected : \A d \in Decls :
           (Contract(d) /\ prog.decl[d].cls \in Ancestors(c) \cup {c}) => Memo(d) \in abstracts[c]
    /\ \A c \in Class : \A m \in abstracts[c] : m.name = prog.decl[m.decl].name
    /\ \A c \in SourceClasses : Finished(c) => c \in collected

LEMMA MemoInit == Init => MemoInv
<1> SUFFICES ASSUME Init PROVE MemoInv
    OBVIOUS
<1>1. /\ collected = {} /\ \A c \in Class : abstracts[c] = {}
      /\ phase = "symbols"
    BY DEF Init
<1>2. ASSUME NEW d \in Decls, ~IsSource(d) PROVE Resolved(d) \in overloads
    BY <1>2 DEF Init, Resolved
<1> QED BY <1>1, <1>2 DEF MemoInv, Finished

(* What the recursion gathers for a type. *)
LEMMA GathersContracts ==
    ASSUME LoopInv, MemoInv, NEW c \in Class, c \notin collected,
           NEW d \in Decls, Contract(d), prog.decl[d].cls \in Ancestors(c) \cup {c}
    PROVE  Memo(d) \in AbstractsOf(c)
<1> DEFINE a == prog.decl[d].cls
<1>1. CASE a \in Visited(c)
    <2>1. Resolved(d) \in overloads
        BY DEF MemoInv, Contract
    <2>2. /\ Resolved(d).cls = a /\ Resolved(d).decl = d
          /\ Memo(d) = [name |-> Resolved(d).name, key |-> Resolved(d).key, decl |-> Resolved(d).decl]
        BY DEF Memo, Resolved, Entry
    <2>3. Memo(d) \in OwnAbstracts(a)
        BY <2>1, <2>2 DEF OwnAbstracts, Contract
    <2> QED BY <1>1, <2>3 DEF AbstractsOf
<1>2. ASSUME NEW p \in collected \cap UNION {Parents[v] : v \in Visited(c)},
             p \in Class, a \in Ancestors(p) \cup {p}
      PROVE  Memo(d) \in AbstractsOf(c)
    <2>1. Memo(d) \in abstracts[p]
        BY <1>2 DEF MemoInv
    <2> QED BY <1>2, <2>1 DEF AbstractsOf
<1> QED BY <1>1, <1>2, AboveIsVisitedOrMemoised DEF LoopInv

LEMMA GathersNames ==
    ASSUME IInv, CInv, MemoInv, phase = "types", NEW c \in Class, NEW m \in AbstractsOf(c)
    PROVE  m.name = prog.decl[m.decl].name
<1>1. CASE \E p \in Class : m \in abstracts[p]
    BY <1>1 DEF MemoInv
<1>2. ASSUME NEW v \in Visited(c), m \in OwnAbstracts(v) PROVE m.name = prog.decl[m.decl].name
    <2>1. PICK o \in overloads : o.cls = v /\ m.name = o.name /\ m.decl = o.decl
        BY <1>2 DEF OwnAbstracts
    <2>2. v \in Class /\ v \notin collected
        BY VisitedClosed DEF IInv, LoopInv
    <2>3. ~ (prog.file[v] \in File \ left /\ prog.file[v] # file)
        BY <2>2, ConstantsAssumption DEF MemoInv, SourceClasses, Finished
    <2>4. o.name = prog.decl[o.decl].name
        BY <2>1, <2>3 DEF CInv, RenameInv
    <2> QED BY <2>1, <2>4
<1>3. \/ \E v \in Visited(c) : m \in OwnAbstracts(v)
      \/ \E p \in collected \cup {c} : m \in abstracts[p]
    <2>1. CASE c \in collected
        BY <2>1 DEF AbstractsOf
    <2>2. CASE c \notin collected
        BY <2>2 DEF AbstractsOf
    <2> QED BY <2>1, <2>2
<1> QED BY <1>1, <1>2, <1>3 DEF MemoInv

(* The memos that FinishType leaves. *)
Memos == [c \in Class |-> IF c \in Visited(type) THEN AbstractsOf(c) ELSE abstracts[c]]

LEMMA MemosHold ==
    ASSUME IInv, CInv, MemoInv, phase = "types", type # NoClass
    PROVE  /\ type \in Class /\ type \in collected \cup Visited(type)
           /\ Visited(type) \subseteq Class \ collected
           /\ \A c \in collected \cup Visited(type) : Parents[c] \subseteq collected \cup Visited(type)
           /\ \A c \in collected \cup Visited(type) : \A d \in Decls :
                 (Contract(d) /\ prog.decl[d].cls \in Ancestors(c) \cup {c}) => Memo(d) \in Memos[c]
           /\ \A c \in Class : \A m \in Memos[c] : m.name = prog.decl[m.decl].name
<1>1. type \in Class /\ prog \in Programs /\ collected \subseteq Class /\ LoopInv
    BY DEF IInv, LoopInv, ClassesOf, MemoInv
<1>2. /\ Visited(type) \subseteq Class \ collected /\ type \in collected \cup Visited(type)
      /\ \A v \in Visited(type) : Parents[v] \subseteq Visited(type) \cup collected
    BY <1>1, VisitedClosed
<1>3. ASSUME NEW c \in collected \cup Visited(type), NEW d \in Decls,
             Contract(d), prog.decl[d].cls \in Ancestors(c) \cup {c}
      PROVE  Memo(d) \in Memos[c]
    <2>1. CASE c \in Visited(type)
        BY <1>1, <1>2, <1>3, <2>1, GathersContracts DEF Memos
    <2>2. CASE c \notin Visited(type)
        BY <1>1, <1>3, <2>2 DEF Memos, MemoInv
    <2> QED BY <2>1, <2>2
<1>4. ASSUME NEW c \in Class, NEW m \in Memos[c] PROVE m.name = prog.decl[m.decl].name
    BY <1>4, GathersNames DEF Memos, MemoInv
<1>5. \A c \in collected \cup Visited(type) : Parents[c] \subseteq collected \cup Visited(type)
    BY <1>2 DEF MemoInv
<1> QED BY <1>1, <1>2, <1>3, <1>4, <1>5

LEMMA ExternalsStay ==
    ASSUME IInv, CInv, [Next]_vars, NEW d \in Decls, ~IsSource(d), Resolved(d) \in overloads
    PROVE  Resolved(d) \in overloads'
<1>1. ASSUME NEW e \in DeclId, CollectMethod(e) PROVE Resolved(d) \in overloads'
    BY <1>1, Collecting
<1>2. ASSUME NEW e \in DeclId, ResolveMethodSignature(e) PROVE Resolved(d) \in overloads'
    <2>1. e # d
        BY <1>2, Rekeying DEF IInv, RekeyInv
    <2>2. Resolved(d) # Unresolved(e)
        BY <2>1 DEF Resolved, Unresolved, Entry
    <2>3. overloads' = Emplace(overloads \ {Unresolved(e)}, {Resolved(e)})
        BY <1>2, Rekeying
    <2>4. Resolved(d) \in overloads \ {Unresolved(e)}
        BY <2>2
    <2> QED BY <2>3, <2>4, EmplaceKeeps
<1>3. ASSUME NEW c \in Class, ResolveAliases(c) PROVE Resolved(d) \in overloads'
    <2>1. c \in types /\ phase = "aliases"
        BY <1>3 DEF ResolveAliases
    <2>2. prog.file[c] = file /\ file \in File
        BY <2>1 DEF IInv, LoopInv, ClassesOf
    <2>3. Resolved(d) \notin At(c, Bereshit, <<StringArray>>)
        BY <2>2, ConstantsAssumption DEF At, Slot, Resolved, Entry, IsSource
    <2> QED BY <1>3, <2>3, EmplaceKeeps DEF ResolveAliases
<1> QED BY <1>1, <1>2, <1>3, TablesStay


(* The hierarchies are those of the program. *)
LEMMA HierarchiesStay ==
    ASSUME prog' = prog
    PROVE  /\ Parents' = Parents /\ SourceClasses' = SourceClasses
           /\ \A c : /\ Ancestors(c)' = Ancestors(c) /\ SuperChain(c)' = SuperChain(c)
                     /\ ExternalContract(c)' = ExternalContract(c)
           /\ \A d : Contract(d)' = Contract(d) /\ Memo(d)' = Memo(d)
           /\ \A c, n, k : Declares(c, n, k)' = Declares(c, n, k)
<1>1. Parents' = Parents
    BY DEF Parents
<1>2. \A c : Ancestors(c)' = Ancestors(c)
    BY <1>1 DEF Ancestors
<1>3. \A c : SuperChain(c)' = SuperChain(c)
    BY DEF SuperChain, Walk
<1>4. \A d : ResolvedKey(d)' = ResolvedKey(d) /\ IsSource(d)' = IsSource(d)
    BY DEF ResolvedKey, Denoted, IsSource
<1>5. Decls' = Decls
    BY DEF Decls
<1>6. \A c, n, k : Declares(c, n, k)' = Declares(c, n, k)
    BY <1>3, <1>4, <1>5 DEF Declares
<1>7. \A c : ExternalContract(c)' = ExternalContract(c)
    BY <1>2, <1>4, <1>5 DEF ExternalContract
<1>8. \A d : Contract(d)' = Contract(d) /\ Memo(d)' = Memo(d)
    BY <1>4, <1>5 DEF Contract, Memo
<1> QED BY <1>1, <1>2, <1>3, <1>6, <1>7, <1>8 DEF SourceClasses

LEMMA MemoStep == IInv /\ CInv /\ MemoInv /\ [Next]_vars => MemoInv'
<1> SUFFICES ASSUME IInv, CInv, MemoInv, [Next]_vars PROVE MemoInv'
    OBVIOUS
<1>a. prog' = prog /\ LoopInv
    BY ProgStays DEF IInv
<1>b. /\ Decls' = Decls /\ Parents' = Parents /\ SourceClasses' = SourceClasses
      /\ \A c : Ancestors(c)' = Ancestors(c)
      /\ \A d : /\ Contract(d)' = Contract(d) /\ Memo(d)' = Memo(d)
                /\ IsSource(d)' = IsSource(d) /\ Resolved(d)' = Resolved(d)
    BY <1>a, HierarchiesStay, FixedByProg
<1>1. \A d \in Decls : ~IsSource(d) => Resolved(d) \in overloads'
    BY ExternalsStay DEF MemoInv
<1>2. CASE ~FinishType \/ phase' = "crashed"
    <2>1. abstracts' = abstracts /\ collected' = collected
        BY <1>2 DEF Next, BeginFile, CollectType, CollectMethod, EndFile, EndPass, BeginType,
           ResolveMethodSignature, FinishType, BeginBodies, ResolveMethodBody, BeginAliases,
           ResolveAliases, Done, vars
    <2>2. \A c \in SourceClasses : Finished(c)' => Finished(c)
        BY <1>2, <1>a, FinishedStep DEF FinishType
    <2> QED BY <1>a, <1>b, <1>1, <2>1, <2>2 DEF MemoInv
<1>3. CASE FinishType /\ phase' # "crashed"
    <2>1. /\ phase = "types" /\ type # NoClass /\ abstracts' = Memos
          /\ collected' = collected \cup Visited(type)
        BY <1>3 DEF FinishType, Memos
    <2>2. \A c \in SourceClasses : Finished(c)' => c \in collected'
        BY <1>a, <2>1, MemosHold, FinishedStep DEF MemoInv
    <2> QED BY <1>a, <1>b, <1>1, <2>1, <2>2, MemosHold DEF MemoInv
<1> QED BY <1>2, <1>3

-----------------------------------------------------------------------------
(* The contracts of a type are kept, or an impostor stands in. *)
Kept(c) ==
    \A d \in ExternalContract(c) :
        \/ Declares(c, prog.decl[d].name, ResolvedKey(d)) # {}
        \/ Impostors(c, d) # {}

KeptInv ==
    /\ phase = "accepted" => errors = {}
    /\ errors = {} => \A c \in SourceClasses : Finished(c) => Kept(c)

(* What is found under the name and descriptor of a contract. *)
LEMMA FoundIsImplementation ==
    ASSUME IInv, CInv, OrderInv, DoneInv, phase = "types", type # NoClass, pending = {},
           NEW d \in Decls, ImplementedInHierarchy(type, Memo(d))
    PROVE  \/ Declares(type, prog.decl[d].name, ResolvedKey(d)) # {}
           \/ Impostors(type, d) # {}
<1>1. PICK h \in SuperChain(type) : At(h, prog.decl[d].name, ResolvedKey(d)) # {}
    BY DEF ImplementedInHierarchy, Memo
<1>2. PICK o \in overloads : o.cls = h /\ o.name = prog.decl[d].name /\ o.key = ResolvedKey(d)
    BY <1>1 DEF At, Slot
<1> DEFINE e == o.decl
<1>3. e \in Decls /\ prog.decl[e].cls = h
    BY <1>2 DEF CInv, FormInv, Unresolved, Resolved, Renamed, Entry
<1>4. type \in ClassesOf(file) \ types /\ file \in File /\ prog.file[type] = file
    BY DEF IInv, LoopInv, ClassesOf
<1>5. CASE o = Resolved(e)
    BY <1>1, <1>2, <1>3, <1>5 DEF Declares, Resolved, Entry
<1>6. CASE o = Unresolved(e) /\ e \notin rekeyed
    <2>1. prog.decl[e].name = prog.decl[d].name /\ UnresolvedKey(e) = ResolvedKey(d)
        BY <1>2, <1>6 DEF Unresolved, Entry
    <2>2. IsSource(e) /\ FileOf(e) \in left \cup {file}
        BY <1>3, <1>6 DEF IInv, RekeyInv, DoneInv
    <2>3. h # type
        BY <1>3, <1>4, <1>6, ConstantsAssumption DEF IInv, LoopInv, RekeyInv, MethodsIn
    <2>4. position[prog.file[h]] >= position[prog.file[type]]
        BY <1>3, <1>4, <2>2 DEF OrderInv, FileOf, IInv, LoopInv
    <2>5. e \in Impostors(type, d)
        BY <1>1, <1>3, <2>1, <2>2, <2>3, <2>4 DEF Impostors
    <2> QED BY <2>5
<1>7. CASE o = Renamed(e) /\ prog.decl[e].name = Bereshit /\ o.name # prog.decl[e].name
    <2>1. prog.decl[d].name = MainName /\ ResolvedKey(e) = ResolvedKey(d)
        BY <1>2, <1>7 DEF Renamed, Entry
    <2>2. prog.file[h] \in File \ left /\ prog.file[h] # file
        BY <1>2, <1>7 DEF CInv, RenameInv
    <2>3. position[prog.file[h]] < position[prog.file[type]] /\ IsSource(e)
        BY <1>3, <1>4, <2>2, ConstantsAssumption DEF OrderInv, IsSource
    <2>4. e \in Impostors(type, d)
        BY <1>1, <1>3, <1>7, <2>1, <2>3 DEF Impostors
    <2> QED BY <2>4
<1> QED BY <1>5, <1>6, <1>7, ConstantsAssumption DEF CInv, FormInv, Renamed, Entry

(* A type for which FinishType reports nothing keeps its contracts. *)
LEMMA CheckedIsKept ==
    ASSUME IInv, CInv, OrderInv, DoneInv, MemoInv, FinishType, phase' = phase, errors' = {}
    PROVE  Kept(type)
<1>1. /\ phase = "types" /\ type # NoClass /\ pending = {}
      /\ \A m \in UNION {Memos[p] : p \in Parents[type]} : ImplementedInHierarchy(type, m)
    BY DEF FinishType, Memos
<1>2. type \in Class /\ prog \in Programs
    BY <1>1, MemosHold DEF IInv, LoopInv
<1> SUFFICES ASSUME NEW d \in ExternalContract(type)
             PROVE  \/ Declares(type, prog.decl[d].name, ResolvedKey(d)) # {}
                    \/ Impostors(type, d) # {}
    BY DEF Kept
<1>3. Contract(d) /\ d \in Decls /\ prog.decl[d].cls \in Ancestors(type)
    BY DEF ExternalContract, Contract
<1>4. PICK p \in Parents[type] : p \in Class /\ prog.decl[d].cls \in Ancestors(p) \cup {p}
    BY <1>2, <1>3, AncestorsVia
<1>5. Memo(d) \in Memos[p]
    BY <1>1, <1>3, <1>4, MemosHold
<1> QED BY <1>1, <1>3, <1>5, FoundIsImplementation

LEMMA ErrorsStay == [Next]_vars => errors \subseteq errors' /\ position' = position
BY DEF Next, BeginFile, CollectType, CollectMethod, EndFile, EndPass, BeginType,
   ResolveMethodSignature, FinishType, BeginBodies, ResolveMethodBody, BeginAliases,
   ResolveAliases, Done, vars

LEMMA KeptStep == IInv /\ CInv /\ OrderInv /\ DoneInv /\ MemoInv /\ KeptInv /\ [Next]_vars => KeptInv'
<1>a. KeptInv /\ [Next]_vars => (phase' = "accepted" => errors' = {})
    BY DEF KeptInv, Next, BeginFile, CollectType, CollectMethod, EndFile, EndPass, PhaseAfter, Following,
       BeginType, ResolveMethodSignature, FinishType, BeginBodies, ResolveMethodBody, BeginAliases,
       ResolveAliases, Done, vars
<1> SUFFICES ASSUME IInv, CInv, OrderInv, DoneInv, MemoInv, KeptInv, [Next]_vars, errors' = {},
                    NEW c \in SourceClasses', Finished(c)'
             PROVE  Kept(c)'
    BY <1>a DEF KeptInv
<1>1. prog' = prog /\ position' = position /\ errors = {}
    BY ProgStays, ErrorsStay
<1>2. /\ SourceClasses' = SourceClasses /\ ExternalContract(c)' = ExternalContract(c)
      /\ SuperChain(c)' = SuperChain(c) /\ Decls' = Decls
      /\ \A n, k : Declares(c, n, k)' = Declares(c, n, k)
      /\ \A d : ResolvedKey(d)' = ResolvedKey(d) /\ UnresolvedKey(d)' = UnresolvedKey(d) /\ IsSource(d)' = IsSource(d)
    BY <1>1, HierarchiesStay, FixedByProg DEF ResolvedKey, UnresolvedKey, Denoted
<1>3. \A d : Impostors(c, d)' = Impostors(c, d)
    BY <1>1, <1>2 DEF Impostors
<1>4. Kept(c)
    <2>1. CASE Finished(c)
        BY <1>1, <1>2, <2>1 DEF KeptInv
    <2>2. CASE FinishType /\ type = c /\ phase' = phase
        BY <2>2, CheckedIsKept
    <2> QED BY <1>2, <2>1, <2>2, FinishedStep DEF IInv
<1> QED BY <1>1, <1>2, <1>3, <1>4 DEF Kept

-----------------------------------------------------------------------------
(* An abstract method is memoised under its resolved descriptor, or as it is
   spelled, when a type below it was checked in a file that was begun no later
   than its own. *)
Early(a) ==
    /\ IsSource(a)
    /\ \E x \in SourceClasses :
           /\ prog.decl[a].cls \in Ancestors(x) /\ prog.decl[a].cls # x
           /\ prog.file[x] \in File \ left
           /\ position[prog.file[x]] <= position[FileOf(a)]

MemoKey(m) ==
    \/ m.key = ResolvedKey(m.decl)
    \/ m.key = UnresolvedKey(m.decl) /\ Early(m.decl)

EarlyInv ==
    /\ phase \in {"symbols", "methods"} => collected = {}
    /\ \A c \in collected : \A m \in abstracts[c] : MemoKey(m)

(* What is gathered while a type is checked. *)
LEMMA GathersKeys ==
    ASSUME IInv, CInv, OrderInv, DoneInv, MemoInv, EarlyInv,
           phase = "types", type # NoClass, pending = {},
           NEW c \in Visited(type), NEW m \in AbstractsOf(c)
    PROVE  MemoKey(m)
<1>1. /\ type \in ClassesOf(file) \ types /\ file \in File /\ prog.file[type] = file
      /\ type \in Class /\ prog \in Programs /\ file \notin left
    BY DEF IInv, LoopInv, ClassesOf
<1>2. /\ c \in Class \ collected /\ Visited(type) \subseteq Class
      /\ c \in Ancestors(type) \cup {type}
    BY <1>1, VisitedClosed DEF Visited
<1>3. m.name = prog.decl[m.decl].name
    BY <1>2, GathersNames
<1>4. \/ \E v \in Visited(c) : m \in OwnAbstracts(v)
      \/ \E p \in collected : m \in abstracts[p]
    BY <1>2 DEF AbstractsOf
<1>5. ASSUME NEW v \in Visited(c), m \in OwnAbstracts(v)
      PROVE  MemoKey(m)
    <2>1. PICK o \in overloads : o.cls = v /\ m.name = o.name /\ m.decl = o.decl /\ m.key = o.key
        BY <1>5 DEF OwnAbstracts
    <2> DEFINE a == m.decl
    <2>2. a \in Decls /\ prog.decl[a].cls = v
        BY <2>1 DEF CInv, FormInv, Unresolved, Resolved, Renamed, Entry
    <2>3. v \in Ancestors(type) \cup {type}
        <3>1. v \in Ancestors(c) \cup {c}
            BY DEF Visited
        <3>2. Parents[c] \subseteq Ancestors(type)
              /\ \A t \in Ancestors(type) : Parents[t] \subseteq Ancestors(type)
            BY <1>1, <1>2, AncestorsClosed
        <3>3. Ancestors(type) \subseteq Class
            BY <1>1, AncestorsClosed
        <3>4. Ancestors(c) \subseteq Ancestors(type)
            BY <1>1, <1>2, <3>2, <3>3, AncestorsClosed
        <3> QED BY <1>2, <3>1, <3>4
    <2>4. CASE o = Resolved(a) \/ (o = Renamed(a) /\ prog.decl[a].name = Bereshit)
        BY <2>1, <2>4 DEF Resolved, Renamed, Entry, MemoKey
    <2>5. CASE o = Unresolved(a) /\ a \notin rekeyed
        <3>1. m.key = UnresolvedKey(a)
            BY <2>1, <2>5 DEF Unresolved, Entry
        <3>2. IsSource(a) /\ FileOf(a) \in left \cup {file}
            BY <2>2, <2>5 DEF IInv, RekeyInv, DoneInv
        <3>3. v # type
            BY <1>1, <2>2, <2>5, ConstantsAssumption DEF IInv, LoopInv, RekeyInv, MethodsIn
        <3>4. position[file] <= position[FileOf(a)]
            BY <1>1, <3>2 DEF OrderInv, IInv, LoopInv
        <3>5. type \in SourceClasses /\ prog.file[type] \in File \ left
            BY <1>1, ConstantsAssumption DEF SourceClasses
        <3>6. Early(a)
            BY <1>1, <2>2, <2>3, <3>2, <3>3, <3>4, <3>5 DEF Early
        <3> QED BY <3>1, <3>6 DEF MemoKey
    <2> QED BY <2>1, <2>4, <2>5 DEF CInv, FormInv
<1> QED BY <1>4, <1>5 DEF EarlyInv

(* What was memoised early stays so: the files that are begun only grow in
   number, once anything is memoised. *)
LEMMA EarlyStays ==
    ASSUME IInv, EarlyInv, [Next]_vars, collected # {}, NEW m, MemoKey(m)
    PROVE  MemoKey(m)'
<1>1. prog' = prog /\ position' = position
    BY ProgStays, ErrorsStay
<1>2. File \ left \subseteq File \ left'
    BY DEF EarlyInv, Next, BeginFile, CollectType, CollectMethod, EndFile, EndPass, PhaseAfter,
       Following, Verdicts, BeginType, ResolveMethodSignature, FinishType, BeginBodies,
       ResolveMethodBody, BeginAliases, ResolveAliases, Done, vars
<1>3. SourceClasses' = SourceClasses /\ \A c : Ancestors(c)' = Ancestors(c)
    BY <1>1, HierarchiesStay
<1>4. \A d : /\ ResolvedKey(d)' = ResolvedKey(d) /\ UnresolvedKey(d)' = UnresolvedKey(d)
             /\ IsSource(d)' = IsSource(d) /\ FileOf(d)' = FileOf(d)
    BY <1>1 DEF ResolvedKey, UnresolvedKey, Denoted, IsSource, FileOf
<1>5. ASSUME NEW a, Early(a) PROVE Early(a)'
    BY <1>1, <1>2, <1>3, <1>4, <1>5 DEF Early
<1> QED BY <1>4, <1>5 DEF MemoKey

LEMMA EarlyStep ==
    IInv /\ CInv /\ OrderInv /\ DoneInv /\ MemoInv /\ EarlyInv /\ [Next]_vars => EarlyInv'
<1> SUFFICES ASSUME IInv, CInv, OrderInv, DoneInv, MemoInv, EarlyInv, [Next]_vars
             PROVE  EarlyInv'
    OBVIOUS
<1>1. CASE ~FinishType \/ phase' = "crashed"
    <2>1. abstracts' = abstracts /\ collected' = collected
        BY <1>1 DEF Next, BeginFile, CollectType, CollectMethod, EndFile, EndPass, BeginType,
           ResolveMethodSignature, FinishType, BeginBodies, ResolveMethodBody, BeginAliases,
           ResolveAliases, Done, vars
    <2>2. phase' \in {"symbols", "methods"} => phase \in {"symbols", "methods"}
        BY DEF Next, BeginFile, CollectType, CollectMethod, EndFile, EndPass, PhaseAfter, Following,
           BeginType, ResolveMethodSignature, FinishType, BeginBodies, ResolveMethodBody,
           BeginAliases, ResolveAliases, Done, vars
    <2>3. ASSUME NEW c \in collected, NEW m \in abstracts[c] PROVE MemoKey(m)'
        BY <2>3, EarlyStays DEF EarlyInv
    <2> QED BY <2>1, <2>2, <2>3 DEF EarlyInv
<1>2. CASE FinishType /\ phase' # "crashed"
    <2>1. /\ phase = "types" /\ phase' = phase /\ type # NoClass /\ pending = {}
          /\ abstracts' = Memos /\ collected' = collected \cup Visited(type)
          /\ left' = left /\ prog' = prog /\ position' = position
        BY <1>2 DEF FinishType, Memos
    <2>2. /\ collected \cup Visited(type) \subseteq Class
          /\ \A c \in collected \cup Visited(type) : \A m \in Memos[c] : MemoKey(m)
        <3>1. collected \cup Visited(type) \subseteq Class
            BY <2>1, MemosHold DEF MemoInv
        <3>2. ASSUME NEW c \in Visited(type), NEW m \in Memos[c] PROVE MemoKey(m)
            BY <2>1, <3>1, <3>2, GathersKeys DEF Memos
        <3>3. ASSUME NEW c \in collected, c \notin Visited(type), NEW m \in Memos[c]
              PROVE  MemoKey(m)
            BY <3>1, <3>3 DEF Memos, EarlyInv
        <3> QED BY <3>1, <3>2, <3>3
    <2>3. \A m : MemoKey(m)' <=> MemoKey(m)
        <3>1. SourceClasses' = SourceClasses /\ \A c : Ancestors(c)' = Ancestors(c)
            BY <2>1, HierarchiesStay
        <3>2. \A d : /\ ResolvedKey(d)' = ResolvedKey(d) /\ UnresolvedKey(d)' = UnresolvedKey(d)
                     /\ IsSource(d)' = IsSource(d) /\ FileOf(d)' = FileOf(d)
            BY <2>1 DEF ResolvedKey, UnresolvedKey, Denoted, IsSource, FileOf
        <3>3. \A a : Early(a)' <=> Early(a)
            BY <2>1, <3>1, <3>2 DEF Early
        <3> QED BY <3>2, <3>3 DEF MemoKey
    <2> QED BY <2>1, <2>2, <2>3 DEF EarlyInv
<1> QED BY <1>1, <1>2

-----------------------------------------------------------------------------
(* What is reported as unimplemented is not found: it is not there, or one
   of the two effects of the order hides it. *)
BlameStep ==
    \A e \in errors' \ errors :
        e.kind = "Unimplemented" =>
            \/ e.key = UnresolvedKey(e.decl) /\ MemoisedEarly(e.cls, e.decl)
            \/ /\ e.key = ResolvedKey(e.decl)
               /\ \A i \in Declares(e.cls, prog.decl[e.decl].name, e.key) : Hidden(e.cls, i)

(* A method above the type being checked that is not found is hidden. *)
LEMMA NotFoundIsHidden ==
    ASSUME IInv, CInv, OrderInv, DoneInv, phase = "types", type # NoClass, pending = {},
           NEW i \in Decls, At(prog.decl[i].cls, prog.decl[i].name, ResolvedKey(i)) = {}
    PROVE  Hidden(type, i)
<1>1. /\ type \in ClassesOf(file) \ types /\ file \in File /\ prog.file[type] = file
      /\ prog \in Programs /\ left \subseteq File /\ file \notin left
    BY DEF IInv, LoopInv, ClassesOf
<1>2. CASE i \in Lost
    BY <1>2 DEF CInv, LostOnlyByCollision, Hidden
<1>3. CASE i \notin Lost
    <2>1. PICK o \in overloads : o.decl = i
        BY <1>3 DEF Lost
    <2>2. o # Resolved(i)
        BY <2>1 DEF At, Slot, Resolved, Entry
    <2>3. CASE o = Unresolved(i) /\ i \notin rekeyed
        <3>1. UnresolvedKey(i) # ResolvedKey(i)
            BY <2>2, <2>3 DEF Unresolved, Resolved
        <3>2. IsSource(i) /\ FileOf(i) \in left \cup {file}
            BY <2>3 DEF IInv, RekeyInv, DoneInv
        <3>3. prog.decl[i].cls # type
            BY <1>1, <2>3, ConstantsAssumption DEF IInv, LoopInv, RekeyInv, MethodsIn
        <3>4. position[FileOf(i)] >= position[prog.file[type]]
            BY <1>1, <3>2 DEF OrderInv
        <3> QED BY <3>1, <3>2, <3>3, <3>4 DEF Hidden, FileOf
    <2>4. CASE o = Renamed(i) /\ prog.decl[i].name = Bereshit
        <3>1. o.name # prog.decl[o.decl].name /\ o.cls = prog.decl[i].cls
            BY <2>1, <2>4, ConstantsAssumption DEF Renamed, Entry
        <3>2. FileOf(i) \in File \ left /\ FileOf(i) # file
            BY <3>1 DEF CInv, RenameInv, FileOf
        <3>3. position[FileOf(i)] < position[prog.file[type]] /\ IsSource(i)
            BY <1>1, <3>2, ConstantsAssumption DEF OrderInv, IsSource, FileOf
        <3> QED BY <2>4, <3>3 DEF Hidden, FileOf
    <2> QED BY <2>1, <2>2, <2>3, <2>4 DEF CInv, FormInv
<1> QED BY <1>2, <1>3

LEMMA ReportHasCause ==
    IInv /\ CInv /\ OrderInv /\ DoneInv /\ MemoInv /\ EarlyInv /\ [Next]_vars => BlameStep
<1> SUFFICES ASSUME IInv, CInv, OrderInv, DoneInv, MemoInv, EarlyInv, [Next]_vars,
                    NEW e \in errors' \ errors, e.kind = "Unimplemented"
             PROVE  \/ e.key = UnresolvedKey(e.decl) /\ MemoisedEarly(e.cls, e.decl)
                    \/ /\ e.key = ResolvedKey(e.decl)
                       /\ \A i \in Declares(e.cls, prog.decl[e.decl].name, e.key) :
                              Hidden(e.cls, i)
    BY DEF BlameStep
<1>1. FinishType
    <2>1. ASSUME NEW c \in Class, CollectType(c) PROVE FALSE
        BY <2>1 DEF CollectType, Error
    <2>2. ASSUME NEW d \in DeclId, CollectMethod(d) PROVE FALSE
        BY <2>2 DEF CollectMethod, Error
    <2>3. ASSUME NEW d \in DeclId, ResolveMethodBody(d) PROVE FALSE
        <3>1. \E k : e = CallError(k)
            BY <2>3 DEF ResolveMethodBody
        <3> QED BY <3>1 DEF CallError, Error
    <2>4. ASSUME ~ \E c \in Class : CollectType(c), ~ \E d \in DeclId : CollectMethod(d),
                 ~ \E d \in DeclId : ResolveMethodBody(d), ~ FinishType
          PROVE  errors' = errors
        BY <2>4 DEF Next, BeginFile, EndFile, EndPass, BeginType,
           ResolveMethodSignature, BeginBodies, BeginAliases, ResolveAliases, Done, vars
    <2> QED BY <2>1, <2>2, <2>3, <2>4
<1>2. PICK p \in Parents[type] : \E n \in Memos[p] :
         ~ImplementedInHierarchy(type, n) /\ e = Error("Unimplemented", type, n.decl, n.key)
    BY <1>1 DEF FinishType, Memos
<1>m. PICK m \in Memos[p] :
         ~ImplementedInHierarchy(type, m) /\ e = Error("Unimplemented", type, m.decl, m.key)
    BY <1>2
<1>3. phase = "types" /\ type # NoClass /\ pending = {} /\ prog \in Programs
    BY <1>1 DEF FinishType, IInv, LoopInv
<1>4. /\ type \in Class /\ p \in Class /\ p \in collected \cup Visited(type)
      /\ m.name = prog.decl[m.decl].name
    <2>1. type \in Class /\ Parents[type] \subseteq Class
        BY <1>3, MemosHold, AncestorsClosed
    <2> QED BY <1>2, <1>m, <1>3, <2>1, MemosHold
<1>5. MemoKey(m)
    <2>1. CASE p \in Visited(type)
        BY <1>m, <1>3, <1>4, <2>1, GathersKeys DEF Memos
    <2>2. CASE p \notin Visited(type)
        BY <1>m, <1>4, <2>2 DEF Memos, EarlyInv
    <2> QED BY <2>1, <2>2
<1>6. e.cls = type /\ e.decl = m.decl /\ e.key = m.key
    BY <1>m DEF Error
<1>7. CASE m.key = ResolvedKey(m.decl)
    <2>1. ASSUME NEW i \in Declares(type, m.name, m.key) PROVE Hidden(type, i)
        <3>1. /\ i \in Decls /\ prog.decl[i].cls \in SuperChain(type)
              /\ prog.decl[i].name = m.name /\ ResolvedKey(i) = m.key
            BY DEF Declares
        <3>2. At(prog.decl[i].cls, m.name, m.key) = {}
            BY <1>m, <3>1 DEF ImplementedInHierarchy
        <3> QED BY <1>3, <3>1, <3>2, NotFoundIsHidden
    <2> QED BY <1>4, <1>6, <1>7, <2>1
<1>8. CASE m.key = UnresolvedKey(m.decl) /\ Early(m.decl)
    <2>1. prog.file[type] = file /\ file \in File
        BY <1>3 DEF IInv, LoopInv, ClassesOf
    <2>2. PICK x \in SourceClasses :
             /\ prog.decl[m.decl].cls \in Ancestors(x) /\ prog.decl[m.decl].cls # x
             /\ prog.file[x] \in File \ left
             /\ position[prog.file[x]] <= position[FileOf(m.decl)]
        BY <1>8 DEF Early
    <2>3. position[prog.file[x]] <= position[prog.file[type]]
        BY <2>1, <2>2, ConstantsAssumption DEF OrderInv
    <2> QED BY <1>6, <1>8, <2>2, <2>3 DEF MemoisedEarly, Early, FileOf
<1> QED BY <1>5, <1>7, <1>8 DEF MemoKey

-----------------------------------------------------------------------------
(* What keeps the analysis from answering stands in the program's text. *)
CrashInv == phase = "crashed" => Unanswerable

LEMMA CrashStep == IInv /\ CInv /\ CrashInv /\ [Next]_vars => CrashInv'
<1> SUFFICES ASSUME IInv, CInv, CrashInv, [Next]_vars, phase' = "crashed"
             PROVE  Unanswerable'
    BY DEF CrashInv
<1>1. prog' = prog
    BY ProgStays
<1>2. Unanswerable' <=> Unanswerable
    <2>1. /\ SourceClasses' = SourceClasses /\ \A c : Ancestors(c)' = Ancestors(c)
        BY <1>1, HierarchiesStay
    <2>2. Decls' = Decls /\ \A d, e : Collides(d, e)' <=> Collides(d, e)
        BY <1>1 DEF Decls, Collides, ResolvedKey, UnresolvedKey, Denoted
    <2>3. \A c : (Endless(c)' <=> Endless(c)) /\ (Unending(c)' <=> Unending(c))
        BY <1>1, <2>1 DEF Endless, Unending, Walk
    <2> QED BY <1>1, <2>1, <2>2, <2>3 DEF Unanswerable
<1>3. CASE phase = "crashed"
    BY <1>2, <1>3 DEF CrashInv
<1>4. CASE phase # "crashed" /\ FinishType
    <2>1. Endless(type) /\ phase = "types" /\ type # NoClass
        BY <1>4 DEF FinishType
    <2>2. type \in SourceClasses
        BY <2>1, ConstantsAssumption DEF IInv, LoopInv, ClassesOf, SourceClasses
    <2> QED BY <1>2, <2>1, <2>2 DEF Unanswerable
<1>5. ASSUME NEW d \in DeclId, ResolveMethodSignature(d) PROVE FALSE
    BY <1>5, Rekeying
<1>6. ASSUME phase # "crashed", NEW d \in DeclId, ResolveMethodBody(d) PROVE Unanswerable
    <2>1. phase = "bodies" /\ (d \in Lost \/ \E k \in CallsFrom(d) : Hangs(k))
        BY <1>6 DEF ResolveMethodBody
    <2>2. CASE d \in Lost
        BY <2>1, <2>2 DEF CInv, LostOnlyByCollision, Unanswerable, Lost
    <2>3. CASE \E k \in CallsFrom(d) : Hangs(k)
        BY <2>3 DEF CallsFrom, Hangs, Unanswerable
    <2> QED BY <2>1, <2>2, <2>3
<1>7. CASE /\ phase # "crashed" /\ ~FinishType
           /\ ~ \E d \in DeclId : ResolveMethodSignature(d)
           /\ ~ \E d \in DeclId : ResolveMethodBody(d)
    BY <1>7 DEF Next, BeginFile, CollectType, CollectMethod, EndFile, EndPass, PhaseAfter, Following,
       BeginType, BeginBodies, BeginAliases, ResolveAliases, Done, vars
<1> QED BY <1>2, <1>3, <1>4, <1>5, <1>6, <1>7

-----------------------------------------------------------------------------
(* The invariant behind the verdicts. *)
VInv == /\ IInv /\ CInv /\ OrderInv /\ DoneInv
        /\ NearestInv /\ MainInv /\ MemoInv /\ KeptInv /\ EarlyInv /\ CrashInv

THEOREM VerdictInvariance == Spec => []VInv
<1>1. Init => /\ OrderInv /\ DoneInv /\ NearestInv /\ MainInv /\ MemoInv /\ KeptInv
              /\ EarlyInv /\ CrashInv
    <2>1. Init => DoneInv /\ NearestInv /\ MainInv /\ KeptInv /\ EarlyInv /\ CrashInv
        BY DEF Init, DoneInv, NearestInv, BoundToNearest, MainInv, KeptInv, Aliased, Finished,
           EarlyInv, CrashInv
    <2> QED BY <2>1, OrderInit, MemoInit
<1>2. VInv /\ [Next]_vars
          => /\ OrderInv' /\ DoneInv' /\ NearestInv' /\ MainInv' /\ MemoInv' /\ KeptInv'
             /\ EarlyInv' /\ CrashInv'
    BY OrderStep, DoneStep, NearestStep, MainStep, MemoStep, KeptStep, EarlyStep, CrashStep
    DEF VInv, IInv
<1> QED BY <1>1, <1>2, CollisionInvariance, PTL DEF Spec, VInv

(* In every program and order of files, a call is bound to a method of its
   name in the nearest type that has one. *)
THEOREM BindsNearest == Spec => []BoundToNearest
<1>1. VInv => BoundToNearest
    BY DEF VInv, NearestInv
<1> QED BY <1>1, VerdictInvariance, PTL

(* In every accepted program, a type whose only Bereshit has the flags of
   main is registered and holds a main for the Java virtual machine. *)
THEOREM BereshitBecomesMain == Spec => []BereshitIsMain
<1>1. VInv => BereshitIsMain
    BY DEF VInv, MainInv, BereshitIsMain, Aliased, Proper, Own
<1> QED BY <1>1, VerdictInvariance, PTL

(* In every accepted program, the contracts of the class files are kept,
   unless an impostor stood in for an implementation. *)
THEOREM ContractsKept == Spec => []ExternalContractKept
<1>1. VInv => ExternalContractKept
    BY DEF VInv, KeptInv, Kept, ExternalContractKept, Finished
<1> QED BY <1>1, VerdictInvariance, PTL

(* In every program and order of files, the blame for a method not implemented
   is real, or has one of the causes the property names. *)
THEOREM BlamesHaveCause == Spec => BlameHasCause
<1>1. VInv /\ [Next]_vars => [BlameStep]_vars
    BY ReportHasCause DEF VInv
<1> QED BY <1>1, VerdictInvariance, PTL DEF Spec, BlameHasCause, BlameStep

(* The safety half of AnswersUnlessCyclicOrColliding: the analysis dereferences
   no symbol that is missing and never fails to return, unless the program's
   hierarchy is cyclic or two of its methods collide. *)
THEOREM CrashesHaveCause == Spec => [](phase = "crashed" => Unanswerable)
<1>1. VInv => (phase = "crashed" => Unanswerable)
    BY DEF VInv, CrashInv
<1> QED BY <1>1, VerdictInvariance, PTL

=============================================================================
