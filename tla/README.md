# A formal model of codeshc

`codeshc` compiles Codesh, a programming language in biblical Hebrew, to JVM class files or a JAR, and runs as
a language server that publishes the compiler's diagnostics. This directory holds TLA+ modules translated from
the C++ sources under `src/src/`, the TLC configurations that check them on small instances, and theorems about
them that TLAPS proves for every value of the constants. Paths below are relative to `src/src/`.

The program is single threaded; only whole runs of it meet, on the disk. What makes it hard is *order*: passes over
files that the operating system lists in any order, tables whose keys change meaning between passes, names that
load class files into the tables they are searched in, walks over a tree that must agree though they are written
apart, byte offsets computed before the code they jump over is placed, and globals that outlive a request.

## 1. The parts of the system

| Part | State it keeps | Operations | Correct when |
|---|---|---|---|
| Driver (`main.cpp`), command line (`command_parser.cpp`) | arguments, list of ASTs, temporary directory | parse the arguments and all files, the three analysis passes with error gates, build class files, bundle, server loop | nothing is put at the destination for a rejected program, success means every class is there, every run ends |
| Lexer (`lexer/`) | position, the global source info map | tokenize a file, strip nikkud, match keywords in a trie | each file gets one entry in the map and every diagnostic points into it |
| Parser (`parser/`) | the token queue, the open scopes | recursive descent, value and number parsers | the tree is what the file says, the end of the file is noticed wherever it comes, every round takes a token |
| AST (`parser/ast/`) | nodes, resolved symbols, indices into the pool, indexes of statements | `prepare`, `emit_constants`, `emit_ir`, `set_statement_index` | the two emitting walks visit the same children; every node knows its statement |
| Symbol table (`semantic_analyzer/symbol_table/`) | countries (packages), types, overloads tables, variables with slots | emplace, resolve, resolve and move, remove, lazy loading | a name and a descriptor denote one symbol; a symbol in use is not destroyed; no two variables share a slot |
| Analyzer (`semantic_analyzer/analyzer.cpp`, `type_decl/`, `method_decl/`, `field_decl/`, `statement/`) | which types and methods were collected and resolved | collect, post-collect, resolve, abstract-method checks, calls, values and places, Bereshit alias | the verdict does not depend on file order; what is wrong is reported; what is accepted fits |
| Class loaders, builtins (`classpath/loader/`, `builtins.cpp`) | open JARs and jimage, loaded types | load a type by name, read a class file, move builtins into their country | the same name denotes the same type; what is read is what was declared |
| Diagnostics (`blasphemy/`) | errors, warnings, current file id | add, `has_errors`, print, clear; a fatal one prints and exits | every error is reported once, against the right file |
| IR and conditions (`output/ir/`) | blocks of instructions | append, size, jumps, count the stack | a jump lands on the instruction it is meant for; the counted stack is at least the real one |
| Constant pool (`output/jvm_target/constant_pool.cpp`) | entries and their indices | `goc_*` (get or create), `get_*_index` | an index given out is that of the entry in the class file |
| Class file builder and writer, stack map (`output/jvm_target/`) | the class file under construction | build attributes, frames, write | the JVM's verifier accepts what was written; lengths are true |
| JAR bundler (`jar_bundler.cpp`) | temporary JAR and manifest | choose the main class, embed class paths, call `jar`, move | the JAR is made of what this run compiled; temporary files do not stay |
| Language server (`lsp/lsp_receiever.cpp`, `main.cpp:224`) | the input stream; the collector and source info map across requests | read a frame, run the pipeline, publish, clear | a report is about its own document; one bad request does not lose another |

How they interact: the driver calls lexer and parser per file, then the analyzer's three passes over *all* files;
the analyzer calls the class loaders when a name is not found; every part adds to the one blasphemy collector,
which `analyze_asts` polls between passes. For each type the driver builds a constant pool (first walk over the
tree) and then the class file (second walk), which asks the pool for indices. The server runs the same pipeline
inside a `try` whose `catch (...)` swallows everything.

What is modelled of each part is listed in `PROJECT.json` under `components`, and the places where they can go wrong
in ways a test would hardly reach under `hazards`, with the properties that watch them.

## 2. The modules

In the order of the compiler's own pipeline:

| Module | Models | Kind |
|---|---|---|
| `CompilerContract` | what a run promises to whoever started it | abstract specification |
| `CompileDriver` | a run from its arguments to its exit code, several on one disk | state machine, implements the contract |
| `TokenStream`, `BiblicalNumbers`, `ParsedValues` | the token queue; numbers in words; values | parsing functions, each over the one before |
| `Parser` | declarations, statements and scopes of a file | state machine over them |
| `ParserProperties` | a tree written down again, the worth of a number | reference definitions and properties |
| `SemanticAnalysis` | the three passes, overloads tables, abstract methods, calls, alias of `main` | state machine |
| `NameResolution` | countries, imports, builtins, class paths and what names mean | state machine |
| `StatementResolution` | bodies and initialisers: variables, values, calls, places | state machine over resolving functions |
| `ConstantPool` | the pool and the two walks over the tree of a type | state machine |
| `ConditionBlock` | the code of conditions, run as the JVM runs it | compiler functions and a machine |
| `MethodCode` | a method's slots, code, counted stack, frames, and the JVM's verifier | compiler functions and a machine |
| `ClassFile` | the class file built, written and read back | state machine |
| `LspServer` | framing, the request loop, the pipeline by stage, the two globals | state machine |
| `CompileDriverProofs`, `SemanticAnalysisProofs`, `NameResolutionProofs`, `NameMeaningProofs`, `StatementResolutionProofs`, `ConstantPoolProofs`, `ConditionBlockProofs`, `LspServerProofs` | theorems | proofs |
| `MC*` | small instances of each | model values |

The models meet at the boundaries of the code's own parts. `CompileDriver` takes from a source file at which pass its
first error is found, which is what the analyzer's models compute. `ParsedValues` and `BiblicalNumbers` run inside the
steps of `Parser`. `SemanticAnalysis` has the calls and overloads that `NameResolution` leaves out, and
`NameResolution` the names it takes as given; `StatementResolution` takes the meaning of a name of several parts
(`Imported`) and resolved types from them. `MethodCode` compiles what `StatementResolution` accepts, `ConditionBlock`
checks the conditions inside it exhaustively, `ClassFile` takes a method's code as so many bytes with frames, and its
indices as `ConstantPool` gives them.

Operators named `Mutant` in a comment are plausible mistakes in the operator that follows; they are not part of
the model and are there to show that the properties would notice.

### 2.1 CompileDriver and CompilerContract

*State.* For each run: `command`, `arguments`, `options`, `phase`; `errors` and `loaders`; `files` and `next`, the
sources and the one in turn; `chosen` and `pending`, the main class and the class paths still to be embedded.
`disk` is what runs share: artifacts at the destinations, each run's temporary directory and JAR, and the one
manifest. `written` and `accepted` are history.

*Actions.* `ParseArgument`, `FinishArguments`, `NoArguments`, `Start` are the command line; `CollectSources`,
`ParseFile`, `AnalyzeFile`, `NextPass`, `Judge` the passes and their gates; `BuildClass`, `FinishClassFiles` the class
files; `ChooseMain`, `EmbedClasspath`, `WriteManifest`, `RunJar`, `RemoveManifest`, `RemoveOld`, `MoveJar`,
`Cleanup` the JAR. A fatal error is `std::exit`: no destructor runs.
The operations in `Unreliable` may fail; the code's answer to each is in the action.

*Refinement.* `CompilerContract` knows requests, acceptance, delivered classes and outcomes. `CompileDriver` maps
its state to them (`Promise`), reading the request off the command line at once (`RequestOf`: of a run of words that take
values every other one is a flag, and the last `--src` counts) where `ParseArgument` goes word by word. `KeepsContract` is the
contract's whole specification: only clean programs are accepted, only accepted ones are delivered, success means
complete, every run ends.

*Abstraction.* A program is a fault and a list of types per file; class paths are a set, as the loaders lie in an unordered map.
A file that is no source parses as one with a fault (`NoSource` of the instance).

### 2.2 The parser

*State.* `stream` holds what is left of the `file`, the reports, and how the process fares: "undefined" after the front
of the empty queue was read, "thrown" after an exception. `open` are the scopes on the parser's call stack, `unit`
the tree.

*Actions.* One round of the loop of the innermost scope: `DeclareClass`, `AddMethod`, `IfStatement`, `EndScope` and
so on, with `SkipGlobal`, `BadMember` and `SkipStatement` for what is refused. A value is parsed
within a step by the functions of `ParsedValues`, which take a stream and give a node and the stream behind it.

*Abstraction.* Tokens are the lexer's; groups that the parser treats alike share a name, and an identifier has its
place for a text. Numbers are exact: that the code computes them in doubles is left out.

*Properties.* `ParserProperties` writes a tree down again by operators that share nothing with the parser; `SourceKept`
compares the result with the file. `NumbersTrue` compares with a reference for numbers, `EndNoticed` says that no end of
a file is accepted by mistake or read past, and `MovesOn` that every step takes a token, closes a scope or ends:
the loops of the parser end without an assumption of fairness.

### 2.3 SemanticAnalysis

*State.* `phase`, `left`, `file`, `types`, `type`, `pending` say where the nested loops of `analyze_asts` stand.
`overloads` is the union of the `method_overloads_symbol` tables: a record `[cls, name, key, decl]` per symbol, in
which `key` is the descriptor string the map is keyed by. `declared`, `rekeyed`, `abstracts`, `collected`, `bound`,
`mains` and `errors` are the countries' scopes, the methods whose signature was resolved, the memo of
`collect_abstract_methods`, the symbols calls point to, the registered main classes and the collector.

*Actions.* `CollectType` and `CollectMethod` are passes one and two; `BeginType`, `ResolveMethodSignature`
(which takes a symbol out under the unresolved descriptor and emplaces it under the resolved one) and
`FinishType` (abstract methods) are pass three over types; `ResolveMethodBody` binds calls; `ResolveAliases`
renames Bereshit. `EndPass` holds the `has_errors()` gates. Files are taken in the order `position`, chosen once:
`std::filesystem` promises none.

*Abstraction.* A program is a record of declarations, super types and calls. A descriptor is the sequence of
its parameter notations: as spelled before resolution, as denoted after. Types of class files are declarations
whose file is `External`. A walk up the hierarchy that never returns, and a look-up whose missing symbol is dereferenced, end in
the phase `crashed`.

*Properties.* Which symbols the passes may lose (`LostOnlyByCollision`), what a call, an abstract method and a Bereshit come to
mean in the end (`BoundToNearest`, `ExternalContractKept`, `BereshitIsMain`), whom the compiler blames (`BlameHasCause`) and which
programs keep it from answering (`AnswersUnlessCyclicOrColliding`). Causes are stated by the program's text and the order of
the files, not by the tables. `ExternalContractKept` is about abstract methods of class files: those of
source classes are never missed (3.1), so a property about them would have nothing to say.

### 2.4 NameResolution

*State.* `at` is the tree of countries, from paths to countries or the number of a type; `types` holds every type symbol
ever made, so that a destroyed one can be told from a living one. `order` is the order in which a hash table lists
the class loaders. `phase` and `next` are the pass and the file or builtin in turn, `item` the name of that file which the
last pass has come to (`Items` lists them: the super types of its types, then what its bodies name), `walk` a climb over
super types, `errors` the names reported with the file in turn, `answers` the meanings given so far.

*Actions.* `MakeContext`, `Collect`, `ResolveBuiltin` (which destroys a placeholder and moves the class out of `java/lang`),
`PostCollect`; `ResolveSuper` with `Arrive`, `ClimbBound`, `ClimbOut` and `ClimbUnbound` for the hierarchy above a type;
`ResolveUse` and `ResolveCall` in bodies; `NextFile`. `Lookup` loads class files as it searches.

*Abstraction.* Interfaces of a type are left out, as only classes can be declared and super types take the same
way; a type has the names of its members, whose overloads are in `SemanticAnalysis`.

### 2.5 StatementResolution

*State.* The `method` as written, its `body` with the indexes of statements, its `locals`, the `phase`, the `next`
statement, and what `out` has found and reported.

*Actions.* `Parse` numbers the statements; `Prepare` adds the super call and the return and shifts the indexes;
`Collect` enters all variables; `ResolveStatement` and `ResolveInitializer` resolve one statement with everything
below it; `Finish` ends. The code's recursive resolvers are the recursive functions `Resolve` (over `Values`) and `Statement`
(over `Statements`): each gives a function over the environments a node may be resolved in. `ResolveFrom` and `StatementFrom`
are what one call does, given what the calls below it leave.

*Abstraction.* A value or statement is a record with a kind; `SyntaxAssumption` is what the parser makes of them: each kind has its
parts, and `Depth` grows from the parts to the whole, so that nothing is part of itself. The types of the world are resolved.
A cast from or to an interface that a source declares is let through (`Interfaces`); the instance has none, as the parser builds none (3.1), and
one of a class file is refused as any unrelated type. A range has a type of its own (`RangeType`), a class that nothing resolves: wherever
a type is asked for it is compared with that, and is refused nearly everywhere but in a `for`. `SizeMax` stands for `size_t(-1)`, the index
nobody has set. The candidates of an overload lie in a hash table: both orders are tried. Undefined behaviour, as of a
variable whose symbol was destroyed, ends the run or goes on, as the case says.

*Properties.* `HolesReported`: what stays without a meaning is reported. `ValuesFit`: an accepted value fits its
place. `ReadsAfterDeclaration`: an accepted read follows its declaration in the text. Each names the exceptions
found (`HolesReported` two: a second variable of one name, and initialisers), so anything beyond them would show.

### 2.6 ConstantPool

*State.* `pool` maps entries to indices; `tasks` is what is left of the current recursive walk, as a list; `cpi` are the
indices nodes remember between the walks; `loads` the operands written. `phase` is the walk or how it ended.

*Actions.* `VisitToEmit`/`PutConstant` are `emit_constants` and the `goc_*` methods; `VisitToBuild`, `GetIndex`,
`GetMissing` (the lookup throws), `UseIndex`, `UseMissing` (an empty `std::optional` is dereferenced, which gives
any value) and `CountEntries` are the builder. `PutConstant` chooses the order in which C++ evaluates nested
arguments, which the language leaves open.

*Abstraction.* A node has a kind, the symbols it names, operands and parts; texts are short strings. `EmitTasks`
and `BuildTasks` give each kind's two methods side by side; `NoEmitters` are the kinds whose `dynamic_cast` to
`i_constant_pool_emitter` fails, so that the first walk ends there. `TreeAssumption` is what the parser and the analyzer make
of a tree: each node is an object of its own, reached from its parent, with as many operands and parts as its kind has.
Its number stands for the object, and numbers grow on the way down.

*Properties.* `OnlyHiddenMiss`: in the second walk a node finds whatever it asks for, unless the first walk had no way to
the node (`Hidden`: below a condition of an `if` or below one of `NoEmitters`) or its own `emit_constants` forgets
a constant its `emit_ir` needs (`Forgets`). `ReferencesResolve` and `LoadsNameTheirConstant` follow an index from the pool into the
bytes of an entry or of an instruction.

### 2.7 ConditionBlock

*State.* `statement` is compiled in `Init` to `code`, a function from byte offsets to instructions, by recursive
functions over `Conditions` that mirror `build_condition_block`, `emit_branch_ir`, `while_ast_node::emit_ir` and
`build_boolean_value_block` (which nothing in the compiler calls yet). `pc`, `tested`, `entered`, `held` and `values`
run it.

*Actions.* `RunLoad`, `RunIf`, `RunGoto`, `RunBody`, `RunPush` are the JVM (external). An offset is what two bytes
hold of it. A jump that does not land on an instruction leaves the machine stuck, which the properties notice.

*Abstraction.* A leaf's operands are one load of some bytes; a branch's body is one instruction of some bytes, at least
one, so that running it can be seen: an empty body is not modelled (its jump would lead to the `goto` or to the end, where the
body ends too). `Depth` says only that a condition is a tree: each operand has a smaller one than its operator.
Sizes are chosen so that different wrong sums give different wrong places.

### 2.8 MethodCode

*State.* `locals` with their slots, `code` with its markers, `counted` (the stack after each instruction as the builder
counts it), `ranges` (the bytes of each scope), `frames`; then `next`, `frame` and `verdict` of the verifier.

*Actions.* `CollectLocals`, `EmitMethodBytecode`, `ComputeRanges`, `BuildFrames` are the compiler, one pass each over
the method; `Verify`, `MeetFrame`, `Step`, `Finish` are the type-checking verifier of the class file format
(external), one instruction a step. Parameters and `this` are variables of the outermost scope like any other, so they are in the frames of
its bytes but for the first (`IsActive`).

*Abstraction.* Types are what slots and frames tell apart: int, long, float, double, two classes, arrays. Operators
are those with different stack effects. `ByteSize` stands for 256.

*Properties.* The verifier may reject a method only for causes named in the properties, each of them a defect of
the code listed in 3.1; everything else must pass.

### 2.9 ClassFile

*State.* The declaration `decl` becomes `class`, the structure the builder makes, then `file`, its bytes; `pos`, `slot`,
`strings`, `refs`, `left`, `methodsAt` are the loader's, `symbol` what it fills.

*Actions.* `EmitConstants`, `Build`, `AddField`, `AddMethod`, `FinishBuild`, `WriteToFile`; `ReadHeader`,
`ParseConstant`, `ResolveClassRefs`, `ParseType`, `ParseField`, `CountMethods`, `ParseMethod`, `FinishLoad`. A file may
have lost its last bytes; what a read past the end leaves in an uninitialized variable is `stale`.

*Abstraction.* A name is one byte; code is a number of bytes. `LengthsTrue`, part of `FormatKept`, reads the bytes by
structure instead of by length, and compares.

### 2.10 LspServer

*State.* `stdin` is the unread input as header lines, blank lines and bodies; `requests` and `outcome` are history:
what the client sent and what became of it. `collected`, `fileId` and `sourceMap` are the two globals of
the compiler, and `published` the last report.

*Actions.* `ReadMessage`, `RefuseFrame` and `ReadEnd` are `wait_for_request` with each of its ends;
`Tokenize`, `Parse`, `CollectSymbols`, `PostCollect`, `Analyze` the stages, each with its own throw, which goes
back to the loop *without* clearing anything; `SendDiagnostics` and `Clear` end the request. `Send` and `Close`
are the client.

A stage may also end the process (`ProcessEnds`), as the walk over a hierarchy that leads back to itself does, which overflows
the stack: no handler catches that, and the server only stutters from then on. A fatal blasphemy would do the same by `std::exit`;
today none is reported by what the server runs, but nothing in the model depends on that.

*Abstraction.* A document is what each stage reports about it, which stage throws, and which one ends the process.

## 3. What the runs check

| Run | Properties | States | Result |
|---|---|---|---|
| `DriverRuns` | `CleanExit`, `JarIsOwn`, `KeepsContract` | 20,339 | pass |
| `ParserRuns` | `SourceKept`, `EndNoticed`, `NumbersTrue`, `MovesOn` | 332,681 | pass |
| `SemanticPasses` | `SignatureFound`, `LostOnlyByCollision`, `ExternalContractKept`, `BlameHasCause`, `BoundToNearest`, `BereshitIsMain`, `AnswersUnlessCyclicOrColliding` | 60,594 | pass |
| `NameRuns` | `BindingsAlive`, `MeaningKept`, `BlamedForLaterFiles`, `SourceMembersKept` | 144,995 | pass |
| `StatementRuns` | `HolesReported`, `ValuesFit`, `ReadsAfterDeclaration` | 148,575 | pass |
| `StatementCast` | `DeclaredReadsAccepted` | | violated |
| `PoolEntries` | `SlotsDisjoint`, `ReferencesResolve`, `LoadsNameTheirConstant`, `OnlyHiddenMiss` | 63,826 | pass |
| `CondRuns` | `LandsOnInstruction`, `BodyHasItsCondition`, `ShortCircuits` | 101,994 | pass |
| `CondOr` | `TrueReachesTheExpression` | | violated |
| `MethodRuns` | `JumpsLand`, `StackSound`, `EveryTargetHasAFrame`, `FramesTrue`, `ReadsItsVariable` | 20,795 | pass |
| `ClassRuns` | `ReadsWhatWasDeclared`, `FormatKept` | 44,418 | pass |
| `LspReports` | `FileIdsValid`, `ForeignHasCause`, `CompleteReport`, `EveryRequestDisposed` | 709,465 | pass |

A passing property says what holds of the code as it is. Where the code falls short of what its docs, comments or the
class file format ask, the property names the exceptions, each by the condition under which it comes about, and the finding
in `PROJECT.json` names the line. Anything beyond the named exceptions would violate the property.

### 3.1 What was found

*Driver.* A fat JAR gets no `Main-Class`, also with `--main-class`; and `--main-class` is split at `/` only, so a name with
dots is never found (`JarIsOwn`).

*Parser.* The groups of a number are asked to descend by comparing each with the one before it, so some orders pass and
some are refused (`NumbersTrue`). A point inside a multiplication and a second point throw; a file that ends behind
`return`, `if`, `let` or the point of a number is read past its end; the parenthesis behind a receiver is optional
(`EndNoticed`). A receiver is dropped when a call already had one, an interface becomes a null pointer, the sins of a method
that returns nothing are accepted inside its body, a wildcard inside a name (`SourceKept`).

*Types, methods and names.* An overload is lost when its resolved descriptor is still taken by the unresolved one of a later
overload (`LostOnlyByCollision`). A class is blamed for an abstract method that it does inherit an implementation of,
when that stands in a later file or type or was renamed with an earlier file, or when the abstract method was memoised as it is spelled
(`BlameHasCause`); one that is abstract in a source class is never missed, and one of a class file passes as implemented by a method of a later
type that is only spelled as it resolves, or by a Bereshit already renamed to `main` (the `Impostors` of `ExternalContractKept`). The
hierarchy of a later file is resolved with the imports of the earlier one and blamed on it (`BlamedForLaterFiles`). Members
of an old class file are added to the type of the sources (`SourceMembersKept`), so that a name may come to mean another
field within one file (`MeaningKept`).

*Statements.* Operands of a cast and of a new array keep the statement index -1, so declared variables are refused there
(`StatementCast`). A second variable of one name is destroyed and not reported; a condition without a type throws (`HolesReported`).
A range is accepted in a cast to any class, though no code is generated for it. A nested scope may read an outer variable that is declared
later (`ReadsAfterDeclaration`). An array element takes a wider value, widening and casting look at the base type only, a
method of another class gets the caller's `this`, and the value of a static field is not compared with its type
(`ValuesFit`).

*Code.* Literals in conditions of an `if`, and below ranges, new arrays and array accesses, get no entry in the pool; a new array
forgets the class of its elements, and a `for` asks for the constant of its range instead of its step's
(`OnlyHiddenMiss`). `LDC` cuts the index to
one byte (`LoadsNameTheirConstant`). A disjunction inside another jumps too short (`CondOr`). The implicit return is decided
by the first statement (`EveryTargetHasAFrame`). Reads of wide fields and elements are miscounted, a compound assignment to a
field drops its operator, a new object is popped before it is used, boolean operators as values leave their operands, a
`for` with a big skip throws (`StackSound`). Frames give a long two entries, name variables that are not set yet, and
lack the parameters at byte 0, where a method that starts with a loop jumps back to (`FramesTrue`, `ReadsItsVariable`); arrays of longs take two slots (`ReadsItsVariable`).

*Class files.* Duplicate fields are written, abstract methods get a `Code` attribute (`FormatKept`), and `ACC_ABSTRACT` of
a class is lost (`ReadsWhatWasDeclared`).

*Language server.* After a request that threw, the next report repeats the diagnostics of another document
(`ForeignHasCause`). A document whose types inherit in a circle ends the server, so that it and all that follow are not answered
(`EveryRequestDisposed`).

### 3.2 The bounds and why they are enough

Every bound is a constant of the module or a definition of its MC module.

* `MCCompileDriver`: two runs. Beside an idle run every kind of command line and faulty program; beside a second
  bundling run seven commands that bundle. Two runs are what it takes to meet in the manifest and at a destination; a third
  adds no kind of meeting. Write, embed, jar, rename and copy may fail; two JREs, with and without what is needed.
* `MCParser`: every sequence of up to two to five words (by part) of one part of the language at its place in a file,
  37,000 files. Recovery skips one token at a time, so what goes wrong shows within a declaration and the token behind it.
  `IntSpan` is the real 65,536, as the words reach it.
* `MCSemanticAnalysis`: two files in both orders, up to three classes, one external interface, four declarations, one call,
  in families that each aim at one hazard (`ImpostorPrograms`: an abstract method of a class file and what is taken for its implementation). Every key collision needs two symbols of one name; every question of file order two
  files.
* `MCNameResolution`: two files, three countries, all orders of the loaders, and class paths with old, misplaced and
  clashing class files, in `Shadowed` one that adds a field to a type already used, in `Builtin` a builtin that the sources declare.
* `MCStatementResolution`: 16,742 cases: every kind of value in every place of every body, and all orders of up to
  three statements that declare, read and shadow. `SizeMax` is 100, beyond every index. `Values`, `Statements` and `Depth` are collected
from the cases: values are nested four deep and statements two.
* `MCConstantPool`: one class of every kind of statement and value, and classes too big for the pool; no tree is deeper than
  `Depth` 8, down to which `TreeOf` collects the nodes. `IndexSpan` 36,
  `LdcSpan` 30 and `MaxCount` 35 stand for 65,536, 256 and the limit, so that both overflows happen; `Garbage` {0, 30} is what
  an empty optional yields, valid index or not.
* `MCConditionBlock`: every condition of up to three leaves. A wrong offset shows with one operator inside another, and three
  leaves have every nesting of two operators. `Rounds` 2 sends a loop through its backward jump; `JumpSpan` is 65,536.
* `MCMethodCode`: some 1,500 methods, each kind of value in each place and each statement around and after each other.
  `ByteSize` 8 makes one-byte operands overflow.
* `MCClassFile`: 120 classes; `Cuts` {0, 30, 700, 1200} are the bytes the end of the file has lost, so that it is whole, or ends in an
  attribute, in the members, in the pool or before its header; `Stale` {0, 1} is what an uninitialized variable may hold.
* `MCLspServer`: three messages under three header blocks (the length alone, behind another line, or missing), eight documents: legal, faulty at one stage or
  another, throwing in the first, the second and the last one, or ending the server there. What a failed request leaves behind concerns the next request, and what that one clears the third.

Deadlock is checked except in `CondRuns`, `CondOr` and `PoolEntries`, where the compiled code, or the compiler, just ends.

### 3.3 Fairness

`SemanticAnalysis` assumes weak fairness of `Next`: one thread that runs on. Walks that do not return are the phase `crashed`, so
that `AnswersUnlessCyclicOrColliding` asks which programs lead there, beside the ending of the loops. `LspServer` assumes it of `Server` only; the client
may never send. `CompileDriver` assumes it of each run's own step, since the operating system schedules every process; that is
what "every run ends" of `CompilerContract` needs. Other modules state none: `MovesOn` of the parser is an action
property that makes every run finite, and the remaining machines walk a finite list.

## 4. What is proved

tlapm checks every leaf; SMT (Z3), Zenon and LS4 are the backends. The assumptions are the `ASSUME`s of the
modules: constants have their types, names are distinct, a class file holds no two methods of one name
and descriptor, the limit of the pool is below what two bytes hold, a syntax
tree is one (`TreeAssumption`, 2.6), a program has a file and there is a builtin,
a name is used in a type of its file, the class files of the builtins hold what their paths say; and for the driver that the absent path is no
run, that source files are finitely many and no directories, that the current directory exists, that what is on the disk
and is no directory can be parsed with some outcome, and that no command asks for the server. Of conditions, that they are trees
whose leaves have operands of some bytes (`ConditionAssumption`); of statements, that they have as many bodies as their kind has
and none is empty (`StatementAssumption`, 2.7). Of bodies, that values and statements are trees whose kinds have their parts (`SyntaxAssumption`, 2.5) and that
the world of types is one: super types and field types exist, only primitive types widen (`WorldAssumption`).

* **`SemanticAnalysisProofs`**. `SignaturesFound`: for every program and order of files, `resolve_method_signature` finds the symbol it
  dereferences. It is not inductive. The invariant adds where the loops stand (`LoopInv`), which methods were re-keyed
  (`RekeyInv`), and that pass two left every method it passed, unless it reported an error, under its unresolved
  descriptor (`CollectInv`). The gate between the passes is what carries the last into pass three; a re-keyed symbol
  may push out a newcomer, never one that still waits, because the emplace keeps what is there.
  `LostCollided`: a symbol missing from the tables was destroyed by one of the collisions listed
  in `LostOnlyByCollision`. The invariant (`CollisionInvariance`) adds the forms in which a declaration can stand in a table
  (`FormInv`): one that stands unresolved was never re-keyed, one renamed to `main` belongs to a file that is over
  (`RenameInv`), and pass two goes over methods of the sources only and loses none of the class files' (`LoadedInv`).
  The second half says what is accepted and what is blamed. `BindsNearest`: a call that is bound stays bound to the nearest method of its
  name, through later renamings. `BereshitBecomesMain`: an accepted main class has its Bereshit under `main`. `ContractsKept`: an
  abstract method of a class file is implemented, or one of the named impostors was taken for it. `BlamesHaveCause`: a
  class is blamed for a method it has only for the causes `BlameHasCause` names. `CrashesHaveCause`: without a circle or a collision in the text no
  look-up meets a missing symbol and no walk goes on for ever. The invariant orders the files and the
  types that are finished (`OrderInv`, `DoneInv`), and says of the memo of abstract methods that it is closed under super types
  (`MemoInv`): a type above a collected type is collected, except while its own walk goes on. What lies above a type is the
  least set closed under super types, so a fact about the whole hierarchy needs no induction: the collected types are such
  a set. This also covers programs that inherit in a circle.
* **`NameResolutionProofs`**. `NothingDangles`: no super type in use and no name of a body is bound to a destroyed symbol or to one that
  stands elsewhere. `SourceTypesKept`: members of old class files reach a type of the sources only through a name that leads
  through it. `TypesKept`: `TypeOK`, also when a class file breaks the tree. The heart is `LoadGrows`: once the builtins are
  placed, loading a class leaves every path its meaning and puts nothing below a type, because the search for a country
  throws there. `LookupGood` carries that to a look-up, `BodiesStep` to every step of the last pass that looks a name up. Before
  that pass symbols *are* destroyed; what makes this harmless is that no type is bound yet and no name answered (`Untouched`).
* **`NameMeaningProofs`**. `MeaningsStay`: within a file a name changes its meaning only by what class files bring before it.
  A step of the last pass fills the tree and takes nothing away (`Filled`), so what a name led to is there ever after
  (`Remembered`) and the name is never loaded again; what comes to answer before it is of a class file, as it was not there
  when the name was first found (`Nearer`, `Brought`). `BlameIsForLaterFiles`: a file is blamed for a name it does not contain
  only on behalf of types nobody looked at before. A type of the sources, unless it declares a builtin, stays where it was
  declared (`Placed`: the one pass that removes symbols takes builtins and aliases only), so every file finds its own types
  again and binds or reports each super type when it comes to it (`Attended`); a climb that finds one unbound is above a
  type of a later file, of a class file or of a builtin, or repeats a report.
* **`CompileDriverProofs`**. `ExitsAreClean`: whatever other runs do, and whatever fails, a run that reports success has left no
  temporary directory or JAR, nor the manifest it wrote. The invariant says at which phases a run has which of them
  (`TempInv`, `Shape`); it must speak of the other runs too, as the manifest is shared: a run removes the manifest for
  the same reason for which it wrote one. `GatesHold`: no class of a program is delivered, nor the program accepted,
  unless no pass has a fault to find in any of its files. It needs the passes that are over to have found
  nothing, and the one going on to have found nothing so far (`GateInv`). `JarsAreOwn` needs what the temporary directory
  holds at each phase (`BuildInv`) and whose manifest lies at the shared path (`SharedInv`): its writer was accepted, and
  what it was made from does not change while it lies there. `ContractKept` is the refinement, `Spec => Promise!Safety`:
  each step is one of the contract's or changes nothing it sees (`StepKinds`, `StepKeepsContract`). It rests on the
  arguments read so far being what `RequestOf` reads (`ReadInv`: what is left begins at a flag), on the files being those
  asked for and all of them known once parsing is over (`FilesInv`), and on the types of a list of files being those of
  its files (`Flattened`).
* **`LspServerProofs`**. `FileIds` and `ForeignCaused`, for all documents, framings and numbers of messages. The
  invariant orders the frames in the input and says that those unread still wait (`FramingInv`), so that
  "failed" is never overwritten; that the tree carries the file id of its own entry (`UnitInv`); and whose diagnostics
  the collector may hold (`OwnersInv`).
  `ReportsComplete`: what is published of a document is the compiler's whole verdict, unless the report
  also shows a foreign error. The gates between the passes ask the collector, not the document; so the invariant
  says what the collector holds of the document at each stage, that a gate passed means no error at all was there,
  and that a closed one saw an error of the document itself or one that the report shows as foreign.
* **`StatementResolutionProofs`**: `HolesAreReported`, `AcceptedValuesFit` and `AcceptedReadsFollow` are the three properties of
  `StatementRuns`, for bodies of any length and nesting, over any types, methods and imports.
  * Of what resolving a value leaves, in any environment, `Resolved` says: a result without a report has only puts that fit and,
    if the environment is `Proper`, only reads that follow their declaration; one that failed, left a node without a meaning
    or has no type was reported, or is one of the named exceptions. There is a lemma for each kind of value; `ResolveUnfolds`
    concludes by depth, and first shows that the recursive function exists (`GoodSolution`). That a failure is
    always reported matters because some callers look at the success of an operand and some do not.
  * Of a statement `Kept` says the same but for success, which nobody looks at (`StatementUnfolds`). What is new is the
    scope of a body: `LocalsAre` says which variables `LocalsOf` collects, `InnerIs` that the environments inside are proper again.
  * An environment is proper when the variables of its innermost scope that are accessible by its index, or by the index
    nobody has set, are declared before it, and those further out are nested less deep. The invariant of the machine, `BodyInv`, is that
    the variables and statements of a body are *in step* (`InStep`): shifted both or neither, so that an index still tells what comes first
    after a super call was put before the body (`ShiftIs`).
* **`ConstantPoolProofs`**, for every tree, order of evaluation and width. `SlotsNeverShared`, `IndicesStable` and
  `TypeCorrectness` ask nothing of the tree. All `goc_*` methods are compositions of `Add`; `AddGood` is proved of it, then
  `NamedGood`, `NameAndTypeGood`, `MemberGood` and `GetOrCreateGood` along the composition.
  * `WrittenReferencesResolve`: each reference of an entry in a class file that is written leads to an entry of the kind
    expected there. `ReferencesLead` says so of any pool within the limit, along the same composition; the invariant `JInv`
    adds that a class file that is written passed the limit (`Counted`): until the builder has counted, the count is still among
    its tasks, and nothing is put into the pool behind it.
  * `LoadsAreTrue`: an instruction whose node remembers an index names that node's constant. `JInv` carries it: every task
    is one a node of the tree asks for (`Tasked`), a node remembers the index of its own constant (`Remembered`), and an
    operand is the remembered index cut to its bytes (`LoadsTrue`). Two nodes must not share a number, or one could read what
    the other remembers: that is where the tree being one is needed.
  * `WalksAgree` (`OnlyHiddenMiss`): the second walk misses only at nodes that the first had no way to or that forget. The
    invariant `KInv` says that there is a set of visited nodes such that what each of them asks for is found or still a task, and
    each child it goes on to is visited or still a task. When the first walk has no tasks left the set is closed under going on,
    so a node that is not in it is hidden. In place of an induction on the tree, `ComesToAll` takes the missed node with
    the least number, whose parent was visited. `AskWalked` compares the two methods of each kind of node.

* **`ConditionBlockProofs`**, for conditions of any depth and statements of any length. `JumpsLandOnInstructions`,
  `BodiesHaveTheirCondition` and `ConditionsShortCircuit` are the three properties of `CondRuns`. Their hypothesis is `AllSound`:
  no condition has a disjunction that is built to jump on true (those are the defect that `CondOr` shows), and the code is
  shorter than half of `JumpSpan`, since the code puts offsets into two bytes unchecked. Every statement of `CondRuns`
  satisfies it.
  * That the compiling functions are what their definitions say is itself to be proved: a recursion over conditions has
    a solution at each depth, and the least depth without one cannot exist (`SolutionsExist`, `RecursionHolds`). Facts
    about all conditions are proved in the same way (`DepthInduction`).
  * `ConditionRuns` is the heart: under each assignment of the leaves, a condition's block run from its start tests the
    leaves that `TestedBy` lists and leaves by its end or by its end and `blockSize`, as `Truths` says. A run is a set of pairs
    (offset, leaves tested) that is closed under the block's own steps (`Runs`). Such sets compose: when the first of two
    blocks ends where the second begins the two sets are joined (`RunsThen`), and where the first one's jump goes over the
    second, the second's set is not needed (`RunsOver`).
  * Of a statement the blocks stand where `Branches`, `WhileBlock` and `ValueBlock` put them (`IfCode`, `WhileCode`,
    `ValueCode`). The invariant `IInv` says where in which of them the machine stands: in the set of the run of the current
    condition, at its body or `goto`, or at the end, and for each of these what was tested and entered before (`IfAt`,
    `WhileAt`, `ValueAt`). `OffsetExact` says that no offset wraps.

Only model-checked, because the prover has no means for it: liveness (`AnswersUnlessCyclicOrColliding`, `EveryRequestDisposed`, the ending in
`KeepsContract`), and what operators compute that recurse over statements, values, tokens or bytes (`MethodCode`,
the parser's modules, `ClassFile`): nothing can be proved about a `RECURSIVE` operator. `ConditionBlock` and `StatementResolution`
show what it takes: recursive functions over a given set of trees, and the least counterexample in place
of induction. The trees of those modules have many more kinds of node, and have not been rewritten. `DeclaredReadsAccepted`
does not hold (3.1).
`TypeOK` of a module documents its types; the ones no run lists hold in the same instances.

## 5. What is not modelled, and why

* The lexer's trie, regular expressions and removal of nikkud: text, character by character. Models begin at its tokens, and
  the file ids it gives out are in `LspServer`.
* The formats of JAR archives and of the jimage: input and output by libraries; what a loader finds is given per class path.
* Wording and printing of messages and warnings, progress logging. Properties are about which error is added, and when.
* `country_verifier.cpp`, which compares a file's country with its directory and reports a difference: a check without state.
* The rounding of numbers, which the code computes in doubles: numbers are exact here.
* Declared interfaces and annotations, which the parser does not build (3.1), and generics, which the code leaves as TODOs.
* Whether an operator suits the types of its operands: the code does not ask, so there is nothing to compare.
* Linkage of the produced classes: the verifier of `MethodCode` sees one method at a time.

## 6. Plan

1. Theorems: `TypeOK` of `SemanticAnalysis` and `LspServer`; of `MethodCode`, rewritten with recursive functions as
   `ConditionBlock` and `StatementResolution` are, that jumps land (`JumpsLand`); of `ClassFile`, that the format is kept.
2. A tokenizer over abstract characters: longest match among keywords, the position each diagnostic is given.
3. A composition of `SemanticAnalysis` and `NameResolution`, in which loading a class in the middle of pass three brings
   in overloads.
