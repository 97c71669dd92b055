--------------------------- MODULE CompileDriver ---------------------------
(***************************************************************************)
(* A run of codeshc from its command line to its exit code (main.cpp,      *)
(* command_parser.cpp, output/jvm_target/jar_bundler.cpp), several of them *)
(* at once on one file system.  What each pass does to a file is in        *)
(* SemanticAnalysis; here a file has at most one fault, found by the stage *)
(* that looks for it.  The server mode is in LspServer.                    *)
(*                                                                         *)
(* The file system is an input, but for what the runs write: the           *)
(* destinations, a directory and a JAR of their own under the temporary    *)
(* directory, and MANIFEST.MF, which they share there.                     *)
(***************************************************************************)
EXTENDS Integers, SequencesExt

CONSTANTS Proc,            \* the runs
          Commands,        \* the command lines the runs may be given
          Kind,            \* what the disk holds, by path; other paths do not exist
          Contents,        \* the files below a directory, with its subdirectories
          SourceFiles,     \* the files with the extension of Codesh sources
          Program,         \* the fault and the types of every source file
          Holds,           \* the classes in every directory or JAR of classes
          Entries,         \* the paths in every value of --classpath
          JarNames,        \* the paths that end with .jar
          Modules, JarTool,\* lib/modules and bin/jar, by JRE
          DefaultJre, DefaultTalmud,
          Before,          \* what is at every destination at first
          Unreliable,      \* the operations of the system that may fail
          NoPath           \* an option that was not given

ASSUME NoPathIsNoRun == NoPath \notin Proc

(* No run is a server; --lsp is in LspServer. *)
ASSUME CompilationsOnly ==
    Commands \subseteq [Proc -> Seq(STRING)]
    /\ \A c \in Commands : \A p \in Proc : "--lsp" \notin ToSet(c[p])

(* Sources are regular files, every file can be parsed, if only to find    *)
(* that it is none, and there is a current directory.                      *)
ASSUME SourcesAreFinite == IsFiniteSet(SourceFiles)
ASSUME DiskAssumption ==
    /\ "." \in DOMAIN Kind /\ Kind["."] = "directory"
    /\ \A path \in DOMAIN Kind : Kind[path] = "directory" => path \notin SourceFiles
    /\ \A path \in DOMAIN Kind : Kind[path] # "directory" => path \in DOMAIN Program
ASSUME ProgramAssumption ==
    \A f \in DOMAIN Program :
        /\ Program[f].fault \in {"none", "parse", "collect", "post_collect", "analyze"}
        /\ Program[f].types \in Seq(ToSet(Program[f].types))

VARIABLES command, phase, arguments, options,
          errors,          \* the collector has errors
          loaders,         \* the class paths that a loader was created for
          files, next,     \* the source files, and the one in turn
          chosen,          \* the main class
          pending,         \* class paths still to be put into a fat JAR
          accepted,        \* the runs that got past the errors
          disk,            \* destinations and the temporary directory
          written          \* history: the classes each run put at its destination

vars == <<command, phase, arguments, options, errors, loaders, files, next, chosen, pending,
          accepted, disk, written>>

Absent == [kind |-> "absent"]
Directory(classes) == [kind |-> "directory", classes |-> classes]
Jar(classes, manifest) == [kind |-> "jar", classes |-> classes, manifest |-> manifest]
Manifest(p, main, classPath) == [by |-> p, main |-> main, classPath |-> classPath]
NoManifest == [by |-> NoPath, main |-> NoPath, classPath |-> {}]

Exists(path) == path \in DOMAIN Kind
IsDirectory(path) == Exists(path) /\ Kind[path] = "directory"
IsJar(path) == Exists(path) /\ Kind[path] = "jar"
IsJimage(path) == Exists(path) /\ Kind[path] = "jimage"

(* Classes by name, with the run that compiled each, or NoPath for one     *)
(* that came from a class path.                                            *)
NoClasses == [c \in {} |-> NoPath]
Put(classes, names, by) == [c \in DOMAIN classes \cup names |-> IF c \in names THEN by ELSE classes[c]]

-----------------------------------------------------------------------------
(* The state of a run *)

DefaultOptions == [src |-> NoPath, dest |-> NoPath, jre |-> NoPath, talmud |-> NoPath,
                   main |-> NoPath, classpaths |-> {}, java |-> TRUE, holy |-> TRUE,
                   fat |-> FALSE, help |-> FALSE]

Running(p) == phase[p] \notin {"success", "failure"}
Goto(p, next_phase) == phase' = [phase EXCEPT ![p] = next_phase]

(* add_blasphemy with is_fatal: everything is printed and the process      *)
(* exits; no destructor of a local runs.  An uncaught exception ends it    *)
(* the same way.                                                           *)
Fatal(p) ==
    /\ Goto(p, "failure")
    /\ errors' = [errors EXCEPT ![p] = TRUE]

Dest(p) == options[p].dest
Project(p) == IsDirectory(options[p].src)
JarOutput(p) == Dest(p) \in JarNames
Types(p) == FlattenSeq([i \in DOMAIN files[p] |-> Program[files[p][i]].types])
MainClasses(p) == SelectSeq(Types(p), LAMBDA t : t.main)

Ignored(path) == path = "." \/ IsJimage(path)
Libraries(p) == {cp \in loaders[p] : ~Ignored(cp)}

-----------------------------------------------------------------------------
(* Command line *)

TakesValue == {"--src", "--dest", "--classpath", "--jre-path", "--talmud-codesh-path", "--main-class"}
Switches == {"--unholy", "--tzadik", "--imashkha-kol-kakh-shmena", "--nikkud", "--help", "-h"}

ValidEntry(path) == IsDirectory(path) \/ IsJar(path)

WithValue(o, flag, value) ==
    CASE flag = "--src"                -> [o EXCEPT !.src = value]
      [] flag = "--dest"               -> [o EXCEPT !.dest = value]
      [] flag = "--jre-path"           -> [o EXCEPT !.jre = value]
      [] flag = "--talmud-codesh-path" -> [o EXCEPT !.talmud = value]
      [] flag = "--main-class"         -> [o EXCEPT !.main = value]
      [] flag = "--classpath"          ->
             [o EXCEPT !.classpaths = @ \cup {path \in Entries[value] : ValidEntry(path)}]

WithSwitch(o, flag) ==
    CASE flag = "--unholy"                    -> [o EXCEPT !.holy = FALSE]
      [] flag = "--tzadik"                    -> [o EXCEPT !.java = FALSE]
      [] flag = "--imashkha-kol-kakh-shmena"  -> [o EXCEPT !.fat = TRUE]
      [] flag \in {"--help", "-h"}            -> [o EXCEPT !.help = TRUE]
      [] flag = "--nikkud"                    -> o

ParseArgument(p) ==
    /\ phase[p] = "arguments"
    /\ arguments[p] # <<>>
    /\ ~options[p].help
    /\ LET flag == Head(arguments[p])
           rest == Tail(arguments[p])
       IN  \/ /\ flag \in TakesValue
              /\ rest # <<>>
              /\ options' = [options EXCEPT ![p] = WithValue(@, flag, Head(rest))]
              /\ errors' = [errors EXCEPT ![p] =
                     @ \/ (flag = "--classpath" /\ \E e \in Entries[Head(rest)] : ~ValidEntry(e))]
              /\ arguments' = [arguments EXCEPT ![p] = Tail(rest)]
              /\ UNCHANGED phase
           \/ /\ flag \in Switches
              /\ options' = [options EXCEPT ![p] = WithSwitch(@, flag)]
              /\ arguments' = [arguments EXCEPT ![p] = rest]
              /\ UNCHANGED <<errors, phase>>
           \/ /\ flag \notin TakesValue \cup Switches \/ (flag \in TakesValue /\ rest = <<>>)
              /\ Fatal(p)
              /\ UNCHANGED <<options, arguments>>
    /\ UNCHANGED <<command, loaders, files, next, chosen, pending, accepted, disk, written>>

OrDefault(path, default) == IF path = NoPath THEN default ELSE path

(* The defaults, validate_jre_path and add_default_classpaths. *)
FinishArguments(p) ==
    /\ phase[p] = "arguments"
    /\ command[p] # <<>>
    /\ arguments[p] = <<>> \/ options[p].help
    /\ LET o == options[p]
           jre == OrDefault(o.jre, DefaultJre)
           talmud == OrDefault(o.talmud, DefaultTalmud)
       IN  /\ options' = [options EXCEPT
                  ![p].jre = jre, ![p].talmud = talmud,
                  ![p].classpaths = @ \cup {"."}
                      \cup (IF o.java THEN {Modules[jre]} ELSE {})
                      \cup (IF o.holy /\ Exists(talmud) THEN {talmud} ELSE {})]
           /\ errors' = [errors EXCEPT ![p] =
                  \/ @
                  \/ (o.java \/ JarOutput(p)) /\ ~Exists(jre)
                  \/ o.holy /\ ~Exists(talmud)]
    /\ Goto(p, "start")
    /\ UNCHANGED <<command, arguments, loaders, files, next, chosen, pending, accepted, disk, written>>

(* No arguments at all ask for help, before anything is validated. *)
NoArguments(p) ==
    /\ phase[p] = "arguments"
    /\ command[p] = <<>>
    /\ options' = [options EXCEPT ![p] = [@ EXCEPT !.help = TRUE, !.java = FALSE, !.holy = FALSE]]
    /\ Goto(p, "start")
    /\ UNCHANGED <<command, arguments, errors, loaders, files, next, chosen, pending, accepted, disk, written>>

HasLoader(path) == IsDirectory(path) \/ IsJimage(path) \/ IsJar(path)

(* main: errors of the command line, class loaders, help. *)
Start(p) ==
    /\ phase[p] = "start"
    /\ \/ /\ errors[p]
          /\ Goto(p, "failure")
          /\ UNCHANGED loaders
       \/ /\ ~errors[p]
          /\ loaders' = [loaders EXCEPT ![p] = {cp \in options[p].classpaths : HasLoader(cp)}]
          /\ Goto(p, IF options[p].help THEN "success" ELSE "inputs")
    /\ UNCHANGED <<command, arguments, options, errors, files, next, chosen, pending, accepted, disk, written>>

-----------------------------------------------------------------------------
(* From the sources to the verdict *)

(* collect_source_files: every source below the directory, in the order    *)
(* the directories are listed; a single file whatever its extension.       *)
SourcesOf(path) ==
    IF IsDirectory(path) THEN SetToSeqs(Contents[path] \cap SourceFiles) ELSE {<<path>>}

CollectSources(p) ==
    /\ phase[p] = "inputs"
    /\ \/ /\ options[p].src = NoPath \/ options[p].dest = NoPath
          /\ Fatal(p)
          /\ UNCHANGED files
       \/ /\ options[p].src # NoPath /\ options[p].dest # NoPath
          /\ \E order \in SourcesOf(options[p].src) : files' = [files EXCEPT ![p] = order]
          /\ Goto(p, "parse")
          /\ UNCHANGED errors
    /\ UNCHANGED <<command, arguments, options, loaders, next, chosen, pending, accepted, disk, written>>

Fault(p) == Program[files[p][next[p]]].fault

(* parse_source_files: one file.  A file that cannot be opened is fatal.   *)
ParseFile(p) ==
    /\ phase[p] = "parse"
    /\ next[p] <= Len(files[p])
    /\ \/ /\ ~Exists(files[p][next[p]])
          /\ Fatal(p)
          /\ UNCHANGED next
       \/ /\ Exists(files[p][next[p]])
          /\ errors' = [errors EXCEPT ![p] = @ \/ Fault(p) = "parse"]
          /\ next' = [next EXCEPT ![p] = @ + 1]
          /\ UNCHANGED phase
    /\ UNCHANGED <<command, arguments, options, loaders, files, chosen, pending, accepted, disk, written>>

(* analyze_asts: collect, post_collect or analyze one file. *)
Passes == <<"collect", "post_collect", "analyze">>

AnalyzeFile(p) ==
    /\ phase[p] \in ToSet(Passes)
    /\ next[p] <= Len(files[p])
    /\ errors' = [errors EXCEPT ![p] = @ \/ Fault(p) = phase[p]]
    /\ next' = [next EXCEPT ![p] = @ + 1]
    /\ UNCHANGED <<command, phase, arguments, options, loaders, files, chosen, pending, accepted, disk, written>>

(* Mutant: the third pass is left out. *)
PassAfterTwo(pass) == CASE pass = "parse"        -> "collect"
                        [] pass = "collect"      -> "post_collect"
                        [] pass = "post_collect" -> "verdict"

PassAfter(pass) == CASE pass = "parse"        -> "collect"
                     [] pass = "collect"      -> "post_collect"
                     [] pass = "post_collect" -> "analyze"
                     [] pass = "analyze"      -> "verdict"

(* Errors of parsing do not keep the first pass from running. *)
NextPass(p) ==
    /\ phase[p] \in {"parse"} \cup ToSet(Passes)
    /\ next[p] > Len(files[p])
    /\ next' = [next EXCEPT ![p] = 1]
    /\ Goto(p, IF errors[p] /\ phase[p] # "parse" THEN "verdict" ELSE PassAfter(phase[p]))
    /\ UNCHANGED <<command, arguments, options, errors, loaders, files, chosen, pending, accepted, disk, written>>

Rejected(p) == errors[p]

(* Print what was collected; stop at errors; else prepare the output: a    *)
(* temporary directory for a JAR, and for the class files of a directory   *)
(* of sources, a destination that is a directory.                          *)
Judge(p) ==
    /\ phase[p] = "verdict"
    /\ \/ /\ Rejected(p)
          /\ Goto(p, "failure")
          /\ UNCHANGED <<errors, accepted, disk>>
       \/ /\ ~Rejected(p)
          /\ ~JarOutput(p) /\ Project(p) /\ disk.artifact[Dest(p)].kind # "directory"
          /\ Fatal(p)
          /\ UNCHANGED <<accepted, disk>>
       \/ /\ ~Rejected(p)
          /\ JarOutput(p) \/ ~Project(p) \/ disk.artifact[Dest(p)].kind = "directory"
          /\ accepted' = accepted \cup {p}
          /\ disk' = IF JarOutput(p) THEN [disk EXCEPT !.temp[p] = Directory(NoClasses)] ELSE disk
          /\ Goto(p, "build")
          /\ UNCHANGED errors
    /\ UNCHANGED <<command, arguments, options, loaders, files, next, chosen, pending, written>>

-----------------------------------------------------------------------------
(* Class files *)

Store(p, name) ==
    IF JarOutput(p)
    THEN disk' = [disk EXCEPT !.temp[p].classes = Put(@, {name}, p)]
    ELSE disk' = [disk EXCEPT !.artifact[Dest(p)] =
                      Directory(Put(IF @.kind = "directory" THEN @.classes ELSE NoClasses, {name}, p))]

(* get_output_path, class_file_builder, write_to_file for one type: the    *)
(* method or the pool may be too big, the directory or the file may not be *)
(* writable; the class files before it stay.                               *)
BuildClass(p) ==
    /\ phase[p] = "build"
    /\ next[p] <= Len(Types(p))
    /\ LET t == Types(p)[next[p]]
       IN  \/ /\ ~t.big
              /\ JarOutput(p) \/ disk.artifact[Dest(p)].kind # "jar"
              /\ Store(p, t.name)
              /\ written' = IF JarOutput(p) THEN written
                            ELSE [written EXCEPT ![p] = @ \cup {t.name}]
              /\ next' = [next EXCEPT ![p] = @ + 1]
              /\ UNCHANGED <<phase, errors>>
           \/ /\ \/ t.big
                 \/ ~JarOutput(p) /\ disk.artifact[Dest(p)].kind = "jar"
                 \/ "write" \in Unreliable
              /\ Fatal(p)
              /\ UNCHANGED <<disk, written, next>>
    /\ UNCHANGED <<command, arguments, options, loaders, files, chosen, pending, accepted>>

Built(p) == next[p] > Len(Types(p))

FinishClassFiles(p) ==
    /\ phase[p] = "build"
    /\ ~JarOutput(p)
    /\ Built(p)
    /\ Goto(p, "success")
    /\ UNCHANGED <<command, arguments, options, errors, loaders, files, next, chosen, pending, accepted, disk, written>>

-----------------------------------------------------------------------------
(* The JAR *)

(* Mutant: the libraries are put into every JAR. *)
EmbeddedAlways(p) == Libraries(p)

Embedded(p) == IF options[p].fat THEN Libraries(p) ELSE {}

(* get_main_class_by_name, or get_main_class when none was asked for.  The *)
(* first of several main classes is fatal, so the others are not reported. *)
ChooseMain(p) ==
    LET mains == MainClasses(p)
        asked == options[p].main
    IN  /\ phase[p] = "build"
        /\ JarOutput(p)
        /\ next[p] > Len(Types(p))
        /\ \/ /\ \/ asked # NoPath /\ asked \notin {t.name : t \in ToSet(mains)}
                 \/ asked = NoPath /\ Len(mains) > 1
                 \/ ~Exists(JarTool[options[p].jre])
              /\ Fatal(p)
              /\ UNCHANGED <<chosen, pending>>
           \/ /\ asked # NoPath => asked \in {t.name : t \in ToSet(mains)}
              /\ asked = NoPath => Len(mains) <= 1
              /\ Exists(JarTool[options[p].jre])
              /\ chosen' = [chosen EXCEPT ![p] = IF asked = NoPath /\ mains # <<>> THEN mains[1].name ELSE asked]
              /\ pending' = [pending EXCEPT ![p] = Embedded(p)]
              /\ Goto(p, "embed")
              /\ UNCHANGED errors
        /\ UNCHANGED <<command, arguments, options, loaders, files, next, accepted, disk, written>>

(* add_classpaths_to_dir, one class path of an unordered map: its classes  *)
(* overwrite those already in the directory.                               *)
EmbedClasspath(p) ==
    /\ phase[p] = "embed"
    /\ \E cp \in pending[p] :
          /\ pending' = [pending EXCEPT ![p] = @ \ {cp}]
          /\ \/ /\ disk' = [disk EXCEPT !.temp[p].classes = Put(@, Holds[cp], NoPath)]
                /\ UNCHANGED <<phase, errors>>
             \/ /\ "embed" \in Unreliable
                /\ Fatal(p)
                /\ UNCHANGED disk
    /\ UNCHANGED <<command, arguments, options, loaders, files, next, chosen, accepted, written>>

ClassPath(p) == Libraries(p)

HasManifest(p) == ~options[p].fat /\ (chosen[p] # NoPath \/ loaders[p] # {})

(* write_manifest, next to the temporary directory and not in it. *)
WriteManifest(p) ==
    /\ phase[p] = "embed"
    /\ pending[p] = {}
    /\ disk' = IF HasManifest(p)
               THEN [disk EXCEPT !.manifest = Manifest(p, chosen[p], ClassPath(p))]
               ELSE disk
    /\ Goto(p, "bundle")
    /\ UNCHANGED <<command, arguments, options, errors, loaders, files, next, chosen, pending, accepted, written>>

(* The jar command: it fails without the manifest it was given. *)
RunJar(p) ==
    /\ phase[p] = "bundle"
    /\ \/ /\ HasManifest(p) => disk.manifest # NoManifest
          /\ disk' = [disk EXCEPT !.jar[p] =
                 Jar(disk.temp[p].classes, IF HasManifest(p) THEN disk.manifest ELSE NoManifest)]
       \/ /\ (HasManifest(p) /\ disk.manifest = NoManifest) \/ "jar" \in Unreliable
          /\ UNCHANGED disk
    /\ Goto(p, "bundled")
    /\ UNCHANGED <<command, arguments, options, errors, loaders, files, next, chosen, pending, accepted, written>>

(* Remove the manifest, whoever wrote it; then the exit code is looked at. *)
RemoveManifest(p) ==
    /\ phase[p] = "bundled"
    /\ disk' = IF HasManifest(p) THEN [disk EXCEPT !.manifest = NoManifest] ELSE disk
    /\ \/ /\ disk.jar[p] = Absent
          /\ Fatal(p)
       \/ /\ disk.jar[p] # Absent
          /\ Goto(p, "remove")
          /\ UNCHANGED errors
    /\ UNCHANGED <<command, arguments, options, loaders, files, next, chosen, pending, accepted, written>>

(* move_jar_to_dest: what is at the destination is removed first; errors   *)
(* are ignored, and a directory with something in it stays.                *)
Removable(a) == a.kind = "jar" \/ (a.kind = "directory" /\ a.classes = NoClasses)

RemoveOld(p) ==
    /\ phase[p] = "remove"
    /\ disk' = IF Removable(disk.artifact[Dest(p)])
               THEN [disk EXCEPT !.artifact[Dest(p)] = Absent] ELSE disk
    /\ Goto(p, "move")
    /\ UNCHANGED <<command, arguments, options, errors, loaders, files, next, chosen, pending, accepted, written>>

Delivered(p, jar) ==
    /\ disk' = [disk EXCEPT !.artifact[Dest(p)] = disk.jar[p], !.jar[p] = jar]
    /\ written' = [written EXCEPT ![p] = {t.name : t \in ToSet(Types(p))} \cap DOMAIN disk.jar[p].classes]
    /\ Goto(p, "cleanup")
    /\ UNCHANGED errors

(* Mutant: the copy leaves its source behind. *)
CopiedKept(p) == Delivered(p, disk.jar[p])

Renamed(p) == Delivered(p, Absent)
Copied(p) == Delivered(p, Absent)

MoveJar(p) ==
    /\ phase[p] = "move"
    /\ \/ /\ disk.artifact[Dest(p)].kind # "directory"
          /\ Renamed(p)
       \/ /\ "rename" \in Unreliable
          /\ disk.artifact[Dest(p)].kind # "directory"
          /\ Copied(p)
       \/ /\ "copy" \in Unreliable \/ disk.artifact[Dest(p)].kind = "directory"
          /\ Fatal(p)
          /\ UNCHANGED <<disk, written>>
    /\ UNCHANGED <<command, arguments, options, loaders, files, next, chosen, pending, accepted>>

(* The destructor of temp_dir_cleanup_guard. *)
WithoutTemp(p) == [disk EXCEPT !.temp[p] = Absent]

Cleanup(p) ==
    /\ phase[p] = "cleanup"
    /\ disk' = WithoutTemp(p)
    /\ Goto(p, "success")
    /\ UNCHANGED <<command, arguments, options, errors, loaders, files, next, chosen, pending, accepted, written>>

-----------------------------------------------------------------------------
Init ==
    /\ command \in Commands
    /\ phase = [p \in Proc |-> "arguments"]
    /\ arguments = command
    /\ options = [p \in Proc |-> DefaultOptions]
    /\ errors = [p \in Proc |-> FALSE]
    /\ loaders = [p \in Proc |-> {}]
    /\ files = [p \in Proc |-> <<>>]
    /\ next = [p \in Proc |-> 1]
    /\ chosen = [p \in Proc |-> NoPath]
    /\ pending = [p \in Proc |-> {}]
    /\ accepted = {}
    /\ disk = [artifact |-> Before, temp |-> [p \in Proc |-> Absent],
               jar |-> [p \in Proc |-> Absent], manifest |-> NoManifest]
    /\ written = [p \in Proc |-> {}]

Compile(p) == CollectSources(p) \/ ParseFile(p) \/ AnalyzeFile(p) \/ NextPass(p) \/ Judge(p)

Bundle(p) ==
    \/ ChooseMain(p) \/ EmbedClasspath(p) \/ WriteManifest(p) \/ RunJar(p) \/ RemoveManifest(p)
    \/ RemoveOld(p) \/ MoveJar(p) \/ Cleanup(p)

Step(p) ==
    \/ ParseArgument(p) \/ FinishArguments(p) \/ NoArguments(p) \/ Start(p)
    \/ Compile(p)
    \/ BuildClass(p) \/ FinishClassFiles(p)
    \/ Bundle(p)

Done == (\A p \in Proc : ~Running(p)) /\ UNCHANGED vars

Next == (\E p \in Proc : Step(p)) \/ Done

(* A run is a process: the system goes on running each of them. *)
Spec == Init /\ [][Next]_vars /\ \A p \in Proc : WF_vars(Step(p))

-----------------------------------------------------------------------------
(* Properties *)

(* What a command line asks for, read off it at once.  An argument is a    *)
(* flag unless it is the value of the flag before it: of a run of words    *)
(* that take values, every other one is a flag.                            *)
EvenRun(c, first, i) ==
    /\ first = 1 \/ c[first - 1] \notin TakesValue
    /\ \A j \in first..(i - 1) : c[j] \in TakesValue
    /\ (i - first) % 2 = 0
Flags(c) == {i \in DOMAIN c : \E first \in 1..i : EvenRun(c, first, i)}

(* The files to compile are those of the value after the last --src.       *)
SourceFlags(c) == {i \in Flags(c) : c[i] = "--src" /\ i < Len(c)}
FilesOf(path) == IF IsDirectory(path) THEN Contents[path] \cap SourceFiles ELSE {path}
Sources(c) == UNION {FilesOf(c[i + 1]) : i \in {i \in SourceFlags(c) : \A j \in SourceFlags(c) : j <= i}}

RequestOf(c) ==
    [wanted |-> UNION {{t.name : t \in ToSet(Program[f].types)} : f \in Sources(c) \cap DOMAIN Program},
     clean |-> \A f \in Sources(c) : f \in DOMAIN Program /\ Program[f].fault = "none",
     help |-> c = <<>> \/ \E i \in Flags(c) : c[i] \in {"--help", "-h"}]

Promise == INSTANCE CompilerContract WITH
    Class <- UNION {{t.name : t \in ToSet(Program[f].types)} : f \in DOMAIN Program},
    request <- [p \in Proc |-> RequestOf(command[p])],
    delivered <- written,
    outcome <- [p \in Proc |-> IF Running(p) THEN "running" ELSE phase[p]]

(* The driver keeps the promises of CompilerContract: a program with an    *)
(* error at any stage never reaches its destination (main.cpp:197), an     *)
(* exit code of success means that every class does, and every run ends.   *)
KeepsContract == Promise!Spec

(* A run that succeeds leaves neither its directory nor its JAR under the  *)
(* temporary directory, and no run that ended left the manifest it wrote.  *)
CleanExit ==
    \A p \in Proc :
       /\ phase[p] = "success" => disk.temp[p] = Absent /\ disk.jar[p] = Absent
       /\ ~Running(p) => disk.manifest.by # p

(* A JAR is made of what its run compiled and was given.  Without the      *)
(* libraries in it, it names its own main class and all its libraries,     *)
(* unless the manifest that another run wrote to the shared path got into  *)
(* it; and only in a fat one is a class of the program replaced by one of  *)
(* the same name from a class path (jar_bundler.cpp:355 overwrites).       *)
JarIsOwn ==
    \A p \in Proc :
       LET jar == disk.jar[p]
       IN  jar # Absent =>
              /\ ~options[p].fat =>
                    \/ jar.manifest = Manifest(p, chosen[p], Libraries(p))
                    \/ jar.manifest.by \in (Proc \ {p}) \cap accepted
              /\ \A t \in ToSet(Types(p)) :
                    \/ jar.classes[t.name] = p
                    \/ options[p].fat /\ \E cp \in Libraries(p) : t.name \in Holds[cp]
=============================================================================
