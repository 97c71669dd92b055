-------------------------- MODULE MCCompileDriver --------------------------
(* Runs of the compiler on a small disk: two JREs of which one has no jar  *)
(* tool, a library that has a class with the name of one of the program's, *)
(* and sources of every fault.                                             *)
EXTENDS CompileDriver, TLC

CONSTANTS p1, p2, none

Type(name, main, big) == [name |-> name, main |-> main, big |-> big]
File(fault, types) == [fault |-> fault, types |-> types]
NoSource == File("parse", <<>>)

MCProgram ==
    [good1 |-> File("none", <<Type("A", TRUE, FALSE)>>),
     good2 |-> File("none", <<Type("B", FALSE, FALSE)>>),
     main2 |-> File("none", <<Type("C", TRUE, FALSE)>>),
     huge |-> File("none", <<Type("D", FALSE, TRUE)>>),
     syntax |-> File("parse", <<Type("E", FALSE, FALSE)>>),
     twice |-> File("collect", <<Type("A", FALSE, FALSE)>>),
     untyped |-> File("post_collect", <<Type("F", FALSE, FALSE)>>),
     wrong |-> File("analyze", <<Type("G", FALSE, FALSE)>>),
     notes |-> File("none", <<>>),
     talmud |-> NoSource, modules |-> NoSource, jartool |-> NoSource]

MCContents ==
    [proj |-> {"good1", "good2", "notes"}, mains |-> {"good1", "main2"}, large |-> {"good2", "huge"},
     faulty |-> {"good1", "wrong"}, broken |-> {"syntax", "twice"}, empty |-> {"notes"}]

MCKind ==
    [proj |-> "directory", mains |-> "directory", large |-> "directory", faulty |-> "directory",
     broken |-> "directory", empty |-> "directory", lib |-> "directory",
     good1 |-> "file", good2 |-> "file", main2 |-> "file", huge |-> "file", syntax |-> "file",
     twice |-> "file", untyped |-> "file", wrong |-> "file", notes |-> "file",
     talmud |-> "jar", modules |-> "jimage", jartool |-> "file", jre |-> "directory", jrelite |-> "directory"]
    @@ ("." :> "directory")

MCSourceFiles == DOMAIN MCProgram \ {"notes", "talmud", "modules", "jartool"}

MCHolds == [lib |-> {"A", "L"}, talmud |-> {"M"}]
MCEntries == [lib |-> {"lib"}, both |-> {"lib", "nowhere"}]
MCModules == [jre |-> "modules", jrelite |-> "nomodules", nojre |-> "nomodules"]
MCJarTool == [jre |-> "jartool", jrelite |-> "nojartool", nojre |-> "nojartool"]

Old == [c \in {"X"} |-> none]
MCBefore == [out |-> Directory(Old), fresh |-> Absent, app |-> Jar(Old, NoManifest), busy |-> Directory(Old)]
MCJarNames == {"app", "busy"}

To(src, dest) == <<"--src", src, "--dest", dest>>
Lib == <<"--classpath", "lib">>
Fat == <<"--imashkha-kol-kakh-shmena">>

Everything ==
    {<<>>, <<"-h">>, <<"--help", "--bogus">>, <<"--bogus">>, <<"--src">>, To("proj", "out") \o <<"--help">>,
     <<"--src", "proj">>, <<"--dest", "out">>, To("talmud", "out"), To("--src", "fresh"),
     To("wrong", "fresh") \o <<"--src", "good1", "--main-class", "--help">>,
     To("proj", "out"), To("good1", "fresh") \o <<"--nikkud">>, To("proj", "fresh"), To("good1", "app") \o Lib,
     To("good1", "busy"), To("nowhere", "out"), To("empty", "out"), To("large", "out"), To("large", "app"),
     To("broken", "app"), To("untyped", "app"), To("faulty", "app"), To("faulty", "out"), To("twice", "fresh"),
     To("proj", "app") \o Lib \o Fat, To("proj", "app") \o <<"--classpath", "both">>,
     To("mains", "app"), To("mains", "app") \o <<"--main-class", "C">>, To("mains", "app") \o <<"--main-class", "B">>,
     To("mains", "app") \o <<"--main-class", "C">> \o Fat,
     To("proj", "app") \o <<"--jre-path", "jrelite">>, To("proj", "out") \o <<"--jre-path", "nojre">>,
     To("good1", "fresh") \o <<"--tzadik", "--unholy", "--jre-path", "nojre", "--talmud-codesh-path", "nowhere">>,
     To("good1", "fresh") \o <<"--talmud-codesh-path", "nowhere">>}

(* A run of each kind beside one that does nothing, and bundling runs      *)
(* beside one another.                                                     *)
Bundling ==
    {To("good1", "app") \o Lib, To("proj", "app") \o Lib \o Fat, To("large", "app"), To("empty", "app"),
     To("mains", "app") \o <<"--main-class", "C">>, To("faulty", "app"), To("proj", "out")}

Pair(a, b) == p1 :> a @@ p2 :> b
MCCommands ==
    {Pair(c, <<>>) : c \in Everything}
    \cup {Pair(a, b) : a \in Bundling, b \in {To("main2", "app"), To("good2", "app") \o Fat}}

MCUnreliable == {"write", "embed", "jar", "rename", "copy"}
=============================================================================
