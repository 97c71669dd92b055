------------------------ MODULE CompileDriverProofs ------------------------
(***************************************************************************)
(* What a run leaves behind, what the gates between the passes hold back,  *)
(* what is in a JAR, and that every step of a run keeps CompilerContract:  *)
(* for any number of runs on one disk, any command lines, any sources and  *)
(* whichever operations of the system fail.                                *)
(***************************************************************************)
EXTENDS CompileDriver, FiniteSetTheorems, WellFoundedInduction, NaturalsInduction, TLAPS

(* Every run has its own place in every part of the state. *)
Given == command \in [Proc -> Seq(STRING)] /\ accepted \subseteq Proc
Shape ==
    /\ DOMAIN phase = Proc /\ DOMAIN options = Proc /\ DOMAIN errors = Proc
    /\ DOMAIN loaders = Proc /\ DOMAIN chosen = Proc
    /\ DOMAIN arguments = Proc /\ DOMAIN pending = Proc
    /\ DOMAIN files = Proc /\ DOMAIN next = Proc /\ DOMAIN written = Proc
    /\ DOMAIN disk = {"artifact", "temp", "jar", "manifest"}
    /\ DOMAIN disk.temp = Proc /\ DOMAIN disk.jar = Proc
    /\ Given

(* The JAR is no longer where it was made. *)
LEMMA MovedAway ==
    ASSUME Shape, NEW p \in Proc, Delivered(p, Absent)
    PROVE  /\ disk'.temp = disk.temp /\ disk'.manifest = disk.manifest
           /\ disk'.jar = [disk.jar EXCEPT ![p] = Absent] /\ DOMAIN disk' = DOMAIN disk
           /\ phase' = [phase EXCEPT ![p] = "cleanup"] /\ UNCHANGED errors
           /\ DOMAIN written' = Proc /\ \A q \in Proc \ {p} : written'[q] = written[q]
<1> DEFINE moved == [disk EXCEPT !.artifact[Dest(p)] = disk.jar[p]]
<1>1. /\ moved.temp = disk.temp /\ moved.manifest = disk.manifest /\ moved.jar = disk.jar
      /\ DOMAIN moved = DOMAIN disk
  BY DEF Shape
<1>2. disk' = [moved EXCEPT !.jar[p] = Absent]
  BY DEF Delivered
<1> HIDE DEF moved
<1> QED
  BY <1>1, <1>2 DEF Delivered, Goto, Shape

LEMMA ShapeKept ==
    ASSUME Shape, NEW p \in Proc, Step(p)
    PROVE  Shape'
<1>0. Given'
  <2>1. command' = command /\ accepted' \subseteq accepted \cup {p}
    BY DEF Step, Compile, Bundle, ParseArgument, FinishArguments, NoArguments, Start, CollectSources, ParseFile,
           AnalyzeFile, NextPass, Judge, BuildClass, FinishClassFiles, ChooseMain, EmbedClasspath,
           WriteManifest, RunJar, RemoveManifest, RemoveOld, MoveJar, Cleanup
  <2> QED
    BY <2>1 DEF Shape, Given
<1> USE <1>0
<1>1. CASE ParseArgument(p)
  BY <1>1 DEF ParseArgument, Shape, Fatal, Goto
<1>2. CASE FinishArguments(p) \/ NoArguments(p) \/ Start(p)
  BY <1>2 DEF FinishArguments, NoArguments, Start, Shape, Goto
<1>3. CASE CollectSources(p) \/ ParseFile(p) \/ AnalyzeFile(p) \/ NextPass(p)
  BY <1>3 DEF CollectSources, ParseFile, AnalyzeFile, NextPass, Shape, Fatal, Goto
<1>4. CASE Judge(p)
  BY <1>4 DEF Judge, Shape, Fatal, Goto
<1>5. CASE BuildClass(p)
  <2>1. UNCHANGED <<command, arguments, options, loaders, files, chosen, pending, accepted>>
    BY <1>5 DEF BuildClass
  <2>2. DOMAIN phase' = Proc /\ DOMAIN errors' = Proc /\ DOMAIN next' = Proc /\ DOMAIN written' = Proc
    BY <1>5 DEF BuildClass, Shape, Fatal, Goto
  <2>3. /\ DOMAIN disk' = DOMAIN disk /\ DOMAIN disk'.temp = DOMAIN disk.temp /\ disk'.jar = disk.jar
    BY <1>5 DEF BuildClass, Store, Shape
  <2> QED
    BY <2>1, <2>2, <2>3 DEF Shape
<1>6. CASE FinishClassFiles(p) \/ ChooseMain(p) \/ EmbedClasspath(p) \/ WriteManifest(p) \/ RunJar(p)
  BY <1>6 DEF FinishClassFiles, ChooseMain, EmbedClasspath, WriteManifest, RunJar, Shape, Fatal, Goto
<1>8. CASE RemoveManifest(p)
  BY <1>8 DEF RemoveManifest, Shape, Fatal, Goto
<1>9. CASE RemoveOld(p) \/ Cleanup(p)
  BY <1>9 DEF RemoveOld, Cleanup, WithoutTemp, Shape, Fatal, Goto
<1>7. CASE MoveJar(p)
  <2>1. UNCHANGED <<command, arguments, options, loaders, files, next, chosen, pending, accepted>>
    BY <1>7 DEF MoveJar
  <2>2. CASE Delivered(p, Absent)
    BY <2>1, <2>2, MovedAway DEF Shape
  <2>3. CASE Fatal(p) /\ UNCHANGED <<disk, written>>
    BY <2>1, <2>3 DEF Shape, Fatal, Goto
  <2> QED
    BY <1>7, <2>2, <2>3 DEF MoveJar, Renamed, Copied
<1> QED
  BY <1>1, <1>2, <1>3, <1>4, <1>5, <1>6, <1>7, <1>8, <1>9 DEF Step, Compile, Bundle

(* A step of one run leaves the others where they are: of the disk they    *)
(* share the destinations and the manifest only.                           *)
LEMMA OthersKept ==
    ASSUME Shape, NEW p \in Proc, Step(p), NEW q \in Proc, q # p
    PROVE  /\ phase'[q] = phase[q] /\ options'[q] = options[q] /\ errors'[q] = errors[q]
           /\ loaders'[q] = loaders[q] /\ chosen'[q] = chosen[q]
           /\ files'[q] = files[q] /\ next'[q] = next[q]
           /\ disk'.temp[q] = disk.temp[q] /\ disk'.jar[q] = disk.jar[q]
           /\ written'[q] = written[q] /\ (q \in accepted' <=> q \in accepted)
           /\ arguments'[q] = arguments[q] /\ pending'[q] = pending[q] /\ command' = command
<1>1. CASE ParseArgument(p)
  BY <1>1 DEF ParseArgument, Shape, Fatal, Goto
<1>2. CASE FinishArguments(p) \/ NoArguments(p) \/ Start(p)
  BY <1>2 DEF FinishArguments, NoArguments, Start, Shape, Goto
<1>3. CASE CollectSources(p) \/ ParseFile(p) \/ AnalyzeFile(p) \/ NextPass(p)
  BY <1>3 DEF CollectSources, ParseFile, AnalyzeFile, NextPass, Shape, Fatal, Goto
<1>4. CASE Judge(p)
  <2>1. UNCHANGED <<command, arguments, options, loaders, files, next, chosen, pending, written>>
    BY <1>4 DEF Judge
  <2>2. phase'[q] = phase[q] /\ errors'[q] = errors[q] /\ (q \in accepted' <=> q \in accepted)
    BY <1>4 DEF Judge, Shape, Fatal, Goto
  <2>3. disk'.temp[q] = disk.temp[q] /\ disk'.jar = disk.jar
    BY <1>4 DEF Judge, Shape
  <2> QED
    BY <2>1, <2>2, <2>3
<1>5. CASE BuildClass(p)
  <2>1. UNCHANGED <<command, arguments, options, loaders, files, chosen, pending, accepted>>
    BY <1>5 DEF BuildClass
  <2>2. phase'[q] = phase[q] /\ errors'[q] = errors[q] /\ next'[q] = next[q] /\ written'[q] = written[q]
    BY <1>5 DEF BuildClass, Shape, Fatal, Goto
  <2>3. disk'.temp[q] = disk.temp[q] /\ disk'.jar = disk.jar
    BY <1>5 DEF BuildClass, Store, Shape
  <2> QED
    BY <2>1, <2>2, <2>3
<1>6. CASE FinishClassFiles(p) \/ ChooseMain(p) \/ EmbedClasspath(p)
  BY <1>6 DEF FinishClassFiles, ChooseMain, EmbedClasspath, Shape, Fatal, Goto
<1>11. CASE WriteManifest(p) \/ RunJar(p)
  BY <1>11 DEF WriteManifest, RunJar, Shape, Goto
<1>9. CASE RemoveManifest(p)
  BY <1>9 DEF RemoveManifest, Shape, Fatal, Goto
<1>10. CASE Cleanup(p)
  BY <1>10 DEF Cleanup, WithoutTemp, Shape, Goto
<1>7. CASE RemoveOld(p)
  BY <1>7 DEF RemoveOld, Shape, Goto
<1>8. CASE MoveJar(p)
  <2>1. UNCHANGED <<command, arguments, options, loaders, files, next, chosen, pending, accepted>>
    BY <1>8 DEF MoveJar
  <2>2. CASE Delivered(p, Absent)
    BY <2>1, <2>2, MovedAway DEF Shape
  <2>3. CASE Fatal(p) /\ UNCHANGED <<disk, written>>
    BY <2>1, <2>3 DEF Shape, Fatal, Goto
  <2> QED
    BY <1>8, <2>2, <2>3 DEF MoveJar, Renamed, Copied
<1> QED
  BY <1>1, <1>2, <1>3, <1>4, <1>5, <1>6, <1>7, <1>8, <1>9, <1>10, <1>11 DEF Step, Compile, Bundle

-----------------------------------------------------------------------------
(* The temporary directory *)

(* Where a run stands that still has its directory, its JAR or its         *)
(* manifest under the temporary directory.                                 *)
HasTemp(p) == /\ phase[p] \in {"build", "embed", "bundle", "bundled", "remove", "move", "cleanup", "failure"}
              /\ phase[p] = "build" => JarOutput(p)
TempInv(p) ==
    /\ disk.temp[p] # Absent => HasTemp(p)
    /\ disk.jar[p] # Absent => phase[p] \in {"bundled", "remove", "move", "failure"}
    /\ disk.manifest.by = p => phase[p] \in {"bundle", "bundled"} /\ HasManifest(p)

(* The run itself: its manifest is removed for the same reason that it was *)
(* written for, as options, main class and loaders are settled by then.    *)
LEMMA OwnTemp ==
    ASSUME Shape, NEW p \in Proc, TempInv(p), Step(p)
    PROVE  TempInv(p)'
<1> USE DEF TempInv, HasTemp, Shape
<1>0. NoManifest.by # p
  BY NoPathIsNoRun DEF NoManifest
<1>1. CASE ParseArgument(p)
  BY <1>1 DEF ParseArgument, Fatal, Goto
<1>2. CASE FinishArguments(p) \/ NoArguments(p) \/ Start(p)
  BY <1>2 DEF FinishArguments, NoArguments, Start, Goto
<1>3. CASE CollectSources(p) \/ ParseFile(p) \/ AnalyzeFile(p) \/ NextPass(p)
  BY <1>3 DEF CollectSources, ParseFile, AnalyzeFile, NextPass, Passes, ToSet, PassAfter, Fatal, Goto
<1>4. CASE Judge(p)
  BY <1>4 DEF Judge, JarOutput, Dest, Fatal, Goto
<1>5. CASE BuildClass(p)
  <2>1. /\ phase[p] = "build" /\ phase'[p] \in {"build", "failure"} /\ options' = options
        /\ disk'.jar = disk.jar /\ disk'.manifest = disk.manifest
    BY <1>5 DEF BuildClass, Store, Fatal, Goto
  <2>2. disk'.temp[p] # Absent => disk.temp[p] # Absent \/ JarOutput(p)
    BY <1>5 DEF BuildClass, Store
  <2> QED
    BY <2>1, <2>2 DEF JarOutput, Dest
<1>6. CASE FinishClassFiles(p) \/ ChooseMain(p) \/ EmbedClasspath(p)
  BY <1>6 DEF FinishClassFiles, ChooseMain, EmbedClasspath, JarOutput, Dest, Fatal, Goto
<1>7. CASE WriteManifest(p) \/ RunJar(p) \/ RemoveManifest(p)
  BY <1>0, <1>7 DEF WriteManifest, RunJar, RemoveManifest, HasManifest, Manifest, Fatal, Goto
<1>8. CASE RemoveOld(p)
  BY <1>8 DEF RemoveOld, Goto
<1>9. CASE MoveJar(p)
  BY <1>9, MovedAway DEF MoveJar, Renamed, Copied, Fatal, Goto
<1>10. CASE Cleanup(p)
  BY <1>10 DEF Cleanup, WithoutTemp, Goto
<1> QED
  BY <1>1, <1>2, <1>3, <1>4, <1>5, <1>6, <1>7, <1>8, <1>9, <1>10 DEF Step, Compile, Bundle

(* Another run: it overwrites or removes the manifest, never writes one in *)
(* the name of this run.                                                   *)
LEMMA ManifestOfOthers ==
    ASSUME Shape, NEW p \in Proc, Step(p), NEW q \in Proc, q # p, disk'.manifest.by = q
    PROVE  disk'.manifest = disk.manifest
<1> USE DEF Shape
<1>0. NoManifest.by # q
  BY NoPathIsNoRun DEF NoManifest
<1>1. CASE WriteManifest(p) \/ RemoveManifest(p)
  BY <1>0, <1>1 DEF WriteManifest, RemoveManifest, Manifest
<1>2. CASE RunJar(p) \/ EmbedClasspath(p) \/ Cleanup(p)
  BY <1>2 DEF RunJar, EmbedClasspath, Cleanup, WithoutTemp
<1>3. CASE MoveJar(p)
  BY <1>3, MovedAway DEF MoveJar, Renamed, Copied
<1>4. CASE BuildClass(p) \/ RemoveOld(p)
  BY <1>4 DEF BuildClass, Store, RemoveOld
<1>5. CASE Judge(p)
  BY <1>5 DEF Judge
<1>6. CASE FinishClassFiles(p) \/ ChooseMain(p)
  BY <1>6 DEF FinishClassFiles, ChooseMain
<1>7. CASE CollectSources(p) \/ ParseFile(p) \/ AnalyzeFile(p) \/ NextPass(p)
  BY <1>7 DEF CollectSources, ParseFile, AnalyzeFile, NextPass
<1>8. CASE ParseArgument(p) \/ FinishArguments(p) \/ NoArguments(p) \/ Start(p)
  BY <1>8 DEF ParseArgument, FinishArguments, NoArguments, Start
<1> QED
  BY <1>1, <1>2, <1>3, <1>4, <1>5, <1>6, <1>7, <1>8 DEF Step, Compile, Bundle

LEMMA OthersTemp ==
    ASSUME Shape, NEW p \in Proc, Step(p), NEW q \in Proc, q # p, TempInv(q)
    PROVE  TempInv(q)'
<1>1. /\ phase'[q] = phase[q] /\ options'[q] = options[q]
      /\ loaders'[q] = loaders[q] /\ chosen'[q] = chosen[q]
      /\ disk'.temp[q] = disk.temp[q] /\ disk'.jar[q] = disk.jar[q]
  BY OthersKept
<1>2. JarOutput(q)' = JarOutput(q) /\ HasManifest(q)' = HasManifest(q)
  BY <1>1 DEF JarOutput, Dest, HasManifest
<1>3. disk'.manifest.by = q => disk.manifest.by = q
  BY ManifestOfOthers
<1> QED
  BY <1>1, <1>2, <1>3 DEF TempInv, HasTemp

TempsInv == Shape /\ \A p \in Proc : TempInv(p)

LEMMA TempsInvHolds == Spec => []TempsInv
<1>1. Init => TempsInv
  <2> SUFFICES ASSUME Init PROVE TempsInv
    OBVIOUS
  <2>1. Shape
    BY CompilationsOnly DEF Init, Shape, Given
  <2>2. ASSUME NEW p \in Proc PROVE TempInv(p)
    BY NoPathIsNoRun DEF Init, TempInv, Absent, NoManifest
  <2> QED
    BY <2>1, <2>2 DEF TempsInv
<1>2. TempsInv /\ [Next]_vars => TempsInv'
  <2> SUFFICES ASSUME TempsInv, [Next]_vars PROVE TempsInv'
    OBVIOUS
  <2>1. ASSUME NEW p \in Proc, Step(p) PROVE TempsInv'
    BY <2>1, ShapeKept, OwnTemp, OthersTemp DEF TempsInv
  <2>2. CASE UNCHANGED vars
    BY <2>2 DEF TempsInv, Shape, Given, TempInv, HasTemp, HasManifest, JarOutput, Dest, vars
  <2> QED
    BY <2>1, <2>2 DEF Next, Done
<1> QED
  BY <1>1, <1>2, PTL DEF Spec

(* CleanExit: whatever the other runs do to the manifest they share and    *)
(* whichever operation of the system fails, a run that succeeds leaves     *)
(* nothing under the temporary directory, and none leaves its manifest.    *)
THEOREM ExitsAreClean == Spec => []CleanExit
<1>1. TempsInv => CleanExit
  BY DEF TempsInv, TempInv, HasTemp, CleanExit, Running
<1> QED
  BY <1>1, TempsInvHolds, PTL

-----------------------------------------------------------------------------
(* The gates between the passes *)

Free(p, pass) == \A i \in DOMAIN files[p] : Program[files[p][i]].fault # pass
FreeSoFar(p) == \A i \in DOMAIN files[p] : i < next[p] => Program[files[p][i]].fault # phase[p]

(* The passes that are over when a phase begins.  Without an error, each   *)
(* of them found nothing, and the one going on has found nothing so far.   *)
PassesOver ==
    [parse |-> {}, collect |-> {"parse"}, post_collect |-> {"parse", "collect"},
     analyze |-> {"parse", "collect", "post_collect"},
     verdict |-> {"parse", "collect", "post_collect", "analyze"}]
AllPasses == PassesOver["verdict"]
AfterVerdict == {"build", "embed", "bundle", "bundled", "remove", "move", "cleanup"}

GateInv(p) ==
    /\ next[p] \in Nat /\ errors[p] \in BOOLEAN
    /\ Len(files[p]) \in Nat /\ DOMAIN files[p] = 1..Len(files[p])
    /\ phase[p] \in {"arguments", "start", "inputs"} => next[p] = 1
    /\ phase[p] \in DOMAIN PassesOver /\ ~errors[p] =>
          /\ \A pass \in PassesOver[phase[p]] : Free(p, pass)
          /\ FreeSoFar(p)
    /\ phase[p] \in AfterVerdict => p \in accepted
    /\ p \in accepted => phase[p] \in AfterVerdict \cup {"success", "failure"}
    /\ p \in accepted => \A pass \in AllPasses : Free(p, pass)
    /\ written[p] # {} => p \in accepted

LEMMA SourcesInOrder ==
    ASSUME NEW path, NEW order \in SourcesOf(path)
    PROVE  Len(order) \in Nat /\ DOMAIN order = 1..Len(order)
<1>1. CASE IsDirectory(path)
  <2> DEFINE sources == Contents[path] \cap SourceFiles
  <2>1. Cardinality(sources) \in Nat
    BY SourcesAreFinite, FS_Intersection, FS_CardinalityType
  <2>2. order \in [1..Cardinality(sources) -> sources]
    BY <1>1 DEF SourcesOf, SetToSeqs
  <2> QED
    BY <2>1, <2>2
<1>2. CASE ~IsDirectory(path)
  BY <1>2 DEF SourcesOf
<1> QED
  BY <1>1, <1>2

(* A round of a pass: an error it finds is in the collector afterwards.    *)
LEMMA RoundGated ==
    ASSUME Shape, NEW p \in Proc, GateInv(p), ParseFile(p) \/ AnalyzeFile(p)
    PROVE  GateInv(p)'
<1> USE DEF Shape
<1>0. DOMAIN PassesOver = {"parse", "collect", "post_collect", "analyze", "verdict"}
      /\ ToSet(Passes) = {"collect", "post_collect", "analyze"}
  BY DEF PassesOver, ToSet, Passes
<1>1. CASE ParseFile(p) /\ Fatal(p)
  BY <1>1, <1>0 DEF GateInv, ParseFile, Fatal, Goto, AfterVerdict, Free
<1>2. CASE ~(ParseFile(p) /\ Fatal(p))
  <2>1. /\ phase' = phase /\ files' = files /\ accepted' = accepted /\ written' = written
        /\ next'[p] = next[p] + 1
        /\ phase[p] \in {"parse", "collect", "post_collect", "analyze"}
    BY <1>0, <1>2 DEF ParseFile, AnalyzeFile, GateInv
  <2>2. errors' = [errors EXCEPT ![p] = errors[p] \/ Fault(p) = phase[p]]
    BY <1>2 DEF ParseFile, AnalyzeFile
  <2>3. errors'[p] \in BOOLEAN /\ (~errors'[p] => ~errors[p] /\ Fault(p) # phase[p])
    BY <2>2 DEF GateInv
  <2>4. ASSUME ~errors'[p] PROVE FreeSoFar(p)'
    <3>1. FreeSoFar(p) /\ Fault(p) # phase[p]
      BY <2>1, <2>3, <2>4, <1>0 DEF GateInv
    <3> SUFFICES ASSUME NEW i \in DOMAIN files[p], i < next[p] + 1
                 PROVE  Program[files[p][i]].fault # phase[p]
      BY <2>1 DEF FreeSoFar
    <3>2. CASE i < next[p]
      BY <3>1, <3>2 DEF FreeSoFar
    <3>3. CASE i = next[p]
      BY <3>1, <3>3 DEF Fault
    <3> QED
      BY <3>2, <3>3 DEF GateInv
  <2>5. \A pass : Free(p, pass)' <=> Free(p, pass)
    BY <2>1 DEF Free
  <2> QED
    BY <2>1, <2>3, <2>4, <2>5 DEF GateInv
<1> QED
  BY <1>1, <1>2

(* A pass ends when every file has had its round. *)
LEMMA PassGated ==
    ASSUME Shape, NEW p \in Proc, GateInv(p), NextPass(p)
    PROVE  GateInv(p)'
<1> USE DEF Shape
<1>0. DOMAIN PassesOver = {"parse", "collect", "post_collect", "analyze", "verdict"}
      /\ ToSet(Passes) = {"collect", "post_collect", "analyze"}
  BY DEF PassesOver, ToSet, Passes
<1>1. /\ files' = files /\ accepted' = accepted /\ written' = written /\ errors' = errors
      /\ next'[p] = 1 /\ phase[p] \in {"parse", "collect", "post_collect", "analyze"}
  BY <1>0 DEF NextPass
<1>2. phase'[p] \in {"collect", "post_collect", "analyze", "verdict"}
      /\ (~errors[p] => phase'[p] = PassAfter(phase[p]))
  BY <1>1 DEF NextPass, Goto, PassAfter, GateInv
<1>3. ~errors[p] => Free(p, phase[p])
  BY <1>0, <1>1 DEF GateInv, NextPass, FreeSoFar, Free
<1>4. ~errors[p] => PassesOver[phase'[p]] = PassesOver[phase[p]] \cup {phase[p]}
  BY <1>1, <1>2 DEF PassesOver, PassAfter
<1>5. ~errors[p] => \A pass \in PassesOver[phase'[p]] : Free(p, pass)
  BY <1>0, <1>1, <1>3, <1>4 DEF GateInv
<1>6. FreeSoFar(p)'
  BY <1>1 DEF GateInv, FreeSoFar
<1>7. \A pass : Free(p, pass)' <=> Free(p, pass)
  BY <1>1 DEF Free
<1> QED
  BY <1>1, <1>2, <1>5, <1>6, <1>7 DEF GateInv, AfterVerdict

(* Before the passes nothing is accepted, after the verdict no source and  *)
(* no verdict changes.                                                     *)
LEMMA OwnGate ==
    ASSUME Shape, NEW p \in Proc, GateInv(p), Step(p)
    PROVE  GateInv(p)'
<1> USE DEF Shape
<1>0. DOMAIN PassesOver = {"parse", "collect", "post_collect", "analyze", "verdict"}
  BY DEF PassesOver
<1>1. CASE ParseArgument(p) \/ FinishArguments(p) \/ NoArguments(p) \/ Start(p)
  <2>1. /\ phase[p] \in {"arguments", "start"}
        /\ phase'[p] \in {"arguments", "start", "inputs", "success", "failure"}
        /\ files' = files /\ next' = next /\ accepted' = accepted /\ written' = written
    BY <1>1 DEF ParseArgument, FinishArguments, NoArguments, Start, Fatal, Goto
  <2>2. errors'[p] \in BOOLEAN
    BY <1>1 DEF GateInv, ParseArgument, FinishArguments, NoArguments, Start, Fatal
  <2> QED
    BY <1>0, <2>1, <2>2 DEF GateInv, AfterVerdict
<1>2. CASE CollectSources(p)
  <2>1. /\ phase[p] = "inputs" /\ phase'[p] \in {"parse", "failure"}
        /\ next' = next /\ accepted' = accepted /\ written' = written
    BY <1>2 DEF CollectSources, Fatal, Goto
  <2>2. errors'[p] \in BOOLEAN
    BY <1>2 DEF GateInv, CollectSources, Fatal
  <2>3. Len(files'[p]) \in Nat /\ DOMAIN files'[p] = 1..Len(files'[p])
    <3>1. CASE files' = files
      BY <3>1 DEF GateInv
    <3>2. CASE \E order \in SourcesOf(options[p].src) : files' = [files EXCEPT ![p] = order]
      BY <3>2, SourcesInOrder
    <3> QED
      BY <1>2, <3>1, <3>2 DEF CollectSources
  <2>4. PassesOver["parse"] = {} /\ FreeSoFar(p)'
    BY <2>1, <2>3 DEF GateInv, PassesOver, FreeSoFar
  <2> QED
    BY <1>0, <2>1, <2>2, <2>3, <2>4 DEF GateInv, AfterVerdict
<1>3. CASE ParseFile(p) \/ AnalyzeFile(p) \/ NextPass(p)
  BY <1>3, RoundGated, PassGated
<1>4. CASE Judge(p)
  <2>1. /\ phase[p] = "verdict" /\ files' = files /\ next' = next /\ written' = written
        /\ \A pass : Free(p, pass)' <=> Free(p, pass)
    BY <1>4 DEF Judge, Free
  <2>2. CASE phase'[p] = "failure" /\ accepted' = accepted /\ errors'[p] \in BOOLEAN
    BY <1>0, <2>1, <2>2 DEF GateInv, AfterVerdict
  <2>3. CASE phase'[p] = "build" /\ accepted' = accepted \cup {p} /\ errors' = errors /\ ~errors[p]
    BY <1>0, <2>1, <2>3 DEF GateInv, AfterVerdict, AllPasses
  <2> QED
    BY <1>4, <2>2, <2>3 DEF Judge, Rejected, Fatal, Goto, GateInv
<1>5. CASE BuildClass(p) \/ FinishClassFiles(p) \/ Bundle(p)
  <2>1. /\ files' = files /\ accepted' = accepted /\ phase[p] \in AfterVerdict
        /\ \A pass : Free(p, pass)' <=> Free(p, pass)
    BY <1>5 DEF BuildClass, FinishClassFiles, Bundle, ChooseMain, EmbedClasspath, WriteManifest, RunJar,
                RemoveManifest, RemoveOld, MoveJar, Cleanup, AfterVerdict, Free
  <2>2. phase'[p] \in AfterVerdict \cup {"success", "failure"} /\ errors'[p] \in BOOLEAN
    <3>1. CASE MoveJar(p)
      BY <3>1, MovedAway DEF MoveJar, Renamed, Copied, Fatal, Goto, AfterVerdict, GateInv
    <3>2. CASE BuildClass(p) \/ FinishClassFiles(p) \/ ChooseMain(p) \/ EmbedClasspath(p)
      BY <2>1, <3>2 DEF BuildClass, FinishClassFiles, ChooseMain, EmbedClasspath, Fatal, Goto, AfterVerdict,
                        GateInv
    <3>3. CASE WriteManifest(p) \/ RunJar(p) \/ RemoveManifest(p) \/ RemoveOld(p) \/ Cleanup(p)
      BY <3>3 DEF WriteManifest, RunJar, RemoveManifest, RemoveOld, Cleanup, Fatal, Goto, AfterVerdict, GateInv
    <3> QED
      BY <1>5, <3>1, <3>2, <3>3 DEF Bundle
  <2>3. next'[p] \in Nat
    BY <1>5 DEF GateInv, BuildClass, FinishClassFiles, Bundle, ChooseMain, EmbedClasspath, WriteManifest, RunJar,
                RemoveManifest, RemoveOld, MoveJar, Cleanup
  <2> QED
    BY <1>0, <2>1, <2>2, <2>3 DEF GateInv, AfterVerdict
<1> QED
  BY <1>1, <1>2, <1>3, <1>4, <1>5 DEF Step, Compile

LEMMA OthersGate ==
    ASSUME Shape, NEW p \in Proc, Step(p), NEW q \in Proc, q # p, GateInv(q)
    PROVE  GateInv(q)'
<1>1. /\ phase'[q] = phase[q] /\ errors'[q] = errors[q] /\ files'[q] = files[q] /\ next'[q] = next[q]
      /\ written'[q] = written[q] /\ (q \in accepted' <=> q \in accepted)
  BY OthersKept
<1>2. (FreeSoFar(q)' <=> FreeSoFar(q)) /\ \A pass : Free(q, pass)' <=> Free(q, pass)
  BY <1>1 DEF FreeSoFar, Free
<1> QED
  BY <1>1, <1>2 DEF GateInv

GatesInv == Shape /\ \A p \in Proc : GateInv(p)

(* A run puts nothing at its destination unless its verdict was good, and  *)
(* that it is only when no pass has a fault to find in any of its files,   *)
(* whatever the order they are taken in: main.cpp looks at the errors      *)
(* between the passes and before the output, and never again.              *)
NothingFaultyDelivered ==
    \A p \in Proc : written[p] # {} \/ p \in accepted =>
        \A i \in DOMAIN files[p] : Program[files[p][i]].fault \notin AllPasses

THEOREM GatesHold == Spec => []NothingFaultyDelivered
<1>1. Init => GatesInv
  <2> SUFFICES ASSUME Init PROVE GatesInv
    OBVIOUS
  <2>1. Shape
    BY CompilationsOnly DEF Init, Shape, Given
  <2>2. ASSUME NEW p \in Proc PROVE GateInv(p)
    BY DEF Init, GateInv, PassesOver, AfterVerdict
  <2> QED
    BY <2>1, <2>2 DEF GatesInv
<1>2. GatesInv /\ [Next]_vars => GatesInv'
  <2> SUFFICES ASSUME GatesInv, [Next]_vars PROVE GatesInv'
    OBVIOUS
  <2>1. ASSUME NEW p \in Proc, Step(p) PROVE GatesInv'
    BY <2>1, ShapeKept, OwnGate, OthersGate DEF GatesInv
  <2>2. CASE UNCHANGED vars
    BY <2>2 DEF GatesInv, Shape, Given, GateInv, FreeSoFar, Free, vars
  <2> QED
    BY <2>1, <2>2 DEF Next, Done
<1>3. GatesInv => NothingFaultyDelivered
  BY DEF GatesInv, GateInv, NothingFaultyDelivered, Free
<1> QED
  BY <1>1, <1>2, <1>3, PTL DEF Spec

-----------------------------------------------------------------------------
(* Lists of lists.  FlattenSeq is a recursive function; that its values    *)
(* are what they should be follows from the least index where they are not.*)

LEMMA LeastNumber ==
    ASSUME NEW S \in SUBSET Nat, S # {}
    PROVE  \E i \in S : \A j \in S : i <= j
<1> DEFINE R == OpToRel(<, Nat)
<1>1. IsWellFoundedOn(R, Nat)
  BY NatLessThanWellFounded
<1>2. \A i, j \in Nat : i < j => <<i, j>> \in R
  BY DEF OpToRel
<1> HIDE DEF R
<1>3. PICK i \in S : \A j \in S : <<j, i>> \notin R
  BY <1>1, WFMin
<1>4. ASSUME NEW j \in S PROVE i <= j
  <2>1. i \in Nat /\ j \in Nat /\ ~(j < i)
    BY <1>2, <1>3
  <2> QED
    BY <2>1
<1> QED
  BY <1>3, <1>4

(* The recursion of FlattenSeq, up to m. *)
Flattens(f, s, m) == f = [i \in 1..m |-> IF i = 1 THEN s[i] ELSE f[i - 1] \o s[i]]
Flat(s) == CHOOSE f : f = [i \in 1..Len(s) |-> IF i = 1 THEN s[i] ELSE f[i - 1] \o s[i]]

LEMMA FlattenIs ==
    ASSUME NEW s
    PROVE  FlattenSeq(s) = IF Len(s) = 0 THEN s ELSE Flat(s)[Len(s)]
BY DEF FlattenSeq, Flat

LEMMA Flattening ==
    ASSUME NEW S, NEW s \in Seq(Seq(S)), Len(s) # 0
    PROVE  Flattens(Flat(s), s, Len(s))
<1> DEFINE Bad == {m \in 1..Len(s) : ~\E f : Flattens(f, s, m)}
<1>1. ASSUME Bad # {} PROVE FALSE
  <2>1. PICK m \in Bad : \A j \in Bad : m <= j
    <3>1. Bad \in SUBSET Nat
      OBVIOUS
    <3> HIDE DEF Bad
    <3> QED
      BY <1>1, <3>1, LeastNumber
  <2>2. CASE m = 1
    <3> DEFINE f == [i \in 1..m |-> s[i]]
    <3>1. Flattens(f, s, m)
      BY <2>2 DEF Flattens
    <3> QED
      BY <2>1, <3>1
  <2>3. CASE m # 1
    <3>1. m - 1 \in 1..Len(s) /\ ~(m <= m - 1)
      BY <2>3
    <3>2. PICK g : Flattens(g, s, m - 1)
      BY <2>1, <3>1
    <3> DEFINE f == [i \in 1..m |-> IF i < m THEN g[i] ELSE g[m - 1] \o s[m]]
    <3>3. \A i \in 1..m : f[i] = IF i = 1 THEN s[i] ELSE f[i - 1] \o s[i]
      <4> TAKE i \in 1..m
      <4>1. CASE i < m
        <5>1. i \in 1..(m - 1) /\ (i # 1 => i - 1 \in 1..(m - 1))
          BY <4>1
        <5>2. g[i] = IF i = 1 THEN s[i] ELSE g[i - 1] \o s[i]
          BY <3>2, <5>1 DEF Flattens
        <5> QED
          BY <4>1, <5>1, <5>2
      <4>2. CASE i = m
        <5>1. i - 1 \in 1..m /\ i - 1 < m /\ ~(i < m) /\ i # 1
          BY <4>2, <2>3
        <5> QED
          BY <4>2, <5>1
      <4> QED
        BY <4>1, <4>2
    <3>4. Flattens(f, s, m)
      <4>1. f = [i \in 1..m |-> f[i]]
        OBVIOUS
      <4> HIDE DEF f
      <4> QED
        BY <3>3, <4>1 DEF Flattens
    <3> QED
      BY <2>1, <3>4
  <2> QED
    BY <2>2, <2>3
<1>2. Len(s) \in 1..Len(s)
  OBVIOUS
<1>3. \E f : Flattens(f, s, Len(s))
  BY <1>1, <1>2
<1> QED
  BY <1>3 DEF Flat, Flattens

(* FlattenSeq gives a sequence of the elements of all the sequences.       *)
LEMMA Flattened ==
    ASSUME NEW S, NEW s \in Seq(Seq(S))
    PROVE  /\ FlattenSeq(s) \in Seq(S)
           /\ ToSet(FlattenSeq(s)) = UNION {ToSet(s[k]) : k \in DOMAIN s}
<1>1. CASE Len(s) = 0
  <2>1. FlattenSeq(s) = s
    BY <1>1, FlattenIs
  <2>2. s = <<>> /\ DOMAIN s = {}
    BY <1>1
  <2> QED
    BY <2>1, <2>2 DEF ToSet
<1>2. CASE Len(s) # 0
  <2> DEFINE f == Flat(s)
             Upto(i) == UNION {ToSet(s[k]) : k \in 1..i}
             Good(i) == f[i] \in Seq(S) /\ ToSet(f[i]) = Upto(i)
             Bad == {i \in 1..Len(s) : ~Good(i)}
  <2>1. Flattens(f, s, Len(s))
    BY <1>2, Flattening
  <2> HIDE DEF f
  <2>2. ASSUME NEW i \in 1..Len(s) PROVE f[i] = IF i = 1 THEN s[i] ELSE f[i - 1] \o s[i]
    BY <2>1 DEF Flattens
  <2>3. ASSUME Bad # {} PROVE FALSE
    <3>1. PICK i \in Bad : \A j \in Bad : i <= j
      <4>1. Bad \in SUBSET Nat
        OBVIOUS
      <4> HIDE DEF Bad
      <4> QED
        BY <2>3, <4>1, LeastNumber
    <3>2. i \in 1..Len(s) /\ s[i] \in Seq(S)
      OBVIOUS
    <3>3. CASE i = 1
      <4>1. f[i] = s[i]
        BY <2>2, <3>2, <3>3
      <4>2. Upto(i) = ToSet(s[i])
        BY <3>3
      <4> QED
        BY <3>1, <3>2, <4>1, <4>2
    <3>4. CASE i # 1
      <4>1. i - 1 \in 1..Len(s) /\ ~(i <= i - 1)
        BY <3>4
      <4>2. Good(i - 1)
        BY <3>1, <4>1
      <4>3. f[i] = f[i - 1] \o s[i]
        BY <2>2, <3>2, <3>4
      <4>4. f[i] \in Seq(S) /\ ToSet(f[i]) = ToSet(f[i - 1]) \cup ToSet(s[i])
        <5> HIDE DEF Upto, Bad
        <5>1. f[i - 1] \in Seq(S) /\ s[i] \in Seq(S)
          BY <3>2, <4>2
        <5> DEFINE a == f[i - 1] b == s[i] c == f[i]
        <5>2. a \in Seq(S) /\ b \in Seq(S) /\ c = a \o b
          BY <5>1, <4>3
        <5> HIDE DEF a, b, c
        <5>3. c \in Seq(S) /\ ToSet(c) = ToSet(a) \cup ToSet(b)
          <6>1. /\ Len(c) = Len(a) + Len(b)
                /\ \A k \in 1..Len(c) : c[k] = IF k <= Len(a) THEN a[k] ELSE b[k - Len(a)]
            BY <5>2
          <6>2. \A k \in 1..Len(a) : k \in 1..Len(c) /\ c[k] = a[k]
            BY <5>2, <6>1
          <6>3. \A k \in 1..Len(b) : k + Len(a) \in 1..Len(c) /\ c[k + Len(a)] = b[k]
            BY <5>2, <6>1
          <6>4. \A k \in 1..Len(c) : k \in 1..Len(a) \/ k - Len(a) \in 1..Len(b)
            BY <5>2, <6>1
          <6>5. c \in Seq(S) /\ DOMAIN a = 1..Len(a) /\ DOMAIN b = 1..Len(b) /\ DOMAIN c = 1..Len(c)
            BY <5>2
          <6>6. ToSet(c) \subseteq ToSet(a) \cup ToSet(b)
            <7> SUFFICES ASSUME NEW k \in 1..Len(c) PROVE c[k] \in ToSet(a) \cup ToSet(b)
              BY <6>5 DEF ToSet
            <7>1. CASE k \in 1..Len(a)
              BY <7>1, <6>1, <6>5 DEF ToSet
            <7>2. CASE k \notin 1..Len(a)
              <8>1. ~(k <= Len(a)) /\ k - Len(a) \in DOMAIN b
                BY <5>2, <6>4, <6>5, <7>2
              <8> QED
                BY <6>1, <8>1 DEF ToSet
            <7> QED
              BY <7>1, <7>2
          <6>7. ToSet(a) \cup ToSet(b) \subseteq ToSet(c)
            BY <6>2, <6>3, <6>5 DEF ToSet
          <6> QED
            BY <6>5, <6>6, <6>7
        <5> QED
          BY <5>3 DEF a, b, c
      <4>5. Upto(i) = Upto(i - 1) \cup ToSet(s[i])
        <5>1. 1..i = 1..(i - 1) \cup {i}
          BY <3>2
        <5> QED
          BY <5>1
      <4>6. Good(i)
        BY <4>2, <4>4, <4>5
      <4> QED
        BY <3>1, <4>6
    <3> QED
      BY <3>3, <3>4
  <2>4. Good(Len(s))
    <3>1. Len(s) \in 1..Len(s)
      BY <1>2
    <3> QED
      BY <2>3, <3>1
  <2>5. FlattenSeq(s) = f[Len(s)]
    BY <1>2, FlattenIs DEF f
  <2>6. DOMAIN s = 1..Len(s)
    OBVIOUS
  <2> QED
    BY <2>4, <2>5, <2>6
<1> QED
  BY <1>1, <1>2
-----------------------------------------------------------------------------
(* The command line.  The flags of Flags are those ParseArgument meets.    *)

LEMMA FirstFlag ==
    ASSUME NEW c \in Seq(STRING), c # <<>>
    PROVE  1 \in Flags(c)
BY DEF Flags, EvenRun

LEMMA NextFlag ==
    ASSUME NEW c \in Seq(STRING), NEW i \in Flags(c)
    PROVE  /\ c[i] \notin TakesValue /\ i + 1 \in DOMAIN c => i + 1 \in Flags(c)
           /\ c[i] \in TakesValue => i + 1 \notin Flags(c)
           /\ c[i] \in TakesValue /\ i + 2 \in DOMAIN c => i + 2 \in Flags(c)
<1>0. /\ DOMAIN c = 1..Len(c) /\ Len(c) \in Nat /\ i \in 1..Len(c)
  BY DEF Flags
<1>1. PICK first \in 1..i : EvenRun(c, first, i)
  BY DEF Flags
<1>2. ASSUME c[i] \notin TakesValue, i + 1 \in DOMAIN c PROVE i + 1 \in Flags(c)
  <2>1. EvenRun(c, i + 1, i + 1) /\ i + 1 \in 1..(i + 1)
    BY <1>0, <1>2 DEF EvenRun
  <2> QED
    BY <1>2, <2>1 DEF Flags
<1>3. ASSUME c[i] \in TakesValue, i + 1 \in Flags(c) PROVE FALSE
  <2>1. PICK other \in 1..(i + 1) : EvenRun(c, other, i + 1)
    BY <1>3 DEF Flags
  <2>2. other # i + 1
    BY <1>0, <1>3, <2>1 DEF EvenRun
  <2>3. CASE other < first
    <3>1. first # 1 /\ first - 1 \in other..((i + 1) - 1)
      BY <1>0, <2>3
    <3> QED
      BY <1>1, <2>1, <3>1 DEF EvenRun
  <2>4. CASE first < other
    <3>1. other # 1 /\ other - 1 \in first..(i - 1)
      BY <1>0, <2>2, <2>4
    <3> QED
      BY <1>1, <2>1, <3>1 DEF EvenRun
  <2>5. CASE first = other
    BY <1>0, <1>1, <2>1, <2>5 DEF EvenRun
  <2> QED
    BY <2>3, <2>4, <2>5
<1>4. ASSUME c[i] \in TakesValue, i + 2 \in DOMAIN c PROVE i + 2 \in Flags(c)
  <2>1. CASE c[i + 1] \in TakesValue
    <3>1. first \in 1..(i + 2) /\ (i + 2 - first) % 2 = 0
      BY <1>0, <1>1 DEF EvenRun
    <3>2. \A j \in first..((i + 2) - 1) : j \in first..(i - 1) \/ j = i \/ j = i + 1
      BY <1>0
    <3>3. EvenRun(c, first, i + 2)
      <4>1. first = 1 \/ c[first - 1] \notin TakesValue
        BY <1>1 DEF EvenRun
      <4>2. \A j \in first..(i - 1) : c[j] \in TakesValue
        BY <1>1 DEF EvenRun
      <4>3. \A j \in first..((i + 2) - 1) : c[j] \in TakesValue
        BY <1>4, <2>1, <3>2, <4>2
      <4> QED
        BY <1>0, <3>1, <4>1, <4>3 DEF EvenRun
    <3> QED
      BY <1>4, <3>1, <3>3 DEF Flags
  <2>2. CASE c[i + 1] \notin TakesValue
    <3>1. EvenRun(c, i + 2, i + 2) /\ i + 2 \in 1..(i + 2)
      BY <1>0, <2>2 DEF EvenRun
    <3> QED
      BY <1>4, <3>1 DEF Flags
  <2> QED
    BY <2>1, <2>2
<1> QED
  BY <1>2, <1>3, <1>4

Helps == {"--help", "-h"}

(* The arguments before place k are read: what they ask for is in the      *)
(* options, and a flag is next.                                            *)
SourcesTo(c, k) == {i \in SourceFlags(c) : i < k}
LastSource(c, S, path) ==
    \/ S = {} /\ path = NoPath
    \/ \E i \in S : path = c[i + 1] /\ \A j \in S : j <= i

ReadTo(c, left, o, k) ==
    /\ k \in 1..(Len(c) + 1)
    /\ left \in Seq(STRING) /\ Len(left) = Len(c) + 1 - k
    /\ \A j \in 1..Len(left) : left[j] = c[k + j - 1]
    /\ k <= Len(c) => k \in Flags(c)
    /\ o.help \in BOOLEAN /\ (o.help <=> \E i \in Flags(c) : i < k /\ c[i] \in Helps)
    /\ LastSource(c, SourcesTo(c, k), o.src)

LEMMA ReadNothing ==
    ASSUME NEW c \in Seq(STRING)
    PROVE  ReadTo(c, c, DefaultOptions, 1)
<1>1. SourcesTo(c, 1) = {} /\ ~\E i \in Flags(c) : i < 1
  BY DEF SourcesTo, SourceFlags, Flags
<1>2. DefaultOptions.src = NoPath /\ DefaultOptions.help = FALSE
  BY DEF DefaultOptions
<1>3. /\ 1 \in 1..(Len(c) + 1) /\ Len(c) = Len(c) + 1 - 1 /\ (1 <= Len(c) => c # <<>>)
      /\ \A j \in 1..Len(c) : c[j] = c[1 + j - 1]
  OBVIOUS
<1>4. LastSource(c, SourcesTo(c, 1), DefaultOptions.src)
  BY <1>1, <1>2 DEF LastSource
<1> QED
  BY <1>1, <1>2, <1>3, <1>4, FirstFlag DEF ReadTo

(* A flag without a value. *)
LEMMA ReadSwitch ==
    ASSUME NEW c \in Seq(STRING), NEW left, NEW o, NEW k, ReadTo(c, left, o, k), left # <<>>,
           Head(left) \in Switches, NEW new, new.src = o.src,
           new.help = (o.help \/ Head(left) \in Helps)
    PROVE  ReadTo(c, Tail(left), new, k + 1)
<1>1. /\ k \in Nat /\ k + 1 \in 1..(Len(c) + 1) /\ k <= Len(c) /\ k \in Flags(c) /\ c[k] = Head(left)
      /\ k \in DOMAIN c
  BY DEF ReadTo
<1>2. Head(left) \notin TakesValue /\ Head(left) # "--src"
  BY DEF Switches, TakesValue
<1>3. /\ Tail(left) \in Seq(STRING) /\ Len(Tail(left)) = Len(c) + 1 - (k + 1)
      /\ \A j \in 1..Len(Tail(left)) : Tail(left)[j] = c[(k + 1) + j - 1]
  BY <1>1 DEF ReadTo
<1>4. k + 1 <= Len(c) => k + 1 \in Flags(c)
  BY <1>1, <1>2, NextFlag
<1>5. \A i \in Flags(c) : i \in Nat /\ (i < k + 1 <=> i < k \/ i = k)
  BY <1>1 DEF Flags
<1>6. new.help \in BOOLEAN /\ (new.help <=> \E i \in Flags(c) : i < k + 1 /\ c[i] \in Helps)
  BY <1>1, <1>5 DEF ReadTo
<1>7. SourcesTo(c, k + 1) = SourcesTo(c, k)
  BY <1>1, <1>2, <1>5 DEF SourcesTo, SourceFlags
<1> QED
  BY <1>1, <1>3, <1>4, <1>6, <1>7 DEF ReadTo

(* A flag with its value, which is no flag whatever it says. *)
LEMMA ReadValue ==
    ASSUME NEW c \in Seq(STRING), NEW left, NEW o, NEW k, ReadTo(c, left, o, k), left # <<>>,
           Head(left) \in TakesValue, Tail(left) # <<>>, NEW new, new.help = o.help,
           new.src = IF Head(left) = "--src" THEN Head(Tail(left)) ELSE o.src
    PROVE  ReadTo(c, Tail(Tail(left)), new, k + 2)
<1>1. /\ k \in Nat /\ k + 2 \in 1..(Len(c) + 1) /\ k + 1 <= Len(c) /\ k \in Flags(c) /\ c[k] = Head(left)
      /\ k \in DOMAIN c /\ c[k + 1] = Head(Tail(left))
  BY DEF ReadTo
<1>2. Head(left) \notin Helps
  BY DEF Helps, TakesValue
<1>3. /\ Tail(Tail(left)) \in Seq(STRING) /\ Len(Tail(Tail(left))) = Len(c) + 1 - (k + 2)
      /\ \A j \in 1..Len(Tail(Tail(left))) : Tail(Tail(left))[j] = c[(k + 2) + j - 1]
  <2>1. /\ Tail(left) \in Seq(STRING) /\ Len(Tail(left)) = Len(c) - k
        /\ \A j \in 1..Len(Tail(left)) : Tail(left)[j] = c[k + j]
    BY <1>1 DEF ReadTo
  <2> DEFINE rest == Tail(left)
  <2>2. rest \in Seq(STRING) /\ rest # <<>> /\ Len(rest) = Len(c) - k
        /\ \A j \in 1..Len(rest) : rest[j] = c[k + j]
    BY <2>1
  <2> HIDE DEF rest
  <2>3. /\ Tail(rest) \in Seq(STRING) /\ Len(Tail(rest)) = Len(c) + 1 - (k + 2)
        /\ \A j \in 1..Len(Tail(rest)) : Tail(rest)[j] = c[(k + 2) + j - 1]
    <3>1. Tail(rest) \in Seq(STRING) /\ Len(Tail(rest)) = Len(rest) - 1
      BY <2>2
    <3>2. ASSUME NEW j \in 1..Len(Tail(rest)) PROVE Tail(rest)[j] = c[(k + 2) + j - 1]
      <4>1. j + 1 \in 1..Len(rest) /\ Tail(rest)[j] = rest[j + 1]
        BY <2>2, <3>1, <3>2
      <4>2. k + (j + 1) = (k + 2) + j - 1
        BY <1>1
      <4> QED
        BY <2>2, <4>1, <4>2
    <3> QED
      BY <1>1, <2>2, <3>1, <3>2
  <2> QED
    BY <2>3 DEF rest
<1>4. k + 2 <= Len(c) => k + 2 \in Flags(c)
  BY <1>1, NextFlag
<1>5. \A i \in Flags(c) : i \in Nat /\ (i < k + 2 <=> i < k \/ i = k)
  <2>1. k + 1 \notin Flags(c)
    BY <1>1, NextFlag
  <2> QED
    BY <1>1, <2>1 DEF Flags
<1>6. new.help \in BOOLEAN /\ (new.help <=> \E i \in Flags(c) : i < k + 2 /\ c[i] \in Helps)
  BY <1>1, <1>2, <1>5 DEF ReadTo
<1>7. CASE Head(left) = "--src"
  <2>1. k \in SourceFlags(c)
    BY <1>1, <1>7 DEF SourceFlags
  <2>2. k \in SourcesTo(c, k + 2) /\ \A j \in SourcesTo(c, k + 2) : j <= k
    <3>1. k < k + 2 /\ k <= k
      BY <1>1
    <3>2. \A j \in SourcesTo(c, k + 2) : j \in Flags(c) /\ (j < k \/ j = k)
      BY <1>5 DEF SourcesTo, SourceFlags
    <3> QED
      BY <1>1, <1>5, <2>1, <3>1, <3>2 DEF SourcesTo
  <2>3. LastSource(c, SourcesTo(c, k + 2), new.src)
    BY <1>1, <1>7, <2>2 DEF LastSource
  <2> QED
    BY <1>1, <1>3, <1>4, <1>6, <2>3 DEF ReadTo
<1>8. CASE Head(left) # "--src"
  <2>1. SourcesTo(c, k + 2) = SourcesTo(c, k)
    BY <1>1, <1>5, <1>8 DEF SourcesTo, SourceFlags
  <2> QED
    BY <1>1, <1>3, <1>4, <1>6, <1>8, <2>1 DEF ReadTo
<1> QED
  BY <1>7, <1>8


LEMMA AllRead ==
    ASSUME NEW c \in Seq(STRING), NEW left, NEW o, NEW k, ReadTo(c, left, o, k), c # <<>>,
           left = <<>> \/ o.help
    PROVE  /\ o.help <=> RequestOf(c).help
           /\ ~o.help => LastSource(c, SourceFlags(c), o.src)
<1>1. RequestOf(c).help <=> \E i \in Flags(c) : c[i] \in Helps
  BY DEF RequestOf, Helps
<1>2. ASSUME left = <<>> PROVE \A i \in Flags(c) : i < k
  BY <1>2 DEF ReadTo, Flags
<1>3. ASSUME left = <<>> PROVE SourcesTo(c, k) = SourceFlags(c)
  BY <1>2, <1>3 DEF SourcesTo, SourceFlags
<1>4. CASE o.help
  BY <1>1, <1>4 DEF ReadTo
<1>5. CASE ~o.help
  BY <1>1, <1>2, <1>3, <1>5 DEF ReadTo
<1> QED
  BY <1>4, <1>5

LEMMA SourcesAre ==
    ASSUME NEW c \in Seq(STRING), NEW path, LastSource(c, SourceFlags(c), path), path # NoPath
    PROVE  Sources(c) = FilesOf(path)
<1>1. PICK i \in SourceFlags(c) : path = c[i + 1] /\ \A j \in SourceFlags(c) : j <= i
  BY DEF LastSource
<1>2. SourceFlags(c) \subseteq Nat
  BY DEF SourceFlags, Flags
<1>3. {l \in SourceFlags(c) : \A j \in SourceFlags(c) : j <= l} = {i}
  BY <1>1, <1>2
<1> QED
  BY <1>1, <1>3 DEF Sources

OptionNames == {"src", "dest", "jre", "talmud", "main", "classpaths", "java", "holy", "fat", "help"}
AskedFor(c, o) ==
    /\ o.help <=> RequestOf(c).help
    /\ ~o.help => LastSource(c, SourceFlags(c), o.src)
ReadInv(p) ==
    /\ DOMAIN options[p] = OptionNames
    /\ phase[p] = "arguments" => \E k : ReadTo(command[p], arguments[p], options[p], k)
    /\ phase[p] \notin {"arguments", "failure"} => AskedFor(command[p], options[p])
    /\ phase[p] \notin {"arguments", "start", "success", "failure"} => ~options[p].help

(* Past the command line nothing changes the options. *)
LEMMA OptionsSettled ==
    ASSUME NEW p \in Proc, Compile(p) \/ BuildClass(p) \/ FinishClassFiles(p) \/ Bundle(p)
    PROVE  /\ options' = options /\ arguments' = arguments /\ loaders' = loaders
           /\ phase[p] \notin {"arguments", "start", "success", "failure"}
BY DEF Compile, CollectSources, ParseFile, AnalyzeFile, NextPass, Judge, Passes, ToSet, BuildClass,
       FinishClassFiles, Bundle, ChooseMain, EmbedClasspath, WriteManifest, RunJar, RemoveManifest,
       RemoveOld, MoveJar, Cleanup

(* Where a run goes from there. *)
LEMMA PhasesGoOn ==
    ASSUME Shape, NEW p \in Proc, Compile(p) \/ BuildClass(p) \/ FinishClassFiles(p) \/ Bundle(p)
    PROVE  phase'[p] \notin {"arguments", "start"}
<1> USE DEF Shape
<1>1. CASE CollectSources(p) \/ ParseFile(p) \/ AnalyzeFile(p)
  BY <1>1 DEF CollectSources, ParseFile, AnalyzeFile, Fatal, Goto, Passes, ToSet
<1>2. CASE NextPass(p)
  BY <1>2 DEF NextPass, Goto, PassAfter, Passes, ToSet
<1>3. CASE Judge(p)
  BY <1>3 DEF Judge, Fatal, Goto
<1>4. CASE BuildClass(p)
  BY <1>4 DEF BuildClass, Fatal, Goto
<1>5. CASE FinishClassFiles(p) \/ ChooseMain(p) \/ EmbedClasspath(p)
  BY <1>5 DEF FinishClassFiles, ChooseMain, EmbedClasspath, Fatal, Goto
<1>6. CASE WriteManifest(p) \/ RunJar(p) \/ RemoveManifest(p)
  BY <1>6 DEF WriteManifest, RunJar, RemoveManifest, Fatal, Goto
<1>7. CASE RemoveOld(p) \/ Cleanup(p)
  BY <1>7 DEF RemoveOld, Cleanup, Goto
<1>8. CASE MoveJar(p)
  BY <1>8, MovedAway DEF MoveJar, Renamed, Copied, Fatal, Goto
<1> QED
  BY <1>1, <1>2, <1>3, <1>4, <1>5, <1>6, <1>7, <1>8 DEF Compile, Bundle

LEMMA OwnRead ==
    ASSUME Shape, NEW p \in Proc, ReadInv(p), Step(p)
    PROVE  ReadInv(p)'
<1> USE DEF Shape
<1>0. command' = command /\ command[p] \in Seq(STRING)
  BY ShapeKept, OthersKept DEF Step, Compile, Bundle, ParseArgument, FinishArguments, NoArguments, Start,
     CollectSources, ParseFile, AnalyzeFile, NextPass, Judge, BuildClass, FinishClassFiles, ChooseMain,
     EmbedClasspath, WriteManifest, RunJar, RemoveManifest, RemoveOld, MoveJar, Cleanup, Given
<1>1. CASE ParseArgument(p)
  <2> DEFINE c == command[p]
             left == arguments[p]
             o == options[p]
  <2>1. PICK k : ReadTo(c, left, o, k)
    BY <1>1 DEF ParseArgument, ReadInv
  <2>2. left # <<>> /\ left \in Seq(STRING) /\ DOMAIN o = OptionNames /\ o.help \in BOOLEAN
    BY <1>1, <2>1 DEF ParseArgument, ReadInv, ReadTo
  <2>3. CASE Head(left) \in TakesValue /\ Tail(left) # <<>> /\ phase' = phase
    <3>1. /\ options'[p] = WithValue(o, Head(left), Head(Tail(left)))
          /\ arguments'[p] = Tail(Tail(left))
      BY <1>1, <2>3 DEF ParseArgument, TakesValue, Switches
    <3>2. /\ DOMAIN options'[p] = OptionNames /\ options'[p].help = o.help
          /\ options'[p].src = IF Head(left) = "--src" THEN Head(Tail(left)) ELSE o.src
      BY <2>2, <2>3, <3>1 DEF WithValue, TakesValue, OptionNames
    <3>3. ReadTo(c, arguments'[p], options'[p], k + 2)
      <4> HIDE DEF c, left, o
      <4> QED BY <1>0, <2>1, <2>2, <2>3, <3>1, <3>2, ReadValue DEF c
    <3> QED
      BY <1>0, <1>1, <2>3, <3>2, <3>3 DEF ReadInv, ParseArgument
  <2>4. CASE Head(left) \in Switches /\ phase' = phase
    <3>1. options'[p] = WithSwitch(o, Head(left)) /\ arguments'[p] = Tail(left)
      BY <1>1, <2>4 DEF ParseArgument, TakesValue, Switches
    <3>2. /\ DOMAIN options'[p] = OptionNames /\ options'[p].src = o.src
          /\ options'[p].help = (o.help \/ Head(left) \in Helps)
      BY <2>2, <2>4, <3>1 DEF WithSwitch, Switches, OptionNames, Helps
    <3>3. ReadTo(c, arguments'[p], options'[p], k + 1)
      <4> HIDE DEF c, left, o
      <4> QED BY <1>0, <2>1, <2>2, <2>4, <3>1, <3>2, ReadSwitch DEF c
    <3> QED
      BY <1>0, <1>1, <2>4, <3>2, <3>3 DEF ReadInv, ParseArgument
  <2>5. CASE Fatal(p) /\ options' = options
    BY <2>5 DEF ReadInv, Fatal, Goto
  <2> QED
    BY <1>1, <2>3, <2>4, <2>5 DEF ParseArgument
<1>2. CASE FinishArguments(p)
  <2>1. /\ phase[p] = "arguments" /\ phase'[p] = "start" /\ command[p] # <<>>
        /\ arguments[p] = <<>> \/ options[p].help
    BY <1>2 DEF FinishArguments, Goto
  <2>2. AskedFor(command[p], options[p])
    BY <1>0, <2>1, AllRead DEF ReadInv, AskedFor
  <2>3. /\ DOMAIN options'[p] = OptionNames /\ options'[p].src = options[p].src
        /\ options'[p].help = options[p].help
    BY <1>2 DEF FinishArguments, ReadInv, OptionNames
  <2> QED
    BY <1>0, <2>1, <2>2, <2>3 DEF ReadInv, AskedFor
<1>3. CASE NoArguments(p)
  <2>1. /\ phase'[p] = "start" /\ command[p] = <<>> /\ DOMAIN options'[p] = OptionNames
        /\ options'[p].help = TRUE
    BY <1>3 DEF NoArguments, Goto, ReadInv, OptionNames
  <2> QED
    BY <1>0, <2>1 DEF ReadInv, AskedFor, RequestOf
<1>4. CASE Start(p)
  BY <1>0, <1>4 DEF Start, Goto, ReadInv
<1>5. CASE Compile(p) \/ BuildClass(p) \/ FinishClassFiles(p) \/ Bundle(p)
  BY <1>0, <1>5, OptionsSettled, PhasesGoOn DEF ReadInv
<1> QED
  BY <1>1, <1>2, <1>3, <1>4, <1>5 DEF Step

LEMMA OthersRead ==
    ASSUME Shape, NEW p \in Proc, Step(p), NEW q \in Proc, q # p, ReadInv(q)
    PROVE  ReadInv(q)'
BY OthersKept DEF ReadInv


-----------------------------------------------------------------------------
(* The files that are compiled are those the command line asks for, and    *)
(* from the second pass on each of them is there.                          *)

LEMMA AllSources ==
    ASSUME NEW path, NEW order \in SourcesOf(path)
    PROVE  ToSet(order) = FilesOf(path)
<1>1. CASE IsDirectory(path)
  <2> DEFINE sources == Contents[path] \cap SourceFiles
             places == 1..Cardinality(sources)
  <2>1. IsFiniteSet(sources) /\ Cardinality(sources) \in Nat
    BY SourcesAreFinite, FS_Intersection, FS_CardinalityType
  <2>2. IsFiniteSet(places) /\ Cardinality(places) = Cardinality(sources)
    BY <2>1, FS_Interval
  <2>3. order \in [places -> sources] /\ \A i, j \in places : i # j => order[i] # order[j]
    BY <1>1 DEF SourcesOf, SetToSeqs
  <2> HIDE DEF sources, places
  <2>4. order \in Injection(places, sources)
    BY <2>3 DEF Injection, IsInjective
  <2>5. order \in Surjection(places, sources)
    BY <2>1, <2>2, <2>4, FS_Injection
  <2>6. \A f \in sources : \E i \in places : order[i] = f
    BY <2>5 DEF Surjection
  <2>7. ToSet(order) = sources
    BY <2>3, <2>6 DEF ToSet
  <2> QED
    BY <1>1, <2>7 DEF FilesOf, sources
<1>2. CASE ~IsDirectory(path)
  BY <1>2 DEF SourcesOf, FilesOf, ToSet
<1> QED
  BY <1>1, <1>2

Reading == {"parse", "collect", "post_collect", "analyze", "verdict"} \cup AfterVerdict
Regular(f) == f \in SourceFiles \/ ~IsDirectory(f)
FilesInv(p) ==
    /\ phase[p] \in Reading => /\ ToSet(files[p]) = Sources(command[p])
                               /\ \A i \in DOMAIN files[p] : Regular(files[p][i])
    /\ phase[p] = "parse" => \A i \in DOMAIN files[p] : i < next[p] => files[p][i] \in DOMAIN Program
    /\ phase[p] \in Reading \ {"parse"} => \A i \in DOMAIN files[p] : files[p][i] \in DOMAIN Program

LEMMA KnownFile ==
    ASSUME NEW f, Exists(f), Regular(f)
    PROVE  f \in DOMAIN Program
BY DiskAssumption DEF Exists, Regular, IsDirectory

LEMMA OwnFiles ==
    ASSUME Shape, NEW p \in Proc, ReadInv(p), GateInv(p), FilesInv(p), Step(p)
    PROVE  FilesInv(p)'
<1> USE DEF Shape
<1>0. command' = command /\ command[p] \in Seq(STRING)
  BY DEF Step, Compile, Bundle, ParseArgument, FinishArguments, NoArguments, Start,
     CollectSources, ParseFile, AnalyzeFile, NextPass, Judge, BuildClass, FinishClassFiles, ChooseMain,
     EmbedClasspath, WriteManifest, RunJar, RemoveManifest, RemoveOld, MoveJar, Cleanup, Given
<1>1. CASE ParseArgument(p) \/ FinishArguments(p) \/ NoArguments(p) \/ Start(p)
  <2>1. phase'[p] \in {"arguments", "start", "inputs", "success", "failure"}
    BY <1>1 DEF ParseArgument, FinishArguments, NoArguments, Start, Fatal, Goto
  <2> QED
    BY <2>1 DEF FilesInv, Reading, AfterVerdict
<1>2. CASE CollectSources(p)
  <2>1. CASE Fatal(p)
    BY <2>1 DEF Fatal, Goto, FilesInv, Reading, AfterVerdict
  <2>2. CASE ~Fatal(p)
    <3>1. /\ phase[p] = "inputs" /\ phase'[p] = "parse" /\ next' = next /\ options[p].src # NoPath
          /\ \E order \in SourcesOf(options[p].src) : files' = [files EXCEPT ![p] = order]
      BY <1>2, <2>2 DEF CollectSources, Goto
    <3>2. files'[p] \in SourcesOf(options[p].src)
      BY <3>1
    <3>3. Sources(command[p]) = FilesOf(options[p].src)
      BY <1>0, <3>1, SourcesAre DEF ReadInv, AskedFor
    <3>4. ToSet(files'[p]) = Sources(command[p])
      BY <3>2, <3>3, AllSources
    <3>5. \A i \in DOMAIN files'[p] : files'[p][i] \in FilesOf(options[p].src)
      BY <3>3, <3>4 DEF ToSet
    <3>6. \A i \in DOMAIN files'[p] : Regular(files'[p][i])
      BY <3>5 DEF Regular, FilesOf
    <3>7. \A i \in DOMAIN files'[p] : ~(i < next'[p])
      <4>1. next'[p] = 1 /\ DOMAIN files'[p] = 1..Len(files'[p])
        BY <3>1, <3>2, SourcesInOrder DEF GateInv
      <4>2. Len(files'[p]) \in Nat
        BY <3>2, SourcesInOrder
      <4> QED
        BY <4>1, <4>2
    <3> QED
      BY <1>0, <3>1, <3>4, <3>6, <3>7 DEF FilesInv
  <2> QED
    BY <2>1, <2>2
<1>3. CASE ParseFile(p)
  <2>1. CASE Fatal(p)
    BY <2>1 DEF Fatal, Goto, FilesInv, Reading, AfterVerdict
  <2>2. CASE ~Fatal(p)
    <3>1. /\ phase[p] = "parse" /\ phase' = phase /\ files' = files /\ next'[p] = next[p] + 1
          /\ Exists(files[p][next[p]]) /\ next[p] <= Len(files[p]) /\ next[p] \in Nat
      BY <1>3, <2>2 DEF ParseFile, GateInv
    <3>2. \A i \in DOMAIN files[p] : i < next[p] + 1 => i < next[p] \/ i = next[p]
      BY <3>1 DEF GateInv
    <3>3. \A i \in DOMAIN files[p] : i = next[p] => files[p][i] \in DOMAIN Program
      BY <3>1, KnownFile DEF FilesInv, Reading
    <3> QED
      BY <1>0, <3>1, <3>2, <3>3 DEF FilesInv
  <2> QED
    BY <2>1, <2>2
<1>4. CASE AnalyzeFile(p)
  BY <1>0, <1>4 DEF AnalyzeFile, Passes, ToSet, FilesInv
<1>5. CASE NextPass(p)
  <2>1. /\ files' = files /\ phase[p] \in {"parse", "collect", "post_collect", "analyze"}
        /\ next[p] > Len(files[p]) /\ phase'[p] \in Reading \ {"parse"}
    BY <1>5 DEF NextPass, Goto, PassAfter, Passes, ToSet, Reading, AfterVerdict
  <2>2. \A i \in DOMAIN files[p] : i < next[p]
    BY <2>1 DEF GateInv
  <2> QED
    BY <1>0, <2>1, <2>2 DEF FilesInv, Reading
<1>6. CASE Judge(p) \/ BuildClass(p) \/ FinishClassFiles(p) \/ Bundle(p)
  <2>1. files' = files /\ phase[p] \in Reading \ {"parse"}
    BY <1>6 DEF Judge, BuildClass, FinishClassFiles, Bundle, ChooseMain, EmbedClasspath, WriteManifest, RunJar,
                RemoveManifest, RemoveOld, MoveJar, Cleanup, Reading, AfterVerdict
  <2>2. phase'[p] # "parse"
    <3>1. CASE Judge(p)
      BY <3>1 DEF Judge, Fatal, Goto
    <3>2. CASE BuildClass(p) \/ FinishClassFiles(p) \/ ChooseMain(p) \/ EmbedClasspath(p)
      BY <3>2 DEF BuildClass, FinishClassFiles, ChooseMain, EmbedClasspath, Fatal, Goto
    <3>3. CASE WriteManifest(p) \/ RunJar(p) \/ RemoveManifest(p) \/ RemoveOld(p) \/ Cleanup(p)
      BY <3>3 DEF WriteManifest, RunJar, RemoveManifest, RemoveOld, Cleanup, Fatal, Goto
    <3>4. CASE MoveJar(p)
      BY <3>4, MovedAway DEF MoveJar, Renamed, Copied, Fatal, Goto
    <3> QED
      BY <1>6, <3>1, <3>2, <3>3, <3>4 DEF Bundle
  <2> QED
    BY <1>0, <2>1, <2>2 DEF FilesInv, Reading
<1> QED
  BY <1>1, <1>2, <1>3, <1>4, <1>5, <1>6 DEF Step, Compile

LEMMA OthersFiles ==
    ASSUME Shape, NEW p \in Proc, Step(p), NEW q \in Proc, q # p, FilesInv(q)
    PROVE  FilesInv(q)'
BY OthersKept DEF FilesInv

(* The types of a run are those of the files it was asked to compile.      *)
NamesOf(types) == {t.name : t \in types}

LEMMA TypesAre ==
    ASSUME NEW p \in Proc, GateInv(p), FilesInv(p), phase[p] \in Reading \ {"parse"}
    PROVE  /\ Len(Types(p)) \in Nat /\ DOMAIN Types(p) = 1..Len(Types(p))
           /\ NamesOf(ToSet(Types(p))) = RequestOf(command[p]).wanted
<1> DEFINE S == UNION {ToSet(Program[f].types) : f \in DOMAIN Program}
           s == [i \in DOMAIN files[p] |-> Program[files[p][i]].types]
<1>1. \A i \in DOMAIN files[p] : files[p][i] \in DOMAIN Program
  BY DEF FilesInv
<1>2. \A f \in DOMAIN Program : Program[f].types \in Seq(S)
  BY ProgramAssumption
<1>3. s \in Seq(Seq(S)) /\ DOMAIN s = DOMAIN files[p]
  <2>1. Len(files[p]) \in Nat /\ DOMAIN files[p] = 1..Len(files[p])
    BY DEF GateInv
  <2>2. \A i \in DOMAIN files[p] : Program[files[p][i]].types \in Seq(S)
    BY <1>1, <1>2
  <2> HIDE DEF S
  <2>3. \E n \in Nat : s \in [1..n -> Seq(S)]
    BY <2>1, <2>2
  <2> QED
    BY <2>3
<1>4. Types(p) \in Seq(S) /\ ToSet(Types(p)) = UNION {ToSet(s[i]) : i \in DOMAIN s}
  <2> HIDE DEF S, s
  <2> QED BY <1>3, Flattened DEF Types, s
<1>5. ToSet(Types(p)) = UNION {ToSet(Program[f].types) : f \in ToSet(files[p])}
  <2>1. \A i \in DOMAIN files[p] : s[i] = Program[files[p][i]].types
    OBVIOUS
  <2>2. ToSet(files[p]) = {files[p][i] : i \in DOMAIN files[p]}
    BY DEF ToSet
  <2> HIDE DEF s, S
  <2> QED
    <3>1. DOMAIN s = DOMAIN files[p]
      BY <1>3
    <3>2. UNION {ToSet(s[i]) : i \in DOMAIN s} = UNION {ToSet(Program[f].types) : f \in ToSet(files[p])}
      BY <2>1, <2>2, <3>1
    <3> QED
      BY <1>4, <3>2
<1>6. ToSet(files[p]) = Sources(command[p]) /\ ToSet(files[p]) \subseteq DOMAIN Program
  BY <1>1 DEF FilesInv, ToSet
<1>7. Sources(command[p]) \cap DOMAIN Program = ToSet(files[p])
  BY <1>6
<1>8. RequestOf(command[p]).wanted = UNION {NamesOf(ToSet(Program[f].types)) : f \in ToSet(files[p])}
  BY <1>7 DEF RequestOf, NamesOf
<1>9. NamesOf(ToSet(Types(p))) = RequestOf(command[p]).wanted
  BY <1>5, <1>8 DEF NamesOf
<1> QED
  BY <1>4, <1>9


-----------------------------------------------------------------------------
(* What is built: which classes are in the temporary directory, in the JAR *)
(* and at the destination, and whose manifest it is that the runs share.   *)

Owned(p, types, embedded, classes) ==
    \A t \in types : /\ t.name \in DOMAIN classes
                     /\ classes[t.name] = p \/ \E cp \in embedded : t.name \in Holds[cp]
Below(types, n) == {types[i] : i \in {j \in DOMAIN types : j < n}}
MadeFor(p, manifest, main, libraries, others) ==
    manifest = Manifest(p, main, libraries) \/ manifest.by \in (Proc \ {p}) \cap others

Bundling == {"embed", "bundle", "bundled", "remove", "move"}
Directed(p) == "classes" \in DOMAIN disk.temp[p]
BuildInv(p) ==
    /\ phase[p] = "start" /\ ~options[p].help => "." \in options[p].classpaths
    /\ phase[p] \notin {"arguments", "start", "success", "failure"} => loaders[p] # {}
    /\ phase[p] = "verdict" => next[p] = 1
    /\ phase[p] = "build" => next[p] # 0
    /\ phase[p] = "build" /\ ~JarOutput(p) => written[p] = NamesOf(Below(Types(p), next[p]))
    /\ phase[p] = "build" /\ JarOutput(p) =>
          Directed(p) /\ Owned(p, Below(Types(p), next[p]), {}, disk.temp[p].classes)
    /\ (phase[p] = "build" /\ JarOutput(p)) \/ phase[p] \in Bundling => written[p] = {}
    /\ phase[p] \in {"embed", "bundle"} =>
          /\ Directed(p) /\ Owned(p, ToSet(Types(p)), Embedded(p), disk.temp[p].classes)
          /\ pending[p] \subseteq Embedded(p)
    /\ phase[p] \in {"remove", "move"} => disk.jar[p] # Absent
    /\ disk.jar[p] # Absent =>
          /\ Owned(p, ToSet(Types(p)), Embedded(p), disk.jar[p].classes)
          /\ ~options[p].fat =>
                MadeFor(p, disk.jar[p].manifest, chosen[p], Libraries(p), accepted)
    /\ phase[p] = "cleanup" => written[p] = NamesOf(ToSet(Types(p)))

SharedInv ==
    /\ disk.manifest # NoManifest => disk.manifest.by \in accepted
    /\ \A p \in Proc : disk.manifest.by = p => disk.manifest = Manifest(p, chosen[p], Libraries(p))

LEMMA SameRun ==
    ASSUME NEW p \in Proc, files'[p] = files[p], options'[p] = options[p], loaders'[p] = loaders[p]
    PROVE  /\ Types(p)' = Types(p) /\ JarOutput(p)' = JarOutput(p) /\ Dest(p)' = Dest(p)
           /\ Libraries(p)' = Libraries(p) /\ Embedded(p)' = Embedded(p)
BY DEF Types, JarOutput, Dest, Libraries, Embedded

(* A class path put over the classes. *)
LEMMA OwnedPut ==
    ASSUME NEW p, NEW types, NEW embedded, NEW classes, NEW cp \in embedded,
           Owned(p, types, embedded, classes)
    PROVE  Owned(p, types, embedded, Put(classes, Holds[cp], NoPath))
<1> SUFFICES ASSUME NEW t \in types
             PROVE  /\ t.name \in DOMAIN Put(classes, Holds[cp], NoPath)
                    /\ \/ Put(classes, Holds[cp], NoPath)[t.name] = p
                       \/ \E other \in embedded : t.name \in Holds[other]
  BY DEF Owned
<1>1. /\ t.name \in DOMAIN classes
      /\ classes[t.name] = p \/ \E other \in embedded : t.name \in Holds[other]
  BY DEF Owned
<1> DEFINE more == Put(classes, Holds[cp], NoPath)
<1>2. /\ DOMAIN more = DOMAIN classes \cup Holds[cp]
      /\ \A c \in DOMAIN classes \cup Holds[cp] :
             more[c] = IF c \in Holds[cp] THEN NoPath ELSE classes[c]
  BY DEF Put
<1> HIDE DEF more
<1>3. t.name \in DOMAIN more /\ (t.name \notin Holds[cp] => more[t.name] = classes[t.name])
  BY <1>1, <1>2
<1>4. more[t.name] = p \/ \E other \in embedded : t.name \in Holds[other]
  BY <1>1, <1>3
<1> QED
  BY <1>3, <1>4 DEF more

LEMMA NextBuilt ==
    ASSUME NEW types, DOMAIN types = 1..Len(types), Len(types) \in Nat,
           NEW n \in Nat \ {0}, n <= Len(types)
    PROVE  Below(types, n + 1) = Below(types, n) \cup {types[n]}
<1>1. {j \in DOMAIN types : j < n + 1} = {j \in DOMAIN types : j < n} \cup {n}
  OBVIOUS
<1> QED
  BY <1>1 DEF Below

LEMMA AllBuilt ==
    ASSUME NEW types, DOMAIN types = 1..Len(types), Len(types) \in Nat, NEW n \in Nat
    PROVE  /\ n = 1 => Below(types, n) = {}
           /\ n > Len(types) => Below(types, n) = ToSet(types)
<1>1. n = 1 => {j \in DOMAIN types : j < n} = {}
  OBVIOUS
<1>2. n > Len(types) => {j \in DOMAIN types : j < n} = DOMAIN types
  OBVIOUS
<1> QED
  BY <1>1, <1>2 DEF Below, ToSet

LEMMA ClassOwned ==
    ASSUME NEW p, NEW types, NEW t, NEW classes, Owned(p, types, {}, classes)
    PROVE  Owned(p, types \cup {t}, {}, Put(classes, {t.name}, p))
<1> SUFFICES ASSUME NEW s \in types \cup {t}
             PROVE  /\ s.name \in DOMAIN Put(classes, {t.name}, p)
                    /\ Put(classes, {t.name}, p)[s.name] = p
  BY DEF Owned
<1> DEFINE more == Put(classes, {t.name}, p)
<1>0. /\ DOMAIN more = DOMAIN classes \cup {t.name}
      /\ \A c \in DOMAIN classes \cup {t.name} : more[c] = IF c \in {t.name} THEN p ELSE classes[c]
  BY DEF Put
<1> HIDE DEF more
<1>1. CASE s.name = t.name
  BY <1>0, <1>1 DEF more
<1>2. CASE s.name # t.name
  <2>1. s.name \in DOMAIN classes /\ classes[s.name] = p
    BY <1>2 DEF Owned
  <2> QED
    BY <1>0, <1>2, <2>1 DEF more
<1> QED
  BY <1>1, <1>2

(* Before anything is built. *)
LEMMA BuildNotBegun ==
    ASSUME Shape, NEW p \in Proc, ReadInv(p), GateInv(p), TempInv(p), BuildInv(p),
           ParseArgument(p) \/ FinishArguments(p) \/ NoArguments(p) \/ Start(p)
               \/ CollectSources(p) \/ ParseFile(p) \/ AnalyzeFile(p) \/ NextPass(p)
    PROVE  BuildInv(p)'
<1> USE DEF Shape
<1>1. /\ disk.jar[p] = Absent \/ phase[p] = "failure"
      /\ UNCHANGED <<disk, written, pending, accepted, chosen>>
      /\ phase[p] \in {"arguments", "start", "inputs", "parse", "collect", "post_collect", "analyze"}
  BY DEF TempInv, ParseArgument, FinishArguments, NoArguments, Start, CollectSources, ParseFile, AnalyzeFile,
         NextPass, Passes, ToSet
<1>2. disk'.jar[p] = Absent
  BY <1>1
<1>3. phase'[p] \in {"arguments", "start", "inputs", "parse", "collect", "post_collect", "analyze", "verdict",
                     "success", "failure"}
  <2>1. CASE ParseArgument(p) \/ FinishArguments(p) \/ NoArguments(p) \/ Start(p)
    BY <2>1 DEF ParseArgument, FinishArguments, NoArguments, Start, Fatal, Goto
  <2>2. CASE CollectSources(p) \/ ParseFile(p) \/ AnalyzeFile(p)
    BY <2>2 DEF CollectSources, ParseFile, AnalyzeFile, Fatal, Goto, Passes, ToSet
  <2>3. CASE NextPass(p)
    BY <2>3 DEF NextPass, PassAfter, Goto, Passes, ToSet
  <2> QED
    BY <2>1, <2>2, <2>3
<1>4. phase'[p] = "start" /\ ~options'[p].help => "." \in options'[p].classpaths
  <2>1. CASE FinishArguments(p)
    BY <2>1 DEF FinishArguments, ReadInv, OptionNames
  <2>2. CASE NoArguments(p)
    BY <2>2 DEF NoArguments, ReadInv, OptionNames
  <2>3. CASE ParseArgument(p)
    BY <2>3 DEF ParseArgument, Fatal, Goto
  <2>4. CASE Start(p) \/ CollectSources(p) \/ ParseFile(p) \/ AnalyzeFile(p)
    BY <2>4 DEF Start, CollectSources, ParseFile, AnalyzeFile, Fatal, Goto, Passes, ToSet
  <2>5. CASE NextPass(p)
    BY <2>5 DEF NextPass, PassAfter, Goto, Passes, ToSet
  <2> QED
    BY <2>1, <2>2, <2>3, <2>4, <2>5
<1>5. phase'[p] \notin {"arguments", "start", "success", "failure"} => loaders'[p] # {}
  <2>1. CASE Start(p) /\ phase'[p] = "inputs"
    <3>1. "." \in options[p].classpaths
      BY <2>1 DEF Start, Goto, BuildInv
    <3>2. HasLoader(".")
      BY DiskAssumption DEF HasLoader, IsDirectory, Exists
    <3> QED
      BY <2>1, <3>1, <3>2 DEF Start, Goto
  <2>2. CASE Start(p) /\ phase'[p] # "inputs"
    BY <2>2 DEF Start, Goto
  <2>3. CASE ParseArgument(p) \/ FinishArguments(p) \/ NoArguments(p)
    BY <2>3 DEF ParseArgument, FinishArguments, NoArguments, Fatal, Goto
  <2>4. CASE Compile(p)
    BY <2>4, OptionsSettled DEF BuildInv
  <2> QED
    BY <2>1, <2>2, <2>3, <2>4 DEF Compile
<1>6. phase'[p] = "verdict" => next'[p] = 1
  <2>1. CASE NextPass(p)
    BY <2>1 DEF NextPass
  <2>2. CASE ~NextPass(p)
    BY <1>1, <2>2 DEF ParseArgument, FinishArguments, NoArguments, Start, CollectSources, ParseFile, AnalyzeFile,
                      Fatal, Goto
  <2> QED
    BY <2>1, <2>2
<1> QED
  BY <1>2, <1>3, <1>4, <1>5, <1>6 DEF BuildInv, Bundling

(* The verdict: the directory of a JAR is made, empty. *)
LEMMA BuildBegun ==
    ASSUME Shape, NEW p \in Proc, GateInv(p), FilesInv(p), TempInv(p), BuildInv(p), Judge(p)
    PROVE  BuildInv(p)'
<1> USE DEF Shape
<1>1. /\ phase[p] = "verdict" /\ next[p] = 1 /\ loaders[p] # {} /\ disk.jar[p] = Absent
      /\ UNCHANGED <<command, options, loaders, files, next, chosen, pending, written>>
      /\ disk'.jar = disk.jar
  BY DEF Judge, BuildInv, TempInv
<1>2. CASE phase'[p] = "failure"
  BY <1>1, <1>2 DEF BuildInv, Bundling
<1>3. CASE phase'[p] = "build" /\ JarOutput(p) /\ disk' = [disk EXCEPT !.temp[p] = Directory(NoClasses)]
  <2>1. disk'.temp[p] = Directory(NoClasses) /\ "classes" \in DOMAIN disk'.temp[p]
    BY <1>3 DEF Directory
  <2>2. Below(Types(p), 1) = {}
    BY <1>1, TypesAre, AllBuilt DEF Reading
  <2>3. Owned(p, Below(Types(p), 1), {}, disk'.temp[p].classes)
    BY <2>2 DEF Owned
  <2>4. written[p] = {}
    BY <1>1 DEF GateInv, AfterVerdict
  <2> QED
    BY <1>1, <1>3, <2>1, <2>3, <2>4, SameRun DEF BuildInv, Bundling, Directed
<1>4. CASE phase'[p] = "build" /\ ~JarOutput(p)
  <2>1. Below(Types(p), 1) = {}
    BY <1>1, TypesAre, AllBuilt DEF Reading
  <2>2. written[p] = {} /\ NamesOf({}) = {}
    BY <1>1 DEF GateInv, AfterVerdict, NamesOf
  <2> QED
    BY <1>1, <1>4, <2>1, <2>2, SameRun DEF BuildInv, Bundling
<1> QED
  BY <1>2, <1>3, <1>4 DEF Judge, Fatal, Goto

(* One more class file. *)
LEMMA ClassBuilt ==
    ASSUME Shape, NEW p \in Proc, GateInv(p), FilesInv(p), TempInv(p), BuildInv(p), BuildClass(p)
    PROVE  BuildInv(p)'
<1> USE DEF Shape
<1> DEFINE t == Types(p)[next[p]]
<1>1. /\ phase[p] = "build" /\ next[p] \in Nat \ {0} /\ loaders[p] # {} /\ disk.jar[p] = Absent
      /\ UNCHANGED <<command, options, loaders, files, chosen, pending, accepted>>
      /\ next[p] <= Len(Types(p)) /\ disk'.jar = disk.jar
  BY DEF BuildClass, BuildInv, GateInv, TempInv, Store
<1>2. CASE phase'[p] = "failure"
  BY <1>1, <1>2 DEF BuildInv, Bundling
<1>3. CASE phase' = phase /\ next' = [next EXCEPT ![p] = next[p] + 1] /\ Store(p, t.name)
           /\ written' = IF JarOutput(p) THEN written
                         ELSE [written EXCEPT ![p] = written[p] \cup {t.name}]
  <2>1. Below(Types(p), next[p] + 1) = Below(Types(p), next[p]) \cup {t} /\ next'[p] = next[p] + 1
    BY <1>1, <1>3, TypesAre, NextBuilt DEF Reading, AfterVerdict
  <2>2. Types(p)' = Types(p) /\ JarOutput(p)' = JarOutput(p)
    BY <1>1, SameRun
  <2> HIDE DEF t
  <2>0. phase'[p] = "build" /\ next'[p] # 0 /\ disk'.jar[p] = Absent /\ loaders'[p] # {}
    BY <1>1, <1>3, <2>1
  <2>5. JarOutput(p) => written'[p] = {}
    BY <1>1, <1>3 DEF BuildInv
  <2>3. CASE JarOutput(p)
    <3>1. disk' = [disk EXCEPT !.temp[p].classes = Put(disk.temp[p].classes, {t.name}, p)]
      BY <1>3, <2>3 DEF Store
    <3>2. "classes" \in DOMAIN disk.temp[p]
      BY <1>1, <2>3 DEF BuildInv, Directed
    <3>3. disk'.temp[p].classes = Put(disk.temp[p].classes, {t.name}, p) /\ "classes" \in DOMAIN disk'.temp[p]
      BY <3>1, <3>2
    <3>4. Owned(p, Below(Types(p), next[p]) \cup {t}, {}, disk'.temp[p].classes)
      BY <1>1, <2>3, <3>3, ClassOwned DEF BuildInv
    <3> QED
      BY <2>0, <2>1, <2>2, <2>3, <2>5, <3>3, <3>4 DEF BuildInv, Bundling, Directed
  <2>4. CASE ~JarOutput(p)
    <3>1. written'[p] = NamesOf(Below(Types(p), next[p])) \cup {t.name}
      BY <1>1, <1>3, <2>4 DEF BuildInv
    <3>2. written'[p] = NamesOf(Below(Types(p), next[p]) \cup {t})
      BY <3>1 DEF NamesOf
    <3> QED
      BY <2>0, <2>1, <2>2, <2>4, <3>2 DEF BuildInv, Bundling
  <2> QED
    BY <2>3, <2>4
<1> QED
  BY <1>2, <1>3 DEF BuildClass, Fatal, Goto


(* The main class is looked for when every class is in the directory. *)
LEMMA MainChosen ==
    ASSUME Shape, NEW p \in Proc, GateInv(p), FilesInv(p), TempInv(p), BuildInv(p),
           FinishClassFiles(p) \/ ChooseMain(p)
    PROVE  BuildInv(p)'
<1> USE DEF Shape
<1>1. /\ phase[p] = "build" /\ next[p] \in Nat /\ next[p] > Len(Types(p)) /\ disk.jar[p] = Absent
      /\ UNCHANGED <<command, options, loaders, files, next, written, accepted, disk>> /\ loaders[p] # {}
  BY DEF FinishClassFiles, ChooseMain, BuildInv, GateInv, TempInv, Built
<1>2. CASE phase'[p] \in {"success", "failure"}
  BY <1>1, <1>2 DEF BuildInv, Bundling
<1>3. CASE phase'[p] = "embed" /\ JarOutput(p) /\ pending'[p] = Embedded(p)
  <2>1. Below(Types(p), next[p]) = ToSet(Types(p))
    BY <1>1, TypesAre, AllBuilt DEF Reading, AfterVerdict
  <2>2. Directed(p) /\ Owned(p, ToSet(Types(p)), {}, disk.temp[p].classes) /\ written[p] = {}
    BY <1>1, <1>3, <2>1 DEF BuildInv
  <2>3. Owned(p, ToSet(Types(p)), Embedded(p), disk.temp[p].classes)
    BY <2>2 DEF Owned
  <2> QED
    BY <1>1, <1>3, <2>2, <2>3, SameRun DEF BuildInv, Bundling, Directed
<1> QED
  BY <1>2, <1>3 DEF FinishClassFiles, ChooseMain, Fatal, Goto

LEMMA ClasspathEmbedded ==
    ASSUME Shape, NEW p \in Proc, TempInv(p), BuildInv(p), EmbedClasspath(p)
    PROVE  BuildInv(p)'
<1> USE DEF Shape
<1>1. /\ phase[p] = "embed" /\ disk.jar[p] = Absent /\ disk'.jar = disk.jar /\ loaders[p] # {}
      /\ UNCHANGED <<command, options, loaders, files, next, written, accepted>>
      /\ Directed(p) /\ Owned(p, ToSet(Types(p)), Embedded(p), disk.temp[p].classes)
      /\ pending[p] \subseteq Embedded(p) /\ written[p] = {}
  BY DEF EmbedClasspath, BuildInv, TempInv, Bundling
<1>2. PICK cp \in pending[p] :
          /\ pending' = [pending EXCEPT ![p] = @ \ {cp}]
          /\ \/ /\ disk' = [disk EXCEPT !.temp[p].classes = Put(@, Holds[cp], NoPath)]
                /\ UNCHANGED <<phase, errors>>
             \/ Fatal(p)
  BY DEF EmbedClasspath
<1>3. CASE Fatal(p)
  BY <1>1, <1>3 DEF BuildInv, Bundling, Fatal, Goto
<1>4. CASE UNCHANGED phase /\ disk' = [disk EXCEPT !.temp[p].classes = Put(@, Holds[cp], NoPath)]
  <2>1. /\ "classes" \in DOMAIN disk'.temp[p]
        /\ disk'.temp[p].classes = Put(disk.temp[p].classes, Holds[cp], NoPath)
    BY <1>1, <1>4 DEF Directed
  <2>2. Owned(p, ToSet(Types(p)), Embedded(p), disk'.temp[p].classes)
    BY <1>1, <1>2, <2>1, OwnedPut
  <2>3. pending'[p] \subseteq Embedded(p)
    BY <1>1, <1>2
  <2>4. /\ phase'[p] = "embed" /\ disk'.jar[p] = Absent /\ loaders'[p] # {} /\ written'[p] = {}
        /\ Types(p)' = Types(p) /\ Embedded(p)' = Embedded(p)
    BY <1>1, <1>4, SameRun
  <2> QED
    BY <2>1, <2>2, <2>3, <2>4 DEF BuildInv, Bundling, Directed
<1> QED
  BY <1>2, <1>3, <1>4

(* Nothing is left to embed in the JAR, so its classes are settled. *)
LEMMA ManifestWritten ==
    ASSUME Shape, NEW p \in Proc, TempInv(p), BuildInv(p), WriteManifest(p)
    PROVE  BuildInv(p)'
<1> USE DEF Shape
<1>1. /\ phase[p] = "embed" /\ phase'[p] = "bundle" /\ disk.jar[p] = Absent
      /\ disk'.jar = disk.jar /\ disk'.temp = disk.temp
      /\ UNCHANGED <<command, options, loaders, files, next, written, accepted, pending>>
  BY DEF WriteManifest, TempInv, Goto
<1>2. Types(p)' = Types(p) /\ Embedded(p)' = Embedded(p)
  BY <1>1, SameRun
<1> QED
  BY <1>1, <1>2 DEF BuildInv, Bundling, Directed

(* The manifest found at the shared path is that of this run, or another   *)
(* run that was accepted wrote it.                                         *)
LEMMA JarMade ==
    ASSUME Shape, NEW p \in Proc, TempInv(p), BuildInv(p), SharedInv, RunJar(p)
    PROVE  BuildInv(p)'
<1> USE DEF Shape
<1>1. /\ phase[p] = "bundle" /\ phase'[p] = "bundled" /\ disk.jar[p] = Absent /\ loaders[p] # {}
      /\ UNCHANGED <<command, options, loaders, files, next, written, accepted, pending, chosen>>
      /\ written[p] = {} /\ Owned(p, ToSet(Types(p)), Embedded(p), disk.temp[p].classes)
  BY DEF RunJar, TempInv, Goto, BuildInv, Bundling
<1>2. Types(p)' = Types(p) /\ Embedded(p)' = Embedded(p) /\ Libraries(p)' = Libraries(p)
  BY <1>1, SameRun
<1>3. CASE UNCHANGED disk
  BY <1>1, <1>3 DEF BuildInv, Bundling
<1>4. CASE /\ HasManifest(p) => disk.manifest # NoManifest
           /\ disk' = [disk EXCEPT !.jar[p] = Jar(disk.temp[p].classes,
                           IF HasManifest(p) THEN disk.manifest ELSE NoManifest)]
  <2>1. /\ disk'.jar[p].classes = disk.temp[p].classes
        /\ disk'.jar[p].manifest = IF HasManifest(p) THEN disk.manifest ELSE NoManifest
    BY <1>4 DEF Jar
  <2>2. ASSUME ~options[p].fat
        PROVE  MadeFor(p, disk'.jar[p].manifest, chosen[p], Libraries(p), accepted)
    <3>1. HasManifest(p)
      BY <1>1, <2>2 DEF HasManifest
    <3>2. disk'.jar[p].manifest = disk.manifest /\ disk.manifest # NoManifest
      BY <1>4, <2>1, <3>1
    <3> QED
      BY <3>2 DEF SharedInv, MadeFor, Given
  <2> QED
    BY <1>1, <1>2, <2>1, <2>2 DEF BuildInv, Bundling
<1> QED
  BY <1>3, <1>4 DEF RunJar

LEMMA JarMoves ==
    ASSUME Shape, NEW p \in Proc, BuildInv(p), RemoveManifest(p) \/ RemoveOld(p)
    PROVE  BuildInv(p)'
<1> USE DEF Shape
<1>1. /\ phase[p] \in {"bundled", "remove"} /\ disk'.jar = disk.jar /\ loaders[p] # {} /\ written[p] = {}
      /\ UNCHANGED <<command, options, loaders, files, next, written, accepted, pending, chosen>>
  BY DEF RemoveManifest, RemoveOld, BuildInv, Bundling
<1>2. Types(p)' = Types(p) /\ Embedded(p)' = Embedded(p) /\ Libraries(p)' = Libraries(p)
  BY <1>1, SameRun
<1>3. /\ phase'[p] \in {"remove", "move", "failure"}
      /\ phase'[p] # "failure" => disk.jar[p] # Absent
  BY DEF RemoveManifest, RemoveOld, Fatal, Goto, BuildInv
<1> QED
  BY <1>1, <1>2, <1>3 DEF BuildInv, Bundling

LEMMA JarMoved ==
    ASSUME Shape, NEW p \in Proc, BuildInv(p), MoveJar(p)
    PROVE  BuildInv(p)'
<1> USE DEF Shape
<1>1. /\ phase[p] = "move" /\ loaders[p] # {} /\ disk.jar[p] # Absent
      /\ Owned(p, ToSet(Types(p)), Embedded(p), disk.jar[p].classes)
      /\ UNCHANGED <<command, options, loaders, files, next, accepted, pending, chosen>>
  BY DEF MoveJar, BuildInv
<1>2. Types(p)' = Types(p) /\ Embedded(p)' = Embedded(p) /\ Libraries(p)' = Libraries(p)
  BY <1>1, SameRun
<1>3. CASE Fatal(p) /\ UNCHANGED <<disk, written>>
  <2>1. phase'[p] = "failure"
    BY <1>3 DEF Fatal, Goto
  <2> QED
    BY <1>1, <1>2, <1>3, <2>1 DEF BuildInv, Bundling
<1>4. CASE Delivered(p, Absent)
  <2>1. disk'.jar[p] = Absent /\ phase'[p] = "cleanup"
    BY <1>4, MovedAway
  <2>2. written'[p] = NamesOf(ToSet(Types(p))) \cap DOMAIN disk.jar[p].classes
    BY <1>4 DEF Delivered, NamesOf
  <2>3. written'[p] = NamesOf(ToSet(Types(p)))
    BY <1>1, <2>2 DEF NamesOf, Owned
  <2> QED
    BY <1>1, <1>2, <2>1, <2>3 DEF BuildInv, Bundling
<1> QED
  BY <1>3, <1>4 DEF MoveJar, Renamed, Copied

LEMMA OwnBuild ==
    ASSUME Shape, NEW p \in Proc, ReadInv(p), GateInv(p), FilesInv(p), TempInv(p), BuildInv(p), SharedInv,
           Step(p)
    PROVE  BuildInv(p)'
<1>1. CASE Cleanup(p)
  <2>1. phase'[p] = "success" /\ disk'.jar[p] = Absent
    BY <1>1 DEF Cleanup, WithoutTemp, Goto, TempInv, Shape
  <2> QED
    BY <2>1 DEF BuildInv, Bundling
<1>2. CASE ~Cleanup(p)
  BY <1>2, BuildNotBegun, BuildBegun, ClassBuilt, MainChosen, ClasspathEmbedded, ManifestWritten, JarMade,
     JarMoves, JarMoved DEF Step, Compile, Bundle
<1> QED
  BY <1>1, <1>2

LEMMA OthersBuild ==
    ASSUME Shape, NEW p \in Proc, Step(p), NEW q \in Proc, q # p, BuildInv(q)
    PROVE  BuildInv(q)'
<1>1. /\ phase'[q] = phase[q] /\ options'[q] = options[q] /\ loaders'[q] = loaders[q]
      /\ files'[q] = files[q] /\ next'[q] = next[q] /\ written'[q] = written[q] /\ chosen'[q] = chosen[q]
      /\ pending'[q] = pending[q] /\ disk'.temp[q] = disk.temp[q] /\ disk'.jar[q] = disk.jar[q]
  BY OthersKept
<1>2. \A other \in accepted : other \in accepted'
  BY OthersKept DEF Shape, Given, Step, Compile, Bundle, ParseArgument, FinishArguments, NoArguments, Start,
     CollectSources, ParseFile, AnalyzeFile, NextPass, Judge, BuildClass, FinishClassFiles, ChooseMain,
     EmbedClasspath, WriteManifest, RunJar, RemoveManifest, RemoveOld, MoveJar, Cleanup
<1>3. /\ Types(q)' = Types(q) /\ JarOutput(q)' = JarOutput(q)
      /\ Libraries(q)' = Libraries(q) /\ Embedded(q)' = Embedded(q)
  BY <1>1, SameRun
<1>4. \A manifest : MadeFor(q, manifest, chosen[q], Libraries(q), accepted)
                      => MadeFor(q, manifest, chosen[q], Libraries(q), accepted')
  BY <1>2 DEF MadeFor
<1> QED
  BY <1>1, <1>3, <1>4 DEF BuildInv, Directed


-----------------------------------------------------------------------------
(* The manifest that the runs share *)

LEMMA ManifestStep ==
    ASSUME Shape, NEW p \in Proc, Step(p)
    PROVE  /\ accepted \subseteq accepted'
           /\ \/ disk'.manifest = disk.manifest
              \/ disk'.manifest = NoManifest
              \/ phase[p] = "embed" /\ disk'.manifest = Manifest(p, chosen[p], Libraries(p))
<1> USE DEF Shape
<1>1. CASE WriteManifest(p) \/ RemoveManifest(p)
  BY <1>1 DEF WriteManifest, RemoveManifest, ClassPath
<1>2. CASE RunJar(p) \/ EmbedClasspath(p) \/ Cleanup(p)
  BY <1>2 DEF RunJar, EmbedClasspath, Cleanup, WithoutTemp
<1>3. CASE MoveJar(p)
  BY <1>3, MovedAway DEF MoveJar, Renamed, Copied
<1>4. CASE BuildClass(p) \/ RemoveOld(p)
  BY <1>4 DEF BuildClass, Store, RemoveOld
<1>5. CASE Judge(p)
  BY <1>5 DEF Judge
<1>6. CASE FinishClassFiles(p) \/ ChooseMain(p)
  BY <1>6 DEF FinishClassFiles, ChooseMain
<1>7. CASE CollectSources(p) \/ ParseFile(p) \/ AnalyzeFile(p) \/ NextPass(p)
  BY <1>7 DEF CollectSources, ParseFile, AnalyzeFile, NextPass
<1>8. CASE ParseArgument(p) \/ FinishArguments(p) \/ NoArguments(p) \/ Start(p)
  BY <1>8 DEF ParseArgument, FinishArguments, NoArguments, Start
<1> QED
  BY <1>1, <1>2, <1>3, <1>4, <1>5, <1>6, <1>7, <1>8 DEF Step, Compile, Bundle

(* While a run bundles, what its manifest was made from is settled. *)
LEMMA BundleSettled ==
    ASSUME NEW p \in Proc, Step(p), phase[p] \in {"embed", "bundle", "bundled"}
    PROVE  chosen' = chosen /\ loaders' = loaders
BY DEF Step, Compile, Bundle, ParseArgument, FinishArguments, NoArguments, Start, CollectSources, ParseFile,
       AnalyzeFile, Passes, ToSet, NextPass, Judge, BuildClass, FinishClassFiles, ChooseMain, EmbedClasspath,
       WriteManifest, RunJar, RemoveManifest, RemoveOld, MoveJar, Cleanup

LEMMA SharedKept ==
    ASSUME Shape, SharedInv, NEW p \in Proc, Step(p), TempInv(p), GateInv(p)
    PROVE  SharedInv'
<1>1. CASE disk'.manifest = disk.manifest
  <2>1. disk'.manifest # NoManifest => disk'.manifest.by \in accepted'
    BY <1>1, ManifestStep DEF SharedInv
  <2>2. ASSUME NEW q \in Proc, disk'.manifest.by = q
        PROVE  disk'.manifest = Manifest(q, chosen'[q], Libraries(q)')
    <3>1. disk.manifest = Manifest(q, chosen[q], Libraries(q))
      BY <1>1, <2>2 DEF SharedInv
    <3>2. chosen'[q] = chosen[q] /\ loaders'[q] = loaders[q]
      <4>1. CASE q = p
        <5>1. phase[p] \in {"embed", "bundle", "bundled"}
          BY <1>1, <2>2, <4>1 DEF TempInv
        <5> QED
          BY <4>1, <5>1, BundleSettled
      <4>2. CASE q # p
        BY <4>2, OthersKept
      <4> QED
        BY <4>1, <4>2
    <3> QED
      BY <1>1, <3>1, <3>2 DEF Libraries
  <2> QED
    BY <2>1, <2>2 DEF SharedInv
<1>2. CASE disk'.manifest = NoManifest
  BY <1>2, NoPathIsNoRun DEF SharedInv, NoManifest
<1>3. CASE phase[p] = "embed" /\ disk'.manifest = Manifest(p, chosen[p], Libraries(p))
  <2>1. disk'.manifest.by = p
    BY <1>3 DEF Manifest
  <2>2. p \in accepted'
    BY <1>3, ManifestStep DEF GateInv, AfterVerdict
  <2>3. Libraries(p)' = Libraries(p) /\ chosen'[p] = chosen[p]
    BY <1>3, BundleSettled DEF Libraries
  <2> QED
    BY <1>3, <2>1, <2>2, <2>3 DEF SharedInv
<1> QED
  BY <1>1, <1>2, <1>3, ManifestStep

-----------------------------------------------------------------------------
(* All of it together *)

RunInv(p) == TempInv(p) /\ GateInv(p) /\ ReadInv(p) /\ FilesInv(p) /\ BuildInv(p)
DriverInv == Shape /\ SharedInv /\ \A p \in Proc : RunInv(p)

LEMMA DriverInvKept ==
    ASSUME DriverInv, [Next]_vars
    PROVE  DriverInv'
<1>1. ASSUME NEW p \in Proc, Step(p) PROVE DriverInv'
  <2>1. Shape /\ SharedInv /\ RunInv(p)
    BY DEF DriverInv
  <2>2. Shape' /\ SharedInv'
    BY <1>1, <2>1, ShapeKept, SharedKept DEF RunInv
  <2>3. RunInv(p)'
    BY <1>1, <2>1, OwnTemp, OwnGate, OwnRead, OwnFiles, OwnBuild DEF RunInv
  <2>4. ASSUME NEW q \in Proc, q # p PROVE RunInv(q)'
    <3>1. RunInv(q)
      BY DEF DriverInv
    <3> QED
      BY <1>1, <2>1, <2>4, <3>1, OthersTemp, OthersGate, OthersRead, OthersFiles, OthersBuild DEF RunInv
  <2> QED
    BY <2>2, <2>3, <2>4 DEF DriverInv
<1>2. CASE UNCHANGED vars
  <2> USE <1>2 DEF vars
  <2>1. Shape' /\ SharedInv'
    BY DEF DriverInv, Shape, Given, SharedInv, Libraries
  <2>2. ASSUME NEW p \in Proc PROVE RunInv(p)'
    <3>1. RunInv(p)
      BY DEF DriverInv
    <3>2. /\ Types(p)' = Types(p) /\ JarOutput(p)' = JarOutput(p) /\ HasManifest(p)' = HasManifest(p)
          /\ Libraries(p)' = Libraries(p) /\ Embedded(p)' = Embedded(p)
      BY SameRun DEF HasManifest
    <3>3. TempInv(p)' /\ GateInv(p)'
      BY <3>1, <3>2 DEF RunInv, TempInv, HasTemp, GateInv, FreeSoFar, Free
    <3>4. ReadInv(p)' /\ FilesInv(p)'
      BY <3>1 DEF RunInv, ReadInv, FilesInv
    <3>5. BuildInv(p)'
      BY <3>1, <3>2 DEF RunInv, BuildInv, Directed
    <3> QED
      BY <3>3, <3>4, <3>5 DEF RunInv
  <2> QED
    BY <2>1, <2>2 DEF DriverInv
<1> QED
  BY <1>1, <1>2 DEF Next, Done

LEMMA DriverInvHolds == Spec => []DriverInv
<1>1. Init => DriverInv
  <2> SUFFICES ASSUME Init PROVE DriverInv
    OBVIOUS
  <2>1. Shape
    BY CompilationsOnly DEF Init, Shape, Given
  <2>2. SharedInv
    BY NoPathIsNoRun DEF Init, SharedInv, NoManifest
  <2>3. ASSUME NEW p \in Proc PROVE RunInv(p)
    <3>1. TempInv(p)
      BY NoPathIsNoRun DEF Init, TempInv, Absent, NoManifest
    <3>2. GateInv(p)
      BY DEF Init, GateInv, PassesOver, AfterVerdict
    <3>3. command[p] \in Seq(STRING) /\ arguments[p] = command[p] /\ options[p] = DefaultOptions
          /\ phase[p] = "arguments" /\ disk.jar[p] = Absent
      BY <2>1 DEF Init, Shape, Given
    <3>4. ReadInv(p)
      BY <3>3, ReadNothing DEF ReadInv, DefaultOptions, OptionNames
    <3>5. FilesInv(p)
      BY <3>3 DEF FilesInv, Reading, AfterVerdict
    <3>6. BuildInv(p)
      BY <3>3 DEF BuildInv, Bundling
    <3> QED
      BY <3>1, <3>2, <3>4, <3>5, <3>6 DEF RunInv
  <2> QED
    BY <2>1, <2>2, <2>3 DEF DriverInv
<1>2. DriverInv /\ [Next]_vars => DriverInv'
  BY DriverInvKept
<1> QED
  BY <1>1, <1>2, PTL DEF Spec

(* JarIsOwn: a JAR holds what its run compiled, and without libraries in   *)
(* it the manifest of its run, or that of another run that was accepted.   *)
THEOREM JarsAreOwn == Spec => []JarIsOwn
<1>1. DriverInv => JarIsOwn
  <2> SUFFICES ASSUME DriverInv, NEW p \in Proc, disk.jar[p] # Absent
               PROVE  /\ ~options[p].fat =>
                            \/ disk.jar[p].manifest = Manifest(p, chosen[p], Libraries(p))
                            \/ disk.jar[p].manifest.by \in (Proc \ {p}) \cap accepted
                      /\ \A t \in ToSet(Types(p)) :
                            \/ disk.jar[p].classes[t.name] = p
                            \/ options[p].fat /\ \E cp \in Libraries(p) : t.name \in Holds[cp]
    BY DEF JarIsOwn
  <2>1. /\ Owned(p, ToSet(Types(p)), Embedded(p), disk.jar[p].classes)
        /\ ~options[p].fat => MadeFor(p, disk.jar[p].manifest, chosen[p], Libraries(p), accepted)
    BY DEF DriverInv, RunInv, BuildInv
  <2> QED
    BY <2>1 DEF Owned, MadeFor, Embedded
<1> QED
  BY <1>1, DriverInvHolds, PTL


-----------------------------------------------------------------------------
(* The contract *)

(* What a step is to whoever started the runs. *)
GoesOn(p) == Running(p)' /\ UNCHANGED <<accepted, written>>
Fails(p) == phase'[p] = "failure" /\ UNCHANGED <<accepted, written>>
Succeeds(p) ==
    /\ phase'[p] = "success" /\ UNCHANGED <<accepted, written>>
    /\ (Start(p) /\ options[p].help) \/ FinishClassFiles(p) \/ Cleanup(p)
Accepts(p) ==
    /\ phase[p] = "verdict" /\ phase'[p] = "build" /\ ~errors[p]
    /\ accepted' = accepted \cup {p} /\ UNCHANGED written
Delivers(p) ==
    /\ Running(p)' /\ UNCHANGED accepted
    /\ (BuildClass(p) /\ ~JarOutput(p)) \/ (MoveJar(p) /\ Delivered(p, Absent))
    /\ \E more : written' = [written EXCEPT ![p] = more]

LEMMA StepKinds ==
    ASSUME Shape, NEW p \in Proc, Step(p)
    PROVE  /\ Running(p) /\ command' = command
           /\ GoesOn(p) \/ Fails(p) \/ Succeeds(p) \/ Accepts(p) \/ Delivers(p)
<1> USE DEF Shape, Running
<1>1. CASE ParseArgument(p) \/ FinishArguments(p) \/ NoArguments(p)
  BY <1>1 DEF ParseArgument, FinishArguments, NoArguments, Fatal, Goto, GoesOn, Fails
<1>2. CASE Start(p)
  BY <1>2 DEF Start, Goto, GoesOn, Fails, Succeeds
<1>3. CASE CollectSources(p) \/ ParseFile(p) \/ AnalyzeFile(p)
  BY <1>3 DEF CollectSources, ParseFile, AnalyzeFile, Passes, ToSet, Fatal, Goto, GoesOn, Fails
<1>4. CASE NextPass(p)
  BY <1>4 DEF NextPass, Passes, ToSet, PassAfter, Goto, GoesOn
<1>5. CASE Judge(p)
  BY <1>5 DEF Judge, Rejected, Fatal, Goto, Fails, Accepts
<1>6. CASE BuildClass(p)
  <2>1. phase[p] = "build" /\ UNCHANGED <<command, accepted>>
    BY <1>6 DEF BuildClass
  <2>2. CASE Fatal(p) /\ UNCHANGED written
    BY <2>1, <2>2 DEF Fatal, Goto, Fails
  <2>3. CASE UNCHANGED phase /\ JarOutput(p) /\ UNCHANGED written
    BY <2>1, <2>3 DEF GoesOn
  <2>4. CASE UNCHANGED phase /\ ~JarOutput(p) /\ \E more : written' = [written EXCEPT ![p] = more]
    BY <1>6, <2>1, <2>4 DEF Delivers
  <2> QED
    BY <1>6, <2>2, <2>3, <2>4 DEF BuildClass
<1>7. CASE FinishClassFiles(p) \/ ChooseMain(p) \/ EmbedClasspath(p)
  BY <1>7 DEF FinishClassFiles, ChooseMain, EmbedClasspath, Fatal, Goto, GoesOn, Fails, Succeeds
<1>8. CASE WriteManifest(p) \/ RunJar(p) \/ RemoveManifest(p)
  BY <1>8 DEF WriteManifest, RunJar, RemoveManifest, Fatal, Goto, GoesOn, Fails
<1>9. CASE RemoveOld(p) \/ Cleanup(p)
  BY <1>9 DEF RemoveOld, Cleanup, Goto, GoesOn, Succeeds
<1>10. CASE MoveJar(p)
  <2>1. phase[p] = "move" /\ UNCHANGED <<command, accepted>>
    BY <1>10 DEF MoveJar
  <2>2. CASE Fatal(p) /\ UNCHANGED <<disk, written>>
    BY <2>1, <2>2 DEF Fatal, Goto, Fails
  <2>3. CASE Delivered(p, Absent)
    <3>1. phase'[p] = "cleanup" /\ \E more : written' = [written EXCEPT ![p] = more]
      BY <2>3 DEF Delivered, Goto
    <3> QED
      BY <1>10, <2>1, <2>3, <3>1 DEF Delivers
  <2> QED
    BY <1>10, <2>2, <2>3 DEF MoveJar, Renamed, Copied
<1> QED
  BY <1>1, <1>2, <1>3, <1>4, <1>5, <1>6, <1>7, <1>8, <1>9, <1>10 DEF Step, Compile, Bundle

(* A program that is accepted has no fault in any of its files. *)
LEMMA AcceptedIsClean ==
    ASSUME NEW p \in Proc, RunInv(p), phase[p] = "verdict", ~errors[p]
    PROVE  RequestOf(command[p]).clean /\ ~RequestOf(command[p]).help
<1>1. ~RequestOf(command[p]).help
  BY DEF RunInv, ReadInv, AskedFor
<1>2. ToSet(files[p]) = Sources(command[p])
  BY DEF RunInv, FilesInv, Reading
<1>3. ASSUME NEW i \in DOMAIN files[p]
      PROVE  files[p][i] \in DOMAIN Program /\ Program[files[p][i]].fault = "none"
  <2>1. files[p][i] \in DOMAIN Program
    BY DEF RunInv, FilesInv, Reading
  <2>2. \A pass \in {"parse", "collect", "post_collect", "analyze"} : Program[files[p][i]].fault # pass
    BY DEF RunInv, GateInv, PassesOver, Free
  <2> QED
    BY <2>1, <2>2, ProgramAssumption
<1>4. \A f \in Sources(command[p]) : f \in DOMAIN Program /\ Program[f].fault = "none"
  BY <1>2, <1>3 DEF ToSet
<1> QED
  BY <1>1, <1>4 DEF RequestOf

(* Nothing but classes of the program gets to the destination, and none of *)
(* them goes away.                                                         *)
LEMMA DeliveredIsWanted ==
    ASSUME Shape, NEW p \in Proc, RunInv(p), Delivers(p)
    PROVE  /\ p \in accepted /\ written[p] \subseteq written'[p]
           /\ written'[p] \subseteq RequestOf(command[p]).wanted
<1>1. CASE BuildClass(p) /\ ~JarOutput(p)
  <2>1. phase[p] = "build" /\ p \in accepted
    BY <1>1 DEF BuildClass, RunInv, GateInv, AfterVerdict
  <2>2. /\ Len(Types(p)) \in Nat /\ DOMAIN Types(p) = 1..Len(Types(p))
        /\ NamesOf(ToSet(Types(p))) = RequestOf(command[p]).wanted
    BY <2>1, TypesAre DEF RunInv, Reading, AfterVerdict
  <2>3. written[p] = NamesOf(Below(Types(p), next[p])) /\ next[p] \in Nat \ {0}
    BY <1>1, <2>1 DEF RunInv, BuildInv, GateInv
  <2>4. written[p] \subseteq RequestOf(command[p]).wanted
    BY <2>2, <2>3 DEF NamesOf, Below, ToSet
  <2>5. CASE written' = written
    BY <2>1, <2>4, <2>5
  <2>6. CASE /\ next[p] <= Len(Types(p))
             /\ written' = [written EXCEPT ![p] = written[p] \cup {Types(p)[next[p]].name}]
    <3>1. Types(p)[next[p]].name \in NamesOf(ToSet(Types(p)))
      BY <2>2, <2>3, <2>6 DEF NamesOf, ToSet
    <3> QED
      BY <2>1, <2>2, <2>4, <2>6, <3>1 DEF Shape
  <2> QED
    BY <1>1, <2>5, <2>6 DEF BuildClass
<1>2. CASE MoveJar(p) /\ Delivered(p, Absent)
  <2>1. phase[p] = "move" /\ p \in accepted /\ written[p] = {}
    BY <1>2 DEF MoveJar, RunInv, GateInv, AfterVerdict, BuildInv, Bundling
  <2>2. NamesOf(ToSet(Types(p))) = RequestOf(command[p]).wanted
    BY <2>1, TypesAre DEF RunInv, Reading, AfterVerdict
  <2>3. written'[p] = NamesOf(ToSet(Types(p))) \cap DOMAIN disk.jar[p].classes
    BY <1>2 DEF Delivered, NamesOf, Shape
  <2> QED
    BY <2>1, <2>2, <2>3
<1> QED
  BY <1>1, <1>2 DEF Delivers

(* A run that succeeds gave help, or every class is at the destination.    *)
LEMMA SuccessIsComplete ==
    ASSUME Shape, NEW p \in Proc, RunInv(p), Succeeds(p)
    PROVE  \/ RequestOf(command[p]).help
           \/ p \in accepted /\ written[p] = RequestOf(command[p]).wanted
<1>1. CASE Start(p) /\ options[p].help
  BY <1>1 DEF Start, RunInv, ReadInv, AskedFor
<1>2. CASE FinishClassFiles(p) \/ Cleanup(p)
  <2>1. phase[p] \in {"build", "cleanup"} /\ p \in accepted
    BY <1>2 DEF FinishClassFiles, Cleanup, RunInv, GateInv, AfterVerdict
  <2>2. /\ Len(Types(p)) \in Nat /\ DOMAIN Types(p) = 1..Len(Types(p))
        /\ NamesOf(ToSet(Types(p))) = RequestOf(command[p]).wanted
    BY <2>1, TypesAre DEF RunInv, Reading, AfterVerdict
  <2>3. CASE FinishClassFiles(p)
    <3>1. /\ written[p] = NamesOf(Below(Types(p), next[p]))
          /\ next[p] \in Nat /\ next[p] > Len(Types(p))
      BY <2>3 DEF FinishClassFiles, Built, RunInv, BuildInv, GateInv
    <3>2. Below(Types(p), next[p]) = ToSet(Types(p))
      BY <2>2, <3>1, AllBuilt
    <3> QED
      BY <2>1, <2>2, <3>1, <3>2
  <2>4. CASE Cleanup(p)
    BY <2>1, <2>2, <2>4 DEF Cleanup, RunInv, BuildInv
  <2> QED
    BY <1>2, <2>3, <2>4
<1> QED
  BY <1>1, <1>2 DEF Succeeds

(* How the runs ended, as the contract sees it. *)
Outcome == [p \in Proc |-> IF Running(p) THEN "running" ELSE phase[p]]

LEMMA OutcomeStep ==
    ASSUME Shape, NEW p \in Proc, Step(p)
    PROVE  /\ Outcome[p] = "running"
           /\ Running(p)' => Outcome' = Outcome
           /\ phase'[p] \in {"success", "failure"} => Outcome' = [Outcome EXCEPT ![p] = phase'[p]]
<1>1. Running(p)
  BY StepKinds
<1>2. \A q \in Proc : q # p => phase'[q] = phase[q]
  BY OthersKept
<1> QED
  BY <1>1, <1>2 DEF Outcome, Running

LEMMA StepKeepsContract ==
    ASSUME DriverInv, NEW p \in Proc, Step(p)
    PROVE  [Promise!Next]_(Promise!contract)
<1>0. Shape /\ RunInv(p) /\ command' = command
  BY StepKinds DEF DriverInv
<1> DEFINE request == [q \in Proc |-> RequestOf(command[q])]
<1>1. request' = request /\ request[p] = RequestOf(command[p])
  BY <1>0
<1>2. /\ Outcome[p] = "running"
      /\ Running(p)' => Outcome' = Outcome
      /\ phase'[p] \in {"success", "failure"} => Outcome' = [Outcome EXCEPT ![p] = phase'[p]]
  BY <1>0, OutcomeStep
<1>3. CASE GoesOn(p)
  BY <1>1, <1>2, <1>3 DEF GoesOn, Promise!contract, Outcome
<1>4. CASE Fails(p)
  <2>1. Promise!Fail(p)
    BY <1>1, <1>2, <1>4 DEF Fails, Promise!Fail, Outcome
  <2> QED
    BY <2>1 DEF Promise!Next
<1>5. CASE Succeeds(p)
  <2>1. RequestOf(command[p]).help \/ (p \in accepted /\ written[p] = RequestOf(command[p]).wanted)
    BY <1>0, <1>5, SuccessIsComplete
  <2>2. Promise!Succeed(p)
    BY <1>1, <1>2, <1>5, <2>1 DEF Succeeds, Promise!Succeed, Outcome
  <2> QED
    BY <2>2 DEF Promise!Next
<1>6. CASE Accepts(p)
  <2>1. RequestOf(command[p]).clean /\ ~RequestOf(command[p]).help
    BY <1>0, <1>6, AcceptedIsClean DEF Accepts
  <2>2. Running(p)'
    BY <1>6 DEF Accepts, Running
  <2>3. Promise!Accept(p)
    BY <1>1, <1>2, <1>6, <2>1, <2>2 DEF Accepts, Promise!Accept, Outcome
  <2> QED
    BY <2>3 DEF Promise!Next
<1>7. CASE Delivers(p)
  <2>1. /\ p \in accepted /\ written[p] \subseteq written'[p]
        /\ written'[p] \subseteq RequestOf(command[p]).wanted
    BY <1>0, <1>7, DeliveredIsWanted
  <2>2. written' = [written EXCEPT ![p] = written'[p]]
    BY <1>0, <1>7 DEF Delivers, Shape
  <2>3. Promise!Deliver(p)
    BY <1>1, <1>2, <1>7, <2>1, <2>2 DEF Delivers, Promise!Deliver, Outcome
  <2> QED
    BY <2>3 DEF Promise!Next
<1> QED
  BY <1>0, <1>3, <1>4, <1>5, <1>6, <1>7, StepKinds

(* What KeepsContract promises of every step, for any runs, command lines, *)
(* sources and failures: nothing of a program with an error is delivered,  *)
(* and success means that everything is.  That every run ends stays with   *)
(* the run of TLC.                                                         *)
THEOREM ContractKept == Spec => Promise!Safety
<1>1. Init => Promise!Init
  <2> SUFFICES ASSUME Init PROVE Promise!Init
    OBVIOUS
  <2>1. ASSUME NEW p \in Proc PROVE RequestOf(command[p]) \in Promise!Request
    <3>1. RequestOf(command[p]).wanted \subseteq UNION {{t.name : t \in ToSet(Program[f].types)} : f \in DOMAIN Program}
      BY DEF RequestOf
    <3> QED
      BY <3>1 DEF RequestOf, Promise!Request
  <2>2. [p \in Proc |-> IF Running(p) THEN "running" ELSE phase[p]] = [p \in Proc |-> "running"]
    BY DEF Init, Running
  <2> QED
    BY <2>1, <2>2 DEF Init, Promise!Init
<1>2. DriverInv /\ [Next]_vars => [Promise!Next]_(Promise!contract)
  <2> SUFFICES ASSUME DriverInv, [Next]_vars PROVE [Promise!Next]_(Promise!contract)
    OBVIOUS
  <2>1. CASE UNCHANGED vars
    BY <2>1 DEF vars, Promise!contract, Running
  <2> QED
    BY <2>1, StepKeepsContract DEF Next, Done
<1> QED
  BY <1>1, <1>2, DriverInvHolds, PTL DEF Spec, Promise!Safety

=============================================================================
