---------------------------- MODULE DefaultTargets ----------------------------
(***************************************************************************)
(* The target table over the registry the engine really has, followed by   *)
(* whatever steps hooks have appended.                                     *)
(***************************************************************************)
EXTENDS Targets, DefaultRegistry

\* The engine's steps come first; a hook that took the name "all" would give it
\* another meaning.
ASSUME DefaultTargetsAssumption ==
  /\ Len(Registry) >= Len(EngineSteps)
  /\ \A k \in 1..Len(EngineSteps) : Registry[k] = EngineSteps[k]
  /\ \A k \in Index \ (1..Len(EngineSteps)) : Registry[k].alias # "all"
  /\ \A b \in Arg :
       /\ b.type \in BuildType /\ b.on \subseteq Switch
       /\ ArgType[b] = b.type
       /\ ArgMatches[b] \cap (1..Len(EngineSteps)) = MatchedSteps(b)

Compilers == 5..10
\* The compile step of the variant a production step packages.
CompilerOf == [p \in 11..15 |-> IF p <= 12 THEN p - 6 ELSE p - 5]

\* A build of a language the engine compiles is compiled by exactly one step,
\* whether everything runs or only the target "build": the three Go variants
\* share name and alias, so only their Matches functions keep them apart. A Go
\* build whose "from" names no variant is compiled by none, and its run is done
\* all the same.
OneCompiler ==
  stage = "done" /\ target \in {"all", "build"} /\ arg.type \in {"GoLang", "Maven", "Python", "Zig"}
    => Cardinality(ran \cap Compilers) = IF arg.type = "GoLang" /\ arg.from \notin Variant THEN 0 ELSE 1

\* A production image is only built from what the same variant compiled, in the
\* same run before it.
ProdAfterItsCompiler ==
  stage = "done" /\ target = "all" => \A p \in ran \cap DOMAIN CompilerOf : CompilerOf[p] \in ran

\* The target "push" packages a Maven build: InitBuildSteps registers the step
\* under "PostBuild: Production artifacts, packaging" as "Maven prod".
MavenIsPackaged ==
  stage = "done" /\ target \in {"all", "push"} /\ arg.type = "Maven" => 13 \in ran
=============================================================================
