-------------------------------- MODULE Targets --------------------------------
(***************************************************************************)
(* Command.Run of cmd/build.go for one build: the loop that registers the  *)
(* steps' aliases as targets, the built-in targets after it, the lookup of *)
(* the requested target and the choice of the steps it runs.               *)
(***************************************************************************)
EXTENDS Command

CONSTANTS
  Arg,         \* the builds
  ArgType,     \* the BuildType of a build
  ArgMatches,  \* the steps that match a build (BuildStep.Matches)
  Requested    \* the target names users ask for

ASSUME TargetsAssumption ==
  /\ ArgType \in [Arg -> STRING]
  /\ ArgMatches \in [Arg -> SUBSET Index]
  /\ Requested \subseteq STRING

VARIABLES
  arg,      \* the build the command runs for
  target,   \* the target asked for
  reached,  \* the step the registration loop looks at; Len + 1 behind the loop
  targets,  \* c.targets: 0 for absent, a step's index, or Builtin
  stage,    \* "register", "lookup" or "done"
  ran       \* the steps the target ran

tableVars == <<arg, target, reached, targets, stage, ran>>

Builtin == Len(Registry) + 1
TargetName == {Registry[k].alias : k \in Index} \cup BuiltinTargets

-----------------------------------------------------------------------------
\* Mutant: the last registration of a name wins.
AddTargetOver(name, fnc) == [targets EXCEPT ![name] = fnc]

\* AddTarget: a name that is taken keeps its function.
AddTarget(name, fnc) == IF targets[name] # 0 THEN targets ELSE [targets EXCEPT ![name] = fnc]

TableInit ==
  /\ arg \in Arg
  /\ target \in Requested
  /\ reached = 1
  /\ targets = [n \in TargetName |-> 0]
  /\ stage = "register"
  /\ ran = {}

\* One step of the loop: its alias, unless the step is for another build type.
RegisterStep ==
  /\ stage = "register" /\ reached \in Index
  /\ targets' = IF Registry[reached].type \in {"", ArgType[arg]}
                THEN AddTarget(Registry[reached].alias, reached)
                ELSE targets
  /\ reached' = reached + 1
  /\ UNCHANGED <<arg, target, stage, ran>>

\* The built-in targets, which a step's alias of the same name shadows.
AddBuiltins ==
  /\ stage = "register" /\ reached \notin Index
  /\ targets' = [n \in TargetName |-> IF n \in BuiltinTargets /\ targets[n] = 0 THEN Builtin ELSE targets[n]]
  /\ stage' = "lookup"
  /\ UNCHANGED <<arg, target, reached, ran>>

\* Mutant: the closures share the loop's variable and see its last value.
StepsOfLast(k) == {j \in ArgMatches[arg] : Registry[j].name = Registry[Len(Registry)].name}

\* buildSteps.Run(arg, name): the matching steps that have the step's name.
StepsOf(k) == {j \in ArgMatches[arg] : Registry[j].name = Registry[k].name}

\* The function of the target runs; a name nobody registered runs nothing.
RunTarget ==
  /\ stage = "lookup"
  /\ ran' = IF target \in TargetName /\ targets[target] \in Index
            THEN StepsOf(targets[target])
            ELSE IF target = "all" THEN ArgMatches[arg] ELSE {}
  /\ stage' = "done"
  /\ UNCHANGED <<arg, target, reached, targets>>

TableNext == RegisterStep \/ AddBuiltins \/ RunTarget

TableSpec == TableInit /\ [][TableNext]_tableVars

-----------------------------------------------------------------------------
\* What the loop and the closures leave behind is what the reference definition
\* in Command says: the target runs the steps it names, for every step list, also
\* one where steps share names or aliases or take a built-in target's name
\* (Command.Run, AddTarget).
TargetMeaning == stage = "done" => ran = Wanted(ArgType[arg], target) \cap ArgMatches[arg]
=============================================================================
