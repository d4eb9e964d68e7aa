------------------------------- MODULE Command -------------------------------
(***************************************************************************)
(* What a target name means to a build: the reference definition of the    *)
(* target table that Command.Run of cmd/build.go fills and looks up.       *)
(*                                                                         *)
(* A build step registers its Alias for the builds of its BuildType (for   *)
(* every build if it has none); the first registration of a name wins; the *)
(* target then runs the steps that have the registered step's NAME and     *)
(* match the build.                                                        *)
(***************************************************************************)
EXTENDS Integers, Sequences, FiniteSetsExt

CONSTANTS
  Registry   \* the sequence of steps: [name, alias, type, async]; type "" is nil

ASSUME CommandAssumption ==
  Registry \in Seq([name : STRING, alias : STRING, type : STRING, async : BOOLEAN])

Index == 1..Len(Registry)

\* The targets every command has besides the steps' aliases.
BuiltinTargets == {"all", "github_actions", "docker_load", "docker_save", "list"}

\* The steps whose alias a build of this type registers.
RegisteredFor(type) == {i \in Index : Registry[i].type \in {"", type}}

AliasHolders(type, target) == {i \in RegisteredFor(type) : Registry[i].alias = target}

\* Whether the target runs build steps at all.
RunsSteps(type, target) == AliasHolders(type, target) # {} \/ target = "all"

\* The steps the target asks for, before Matches is consulted.
Wanted(type, target) ==
  IF AliasHolders(type, target) # {}
  THEN {i \in Index : Registry[i].name = Registry[Min(AliasHolders(type, target))].name}
  ELSE IF target = "all" THEN Index ELSE {}
=============================================================================
