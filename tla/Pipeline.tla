------------------------------- MODULE Pipeline -------------------------------
(***************************************************************************)
(* One run of the engine (cmd/engine.go): the groups of builds run one     *)
(* after the other, the builds of a group as parallel goroutines, and each *)
(* build walks the step list (runAllMatchingBuilds of pkg/build/build.go): *)
(* synchronous steps in order on the build's goroutine, asynchronous steps *)
(* on goroutines of their own that the build joins at the end.             *)
(*                                                                         *)
(* A build that ends with an error exits the process, whatever the other   *)
(* builds of its group are doing; so does a step that calls os.Exit.       *)
(***************************************************************************)
EXTENDS Command, SequencesExt

CONSTANTS
  Build,     \* the builds of the run
  Groups,    \* the sequence of groups, each a sequence of builds
  TypeOf,    \* the BuildType of a build
  MatchesOf, \* the steps that match a build (BuildStep.Matches)
  Targets    \* the names users pass as RootArgs.Target

ASSUME PipelineAssumption ==
  /\ Groups \in Seq(Seq(Build))
  /\ TypeOf \in [Build -> STRING]
  /\ MatchesOf \in [Build -> SUBSET Index]
  /\ Targets \subseteq STRING
  \* every build is in one place of one group
  /\ \A g, h \in DOMAIN Groups : \A i \in DOMAIN Groups[g], j \in DOMAIN Groups[h] :
       Groups[g][i] = Groups[h][j] => g = h /\ i = j

VARIABLES
  target,   \* RootArgs.Target
  group,    \* the group the engine executes; Len(Groups) + 1 after the last
  spawned,  \* how many builds of that group have their goroutine
  pc,       \* per build: where its goroutine is
  pos,      \* per build: the index the loop over the steps looks at
  async,    \* per build and step: the step's own goroutine, if it has one
  ids,      \* per build: the steps whose container id is in its IDStore, in order
  buildErr, \* per build: the step of the last synchronous error, 0 for nil
  errCh,    \* per build: the buffered channel of asynchronous errors
  result,   \* per build: the origin of the error it returned, 0 for nil, -1 before
  failed,   \* per build: history, everything of it that failed
  idStore,  \* the engine's IDStore
  exit      \* "none" while the process runs, then its exit code

buildVars == <<pc, pos, async, ids, buildErr, errCh, result, failed>>
vars == <<target, group, spawned, buildVars, idStore, exit>>

-----------------------------------------------------------------------------
\* The steps a build runs: those the target asks for that match the build.
Selected(b) == Wanted(TypeOf[b], target) \cap MatchesOf[b]

\* The origin of an error that no step caused but a built-in target.
BuiltinErr == Len(Registry) + 1

Builds(g) == {Groups[g][i] : i \in DOMAIN Groups[g]}

Running == exit = "none"

Init ==
  /\ target \in Targets
  /\ group = 1
  /\ spawned = 0
  /\ pc = [b \in Build |-> "none"]
  /\ pos = [b \in Build |-> 1]
  /\ async = [b \in Build |-> [i \in Index |-> "none"]]
  /\ ids = [b \in Build |-> << >>]
  /\ buildErr = [b \in Build |-> 0]
  /\ errCh = [b \in Build |-> << >>]
  /\ result = [b \in Build |-> -1]
  /\ failed = [b \in Build |-> {}]
  /\ idStore = << >>
  /\ exit = "none"

-----------------------------------------------------------------------------
(* The engine: Engine and executeBuildGroup.                               *)

\* The loop of executeBuildGroup starts one goroutine per build.
SpawnBuild ==
  /\ Running /\ group <= Len(Groups) /\ spawned < Len(Groups[group])
  /\ pc' = [pc EXCEPT ![Groups[group][spawned + 1]] = "sleep"]
  /\ spawned' = spawned + 1
  /\ UNCHANGED <<target, group, pos, async, ids, buildErr, errCh, result, failed, idStore, exit>>

\* Mutant: the group's WaitGroup counts one build less.
NextGroupEarly ==
  /\ Running /\ group <= Len(Groups) /\ spawned = Len(Groups[group])
  /\ \E b \in Builds(group) : pc[b] = "done"
  /\ group' = group + 1
  /\ spawned' = 0
  /\ UNCHANGED <<target, buildVars, idStore, exit>>

\* wg.Wait of executeBuildGroup returns when every build of the group is done.
NextGroup ==
  /\ Running /\ group <= Len(Groups) /\ spawned = Len(Groups[group])
  /\ \A b \in Builds(group) : pc[b] = "done"
  /\ group' = group + 1
  /\ spawned' = 0
  /\ UNCHANGED <<target, buildVars, idStore, exit>>

\* Engine returns nil after the last group.
EngineReturn ==
  /\ Running /\ group = Len(Groups) + 1
  /\ exit' = "0"
  /\ UNCHANGED <<target, group, spawned, buildVars, idStore>>

-----------------------------------------------------------------------------
(* One build: executeBuild and the dispatch of Command.Run.                *)

\* The target is a step's alias or "all": the loop over the steps starts.
RunSteps(b) ==
  /\ Running /\ pc[b] = "sleep" /\ RunsSteps(TypeOf[b], target)
  /\ pc' = [pc EXCEPT ![b] = "loop"]
  /\ UNCHANGED <<target, group, spawned, pos, async, ids, buildErr, errCh, result, failed, idStore, exit>>

\* Another built-in target (only "list" cannot fail), or a name nobody
\* registered, which is no error and does nothing.
RunOther(b) ==
  /\ Running /\ pc[b] = "sleep" /\ ~RunsSteps(TypeOf[b], target)
  /\ \E e \in IF target \in BuiltinTargets \ {"list"} THEN {0, BuiltinErr} ELSE {0} :
       /\ result' = [result EXCEPT ![b] = e]
       /\ failed' = [failed EXCEPT ![b] = @ \cup ({e} \ {0})]
  /\ pc' = [pc EXCEPT ![b] = "result"]
  /\ UNCHANGED <<target, group, spawned, pos, async, ids, buildErr, errCh, idStore, exit>>

\* Mutant: an error is logged and the build counts as done.
FinishBuildAnyway(b) ==
  /\ Running /\ pc[b] = "result"
  /\ pc' = [pc EXCEPT ![b] = "done"]
  /\ idStore' = idStore \o [k \in DOMAIN ids[b] |-> <<b, ids[b][k]>>]
  /\ UNCHANGED <<target, group, spawned, pos, async, ids, buildErr, errCh, result, failed, exit>>

\* executeBuild with the result: an error exits the process at once, without
\* waiting for the other builds of the group; otherwise the ids are kept.
FinishBuild(b) ==
  /\ Running /\ pc[b] = "result"
  /\ \/ /\ result[b] # 0
        /\ exit' = "1"
        /\ UNCHANGED <<pc, idStore>>
     \/ /\ result[b] = 0
        /\ pc' = [pc EXCEPT ![b] = "done"]
        /\ idStore' = idStore \o [k \in DOMAIN ids[b] |-> <<b, ids[b][k]>>]
        /\ UNCHANGED exit
  /\ UNCHANGED <<target, group, spawned, pos, async, ids, buildErr, errCh, result, failed>>

-----------------------------------------------------------------------------
(* The loop of runAllMatchingBuilds.                                       *)

Looping(b) == Running /\ pc[b] = "loop" /\ pos[b] \in Index

Advance(b) == pos' = [pos EXCEPT ![b] = @ + 1]

SkipStep(b) ==
  /\ Looping(b) /\ pos[b] \notin Selected(b)
  /\ Advance(b)
  /\ UNCHANGED <<target, group, spawned, pc, async, ids, buildErr, errCh, result, failed, idStore, exit>>

\* wg.Add(1) and the goroutine; the loop goes on.
StartAsync(b) ==
  /\ Looping(b) /\ pos[b] \in Selected(b) /\ Registry[pos[b]].async
  /\ async' = [async EXCEPT ![b][pos[b]] = "run"]
  /\ Advance(b)
  /\ UNCHANGED <<target, group, spawned, pc, ids, buildErr, errCh, result, failed, idStore, exit>>

StartSync(b) ==
  /\ Looping(b) /\ pos[b] \in Selected(b) /\ ~Registry[pos[b]].async
  /\ pc' = [pc EXCEPT ![b] = "sync"]
  /\ UNCHANGED <<target, group, spawned, pos, async, ids, buildErr, errCh, result, failed, idStore, exit>>

\* Mutant: the result variable is overwritten by every step, failed or not.
SyncReturnsOverwriting(b, ok) ==
  /\ Running /\ pc[b] = "sync"
  /\ ids' = [ids EXCEPT ![b] = Append(@, pos[b])]
  /\ buildErr' = [buildErr EXCEPT ![b] = IF ok THEN 0 ELSE pos[b]]
  /\ failed' = [failed EXCEPT ![b] = IF ok THEN @ ELSE @ \cup {pos[b]}]
  /\ pc' = [pc EXCEPT ![b] = "loop"]
  /\ Advance(b)
  /\ UNCHANGED <<target, group, spawned, async, errCh, result, idStore, exit>>

\* RunWithBuild returns on the build's goroutine: the id is kept in any case, an
\* error replaces an earlier one, and the loop goes on to the next step.
SyncReturns(b, ok) ==
  /\ Running /\ pc[b] = "sync"
  /\ ids' = [ids EXCEPT ![b] = Append(@, pos[b])]
  /\ buildErr' = [buildErr EXCEPT ![b] = IF ok THEN @ ELSE pos[b]]
  /\ failed' = [failed EXCEPT ![b] = IF ok THEN @ ELSE @ \cup {pos[b]}]
  /\ pc' = [pc EXCEPT ![b] = "loop"]
  /\ Advance(b)
  /\ UNCHANGED <<target, group, spawned, async, errCh, result, idStore, exit>>

\* RunWithBuild returns on an asynchronous step's goroutine: ids.Add.
AsyncReturns(b, i, ok) ==
  /\ Running /\ async[b][i] = "run"
  /\ ids' = [ids EXCEPT ![b] = Append(@, i)]
  /\ failed' = [failed EXCEPT ![b] = IF ok THEN @ ELSE @ \cup {i}]
  /\ async' = [async EXCEPT ![b][i] = IF ok THEN "done" ELSE "report"]
  /\ UNCHANGED <<target, group, spawned, pc, pos, buildErr, errCh, result, idStore, exit>>

\* Mutant: the channel has room for one error, and nobody reads it before the join.
AsyncReportsBlocking(b, i) ==
  /\ Running /\ async[b][i] = "report" /\ errCh[b] = << >>
  /\ errCh' = [errCh EXCEPT ![b] = Append(@, i)]
  /\ async' = [async EXCEPT ![b][i] = "done"]
  /\ UNCHANGED <<target, group, spawned, pc, pos, ids, buildErr, result, failed, idStore, exit>>

\* errCh <- err, which never blocks (the channel has room for every step), then
\* wg.Done.
AsyncReports(b, i) ==
  /\ Running /\ async[b][i] = "report"
  /\ errCh' = [errCh EXCEPT ![b] = Append(@, i)]
  /\ async' = [async EXCEPT ![b][i] = "done"]
  /\ UNCHANGED <<target, group, spawned, pc, pos, ids, buildErr, result, failed, idStore, exit>>

\* A step that calls os.Exit(1) itself takes the whole process down.
StepExits(b, i) ==
  /\ Running
  /\ async[b][i] = "run" \/ (pc[b] = "sync" /\ pos[b] = i)
  /\ failed' = [failed EXCEPT ![b] = @ \cup {i}]
  /\ exit' = "1"
  /\ UNCHANGED <<target, group, spawned, pc, pos, async, ids, buildErr, errCh, result, idStore>>

LoopEnds(b) ==
  /\ Running /\ pc[b] = "loop" /\ pos[b] \notin Index
  /\ pc' = [pc EXCEPT ![b] = "join"]
  /\ UNCHANGED <<target, group, spawned, pos, async, ids, buildErr, errCh, result, failed, idStore, exit>>

\* The synchronous error if there is one, else the first asynchronous one.
FirstError(b) ==
  IF buildErr[b] # 0 THEN buildErr[b] ELSE IF errCh[b] # << >> THEN Head(errCh[b]) ELSE 0

\* Mutant: the asynchronous errors are collected before wg.Wait.
JoinWithoutWait(b) ==
  /\ Running /\ pc[b] = "join"
  /\ result' = [result EXCEPT ![b] = FirstError(b)]
  /\ errCh' = [errCh EXCEPT ![b] = << >>]
  /\ pc' = [pc EXCEPT ![b] = "result"]
  /\ UNCHANGED <<target, group, spawned, pos, async, ids, buildErr, failed, idStore, exit>>

\* wg.Wait, close(errCh), and the result.
Join(b) ==
  /\ Running /\ pc[b] = "join"
  /\ \A i \in Index : async[b][i] \in {"none", "done"}
  /\ result' = [result EXCEPT ![b] = FirstError(b)]
  /\ errCh' = [errCh EXCEPT ![b] = << >>]
  /\ pc' = [pc EXCEPT ![b] = "result"]
  /\ UNCHANGED <<target, group, spawned, pos, async, ids, buildErr, failed, idStore, exit>>

-----------------------------------------------------------------------------
BuildStep(b) ==
  \/ RunSteps(b) \/ RunOther(b) \/ FinishBuild(b)
  \/ SkipStep(b) \/ StartAsync(b) \/ StartSync(b) \/ LoopEnds(b) \/ Join(b)
  \/ \E ok \in BOOLEAN : SyncReturns(b, ok)

AsyncStep(b, i) == AsyncReports(b, i) \/ \E ok \in BOOLEAN : AsyncReturns(b, i, ok)

Next ==
  \/ SpawnBuild \/ NextGroup \/ EngineReturn
  \/ \E b \in Build : BuildStep(b)
  \/ \E b \in Build, i \in Index : AsyncStep(b, i) \/ StepExits(b, i)

Spec == Init /\ [][Next]_vars

\* Every goroutine is scheduled and every step's container run ends; nothing
\* makes a step fail or exit.
FairSpec ==
  /\ Spec
  /\ WF_vars(SpawnBuild \/ NextGroup \/ EngineReturn)
  /\ \A b \in Build : WF_vars(BuildStep(b))
  /\ \A b \in Build, i \in Index : WF_vars(AsyncStep(b, i))

-----------------------------------------------------------------------------
TypeOK ==
  /\ target \in Targets
  /\ group \in 1..(Len(Groups) + 1)
  /\ spawned \in Nat
  /\ pc \in [Build -> {"none", "sleep", "loop", "sync", "join", "result", "done"}]
  /\ pos \in [Build -> 1..(Len(Registry) + 1)]
  /\ async \in [Build -> [Index -> {"none", "run", "report", "done"}]]
  /\ ids \in [Build -> Seq(Index)]
  /\ buildErr \in [Build -> Index \cup {0}]
  /\ errCh \in [Build -> Seq(Index)]
  /\ result \in [Build -> -1..BuiltinErr]
  /\ failed \in [Build -> SUBSET (1..BuiltinErr)]
  /\ idStore \in Seq(Build \X Index)
  /\ exit \in {"none", "0", "1"}

SyncFailures(b) == {i \in failed[b] \cap Index : ~Registry[i].async}

\* A build's result tells the truth: it is nil exactly when nothing of the build
\* failed, it names something that did fail, and a synchronous failure (the last
\* one) takes precedence over the asynchronous ones. No later success and no
\* interleaving of the asynchronous goroutines masks a failure
\* (runAllMatchingBuilds).
ResultTruthful ==
  \A b \in Build : result[b] # -1 /\ Running =>
    /\ result[b] = 0 <=> failed[b] = {}
    /\ result[b] # 0 => result[b] \in failed[b]
    /\ SyncFailures(b) # {} => result[b] \in SyncFailures(b) /\ \A i \in SyncFailures(b) : i <= result[b]

\* When a build has its result no goroutine of it is left, and every selected
\* step has run exactly once and put its id into the result, failed or not.
NothingOutlivesResult ==
  \A b \in Build : result[b] # -1 =>
    /\ \A i \in Index : async[b][i] \in {"none", "done"}
    /\ RunsSteps(TypeOf[b], target) => ToSet(ids[b]) = Selected(b) /\ Len(ids[b]) = Cardinality(Selected(b))

\* A build is started only when every build of every earlier group has ended
\* without an error: the groups are barriers (Engine, executeBuildGroup).
GroupBarrier ==
  \A g, h \in DOMAIN Groups : g < h =>
    \A b \in Builds(g), c \in Builds(h) : pc[c] # "none" => pc[b] = "done" /\ failed[b] = {}

\* Exit code 0 is reached only when every build of every group has finished,
\* nothing failed and the engine has every id; exit code 1 only after a failure.
ExitCodeTruthful ==
  /\ exit = "0" => /\ \A g \in DOMAIN Groups : \A b \in Builds(g) : pc[b] = "done" /\ failed[b] = {}
                   /\ \A g \in DOMAIN Groups : \A b \in Builds(g) : RunsSteps(TypeOf[b], target) =>
                        {b} \X Selected(b) \subseteq ToSet(idStore)
  /\ exit = "1" => \E b \in Build : failed[b] # {}

\* A build counts as failed from the moment something of it fails and as "ok"
\* when executeBuild has returned.
PhaseOf(b) ==
  CASE failed[b] # {} -> "failed"
    [] failed[b] = {} /\ pc[b] = "done" -> "ok"
    [] failed[b] = {} /\ pc[b] = "none" -> "waiting"
    [] OTHER -> "running"

Phase == [b \in Build |-> PhaseOf(b)]

\* The refinement mapping to what the engine promises.
Outcome == INSTANCE EngineOutcome WITH phase <- Phase, code <- exit

\* Every behaviour of the engine is one EngineOutcome allows: no group starts
\* after a failure, no build that failed ever counts as succeeded, and the exit
\* code is 0 only when every build has succeeded (Engine, executeBuild).
OutcomeSafe == Outcome!Spec

\* The same with EngineOutcome's progress: a failure, or the end of the last
\* group, is followed by the exit it calls for.
OutcomeLive == Outcome!FairSpec

\* The engine always comes to an end: no join, no error channel and no group
\* waits for something that cannot happen.
Terminates == <>(exit # "none")
=============================================================================
