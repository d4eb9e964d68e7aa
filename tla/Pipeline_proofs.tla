--------------------------- MODULE Pipeline_proofs ---------------------------
(***************************************************************************)
(* The safety of one engine run, for every registry, every grouping of     *)
(* builds and every target: types, the truth of a build's result, the      *)
(* group barrier, the implementation of EngineOutcome, and then, from the  *)
(* ids that are collected, that nothing outlives a build's result and that *)
(* the exit code is true.                                                  *)
(***************************************************************************)
EXTENDS Pipeline, TLAPS, SequenceTheorems, FiniteSetTheorems

-----------------------------------------------------------------------------
(* The inductive invariant.                                                *)

\* Where the builds of the groups are: behind the engine's group everything is
\* done, ahead of it nothing is started, and in it the spawned ones are started.
Placed ==
  /\ group <= Len(Groups) => spawned <= Len(Groups[group])
  /\ group = Len(Groups) + 1 => spawned = 0
  /\ \A g \in 1..Len(Groups) : \A k \in 1..Len(Groups[g]) :
       /\ g < group => pc[Groups[g][k]] = "done"
       /\ g > group => pc[Groups[g][k]] = "none"
       /\ g = group /\ k > spawned => pc[Groups[g][k]] = "none"

\* A build that has not reached the loop has done nothing.
Fresh(b) ==
  pc[b] \in {"none", "sleep"} =>
    /\ failed[b] = {} /\ buildErr[b] = 0 /\ errCh[b] = << >> /\ pos[b] = 1
    /\ \A i \in Index : async[b][i] = "none"

\* The step goroutines of a build.
Goroutines(b) ==
  \A i \in Index :
    /\ async[b][i] # "none" => Registry[i].async /\ i < pos[b]
    /\ async[b][i] = "report" => i \in failed[b]
    /\ pc[b] \in {"result", "done"} => async[b][i] \in {"none", "done"}

\* The variable buildErr holds the last synchronous failure.
SyncErr(b) ==
  /\ buildErr[b] < pos[b]
  /\ buildErr[b] # 0 => buildErr[b] \in failed[b] /\ ~Registry[buildErr[b]].async
  /\ pc[b] = "sync" => pos[b] \in Index /\ ~Registry[pos[b]].async

\* Every error in the channel is one of an asynchronous step.
Channel(b) ==
  \A k \in 1..Len(errCh[b]) : errCh[b][k] \in failed[b] /\ Registry[errCh[b][k]].async

\* Until the join no failure is lost: the variable covers the synchronous ones,
\* the channel or a goroutine about to send holds the asynchronous ones.
Accounted(b) ==
  Running /\ pc[b] \notin {"result", "done"} =>
    \A i \in failed[b] :
      /\ i \in Index
      /\ ~Registry[i].async => i <= buildErr[b]
      /\ Registry[i].async => async[b][i] = "report" \/ \E k \in 1..Len(errCh[b]) : errCh[b][k] = i

\* When the result is there, it is the truth; a build is done only with success.
Result(b) ==
  /\ (result[b] = -1) <=> pc[b] \notin {"result", "done"}
  /\ pc[b] = "done" => result[b] = 0 /\ failed[b] = {}
  /\ Running /\ pc[b] = "result" =>
       /\ (result[b] = 0) <=> (failed[b] = {})
       /\ result[b] # 0 => result[b] \in failed[b]
       /\ \A i \in failed[b] \cap Index : ~Registry[i].async =>
            result[b] \in Index /\ ~Registry[result[b]].async /\ i <= result[b]

PerBuild(b) == Fresh(b) /\ Goroutines(b) /\ SyncErr(b) /\ Channel(b) /\ Accounted(b) /\ Result(b)

Exits ==
  /\ exit = "0" => group = Len(Groups) + 1
  /\ exit = "1" => \E b \in Build : failed[b] # {}

IInv == TypeOK /\ Placed /\ Exits /\ \A b \in Build : PerBuild(b)

-----------------------------------------------------------------------------
(* What the assumptions say, in the form the proofs use.                   *)

\* Sizes and element types of the registry and of the groups.
LEMMA ConstantFacts ==
  /\ Len(Registry) \in Nat
  /\ Index = 1..Len(Registry)
  /\ BuiltinErr = Len(Registry) + 1
  /\ Len(Groups) \in Nat
  /\ DOMAIN Groups = 1..Len(Groups)
  /\ \A g \in 1..Len(Groups) :
       /\ Groups[g] \in Seq(Build)
       /\ Len(Groups[g]) \in Nat
       /\ DOMAIN Groups[g] = 1..Len(Groups[g])
       /\ \A k \in 1..Len(Groups[g]) : Groups[g][k] \in Build
  /\ \A g, h \in 1..Len(Groups) : \A i \in 1..Len(Groups[g]), j \in 1..Len(Groups[h]) :
       Groups[g][i] = Groups[h][j] => g = h /\ i = j
<1>1. Len(Registry) \in Nat /\ Index = 1..Len(Registry) /\ BuiltinErr = Len(Registry) + 1
  BY CommandAssumption, LenProperties DEF Index, BuiltinErr
<1>2. Len(Groups) \in Nat /\ DOMAIN Groups = 1..Len(Groups)
  BY PipelineAssumption, LenProperties
<1>3. ASSUME NEW g \in 1..Len(Groups)
      PROVE  /\ Groups[g] \in Seq(Build)
             /\ Len(Groups[g]) \in Nat
             /\ DOMAIN Groups[g] = 1..Len(Groups[g])
             /\ \A k \in 1..Len(Groups[g]) : Groups[g][k] \in Build
  <2>1. Groups[g] \in Seq(Build)
    BY PipelineAssumption, ElementOfSeq
  <2> QED
    BY <2>1, LenProperties, ElementOfSeq
<1>4. \A g, h \in DOMAIN Groups : \A i \in DOMAIN Groups[g], j \in DOMAIN Groups[h] :
        Groups[g][i] = Groups[h][j] => g = h /\ i = j
  BY PipelineAssumption
<1>5. \A g, h \in 1..Len(Groups) : \A i \in 1..Len(Groups[g]), j \in 1..Len(Groups[h]) :
        Groups[g][i] = Groups[h][j] => g = h /\ i = j
  <2> SUFFICES ASSUME NEW g \in 1..Len(Groups), NEW h \in 1..Len(Groups),
                      NEW i \in 1..Len(Groups[g]), NEW j \in 1..Len(Groups[h]),
                      Groups[g][i] = Groups[h][j]
               PROVE  g = h /\ i = j
    BY Zenon
  <2>1. g \in DOMAIN Groups /\ h \in DOMAIN Groups
    BY <1>2
  <2>2. i \in DOMAIN Groups[g] /\ j \in DOMAIN Groups[h]
    BY <1>3
  <2> QED
    BY <1>4, <2>1, <2>2
<1> QED
  BY <1>1, <1>2, <1>3, <1>5

-----------------------------------------------------------------------------
(* The builds.                                                             *)

\* The action leaves the build c alone.
Same(c) ==
  /\ pc'[c] = pc[c] /\ pos'[c] = pos[c] /\ async'[c] = async[c] /\ buildErr'[c] = buildErr[c]
  /\ errCh'[c] = errCh[c] /\ result'[c] = result[c] /\ failed'[c] = failed[c]

\* A step that leaves a build alone, and at most ends the process, preserves
\* what the invariant says of that build.
LEMMA Frame ==
  ASSUME NEW c \in Build, PerBuild(c), Same(c), Running' => Running
  PROVE  PerBuild(c)'
<1> USE DEF Same
<1>1. Fresh(c)'
  BY DEF PerBuild, Fresh
<1>2. Goroutines(c)'
  BY DEF PerBuild, Goroutines
<1>3. SyncErr(c)'
  BY DEF PerBuild, SyncErr
<1>4. Channel(c)'
  BY DEF PerBuild, Channel
<1>5. Accounted(c)'
  BY DEF PerBuild, Accounted
<1>6. Result(c)'
  BY DEF PerBuild, Result
<1> QED
  BY <1>1, <1>2, <1>3, <1>4, <1>5, <1>6 DEF PerBuild

\* A step of the build b, or of its goroutine for the step i.
StepOf(b, i) == BuildStep(b) \/ (i \in Index /\ (AsyncStep(b, i) \/ StepExits(b, i)))

\* An action of the build b leaves every other build alone.
LEMMA OthersSame ==
  ASSUME TypeOK, NEW b \in Build, NEW i, StepOf(b, i), NEW c \in Build, c # b
  PROVE  Same(c) /\ Running
<1> USE DEF Same, TypeOK
<1>1. CASE RunSteps(b) \/ RunOther(b) \/ FinishBuild(b)
  BY <1>1 DEF RunSteps, RunOther, FinishBuild
<1>2. CASE SkipStep(b) \/ StartAsync(b) \/ StartSync(b)
  BY <1>2 DEF SkipStep, StartAsync, StartSync, Looping, Advance
<1>3. CASE LoopEnds(b) \/ Join(b)
  BY <1>3 DEF LoopEnds, Join
<1>4. CASE \E ok \in BOOLEAN : SyncReturns(b, ok)
  BY <1>4 DEF SyncReturns, Advance
<1>5. CASE i \in Index /\ AsyncReports(b, i)
  BY <1>5 DEF AsyncReports
<1>6. CASE i \in Index /\ \E ok \in BOOLEAN : AsyncReturns(b, i, ok)
  BY <1>6 DEF AsyncReturns
<1>7. CASE i \in Index /\ StepExits(b, i)
  BY <1>7 DEF StepExits
<1> QED
  BY <1>1, <1>2, <1>3, <1>4, <1>5, <1>6, <1>7 DEF StepOf, BuildStep, AsyncStep

\* The dispatch and the end of a build.
LEMMA DispatchStep ==
  ASSUME TypeOK, NEW b \in Build, PerBuild(b), RunSteps(b) \/ RunOther(b) \/ FinishBuild(b)
  PROVE  PerBuild(b)'
<1> USE ConstantFacts DEF TypeOK, Running
<1>1. CASE RunSteps(b)
  <2> USE <1>1 DEF RunSteps, PerBuild
  <2>1. Fresh(b)' /\ Goroutines(b)' /\ SyncErr(b)'
    BY DEF Fresh, Goroutines, SyncErr
  <2>2. Channel(b)' /\ Accounted(b)'
    BY DEF Fresh, Channel, Accounted
  <2>3. Result(b)'
    BY DEF Result
  <2> QED
    BY <2>1, <2>2, <2>3
<1>2. CASE RunOther(b)
  <2> USE <1>2 DEF PerBuild
  <2>0. PICK e \in {0, BuiltinErr} :
          /\ result' = [result EXCEPT ![b] = e]
          /\ failed' = [failed EXCEPT ![b] = @ \cup ({e} \ {0})]
    BY DEF RunOther
  <2>a. failed'[b] = {e} \ {0} /\ result'[b] = e
    BY <2>0 DEF Fresh, RunOther
  <2>1. Fresh(b)' /\ Goroutines(b)' /\ SyncErr(b)'
    BY <2>a DEF Fresh, Goroutines, SyncErr, RunOther
  <2>2. Channel(b)' /\ Accounted(b)'
    BY <2>a DEF Fresh, Channel, Accounted, RunOther
  <2>3. Result(b)'
    <3>1. pc'[b] = "result" /\ e # -1 /\ e \notin Index
      BY DEF RunOther
    <3>2. (e = 0) <=> (failed'[b] = {})
      BY <2>a
    <3>3. e # 0 => e \in failed'[b]
      BY <2>a
    <3>4. failed'[b] \cap Index = {}
      BY <2>a, <3>1
    <3> QED
      BY <2>a, <3>1, <3>2, <3>3, <3>4 DEF Result
  <2> QED
    BY <2>1, <2>2, <2>3
<1>3. CASE FinishBuild(b)
  <2> USE <1>3 DEF PerBuild
  <2>1. Fresh(b)' /\ Goroutines(b)' /\ SyncErr(b)'
    BY DEF Fresh, Goroutines, SyncErr, FinishBuild
  <2>2. Channel(b)' /\ Accounted(b)'
    BY DEF Fresh, Channel, Accounted, FinishBuild
  <2>3. Result(b)'
    BY DEF Result, FinishBuild
  <2> QED
    BY <2>1, <2>2, <2>3
<1> QED
  BY <1>1, <1>2, <1>3

\* The loop over the steps, without the steps' results.
LEMMA LoopStep ==
  ASSUME TypeOK, NEW b \in Build, PerBuild(b),
         SkipStep(b) \/ StartAsync(b) \/ StartSync(b) \/ LoopEnds(b)
  PROVE  PerBuild(b)'
<1>t. Index \subseteq Nat \ {0} /\ pos[b] \in Nat /\ buildErr[b] \in Nat
  BY ConstantFacts DEF TypeOK
<1>1. CASE SkipStep(b)
  <2>1. /\ pc[b] = "loop" /\ pos'[b] = pos[b] + 1 /\ exit = "none"
        /\ pc' = pc /\ async' = async /\ errCh' = errCh /\ buildErr' = buildErr
        /\ result' = result /\ failed' = failed /\ exit' = exit
    BY <1>1 DEF SkipStep, Looping, Advance, Running, TypeOK
  <2>2. Fresh(b)' /\ Goroutines(b)'
    BY <1>t, <2>1 DEF PerBuild, Fresh, Goroutines
  <2>3. SyncErr(b)'
    BY <1>t, <2>1 DEF PerBuild, SyncErr
  <2>4. Channel(b)' /\ Accounted(b)' /\ Result(b)'
    BY <2>1 DEF PerBuild, Channel, Accounted, Result, Running
  <2> QED
    BY <2>2, <2>3, <2>4 DEF PerBuild
<1> USE ConstantFacts DEF TypeOK, Running, Looping, Advance, PerBuild
<1>2. CASE StartAsync(b)
  <2> USE <1>2 DEF StartAsync
  <2>1. Fresh(b)' /\ Goroutines(b)' /\ SyncErr(b)'
    <3>1. /\ pc[b] = "loop" /\ pos'[b] = pos[b] + 1 /\ pos[b] \in Index /\ Registry[pos[b]].async
          /\ pc' = pc /\ buildErr' = buildErr /\ failed' = failed
      OBVIOUS
    <3>2. \A k \in Index : async'[b][k] = IF k = pos[b] THEN "run" ELSE async[b][k]
      OBVIOUS
    <3>3. SyncErr(b)'
      BY ONLY <1>t, <3>1, PerBuild(b) DEF PerBuild, SyncErr
    <3>4. Fresh(b)'
      BY ONLY <3>1 DEF Fresh
    <3>5. Goroutines(b)'
      <4>1. ASSUME NEW k \in Index, async'[b][k] # "none" PROVE Registry[k].async /\ k < pos'[b]
        BY ONLY <1>t, <3>1, <3>2, <4>1, PerBuild(b) DEF PerBuild, Goroutines
      <4>2. ASSUME NEW k \in Index, async'[b][k] = "report" PROVE k \in failed'[b]
        BY ONLY <3>1, <3>2, <4>2, PerBuild(b) DEF PerBuild, Goroutines
      <4> QED
        BY ONLY <3>1, <4>1, <4>2 DEF Goroutines
    <3> QED
      BY <3>3, <3>4, <3>5
  <2>2. Channel(b)' /\ Result(b)'
    BY DEF Channel, Result
  <2>3. Accounted(b)'
    <3>1. ASSUME NEW i \in Index, async[b][i] = "report" PROVE async'[b][i] = "report"
      <4>1. i < pos[b] /\ pos[b] \in Nat /\ i \in Nat
        BY ONLY <1>t, <3>1, PerBuild(b) DEF PerBuild, Goroutines
      <4> QED
        BY <3>1, <4>1
    <3>2. failed' = failed /\ buildErr' = buildErr /\ errCh' = errCh /\ pc' = pc /\ Running
      OBVIOUS
    <3> QED
      BY <3>1, <3>2 DEF Accounted
  <2> QED
    BY <2>1, <2>2, <2>3
<1>3. CASE StartSync(b)
  <2> USE <1>3 DEF StartSync
  <2>1. Fresh(b)' /\ Goroutines(b)' /\ SyncErr(b)'
    BY DEF Fresh, Goroutines, SyncErr
  <2>2. Channel(b)' /\ Accounted(b)' /\ Result(b)'
    BY DEF Channel, Accounted, Result
  <2> QED
    BY <2>1, <2>2
<1>4. CASE LoopEnds(b)
  <2> USE <1>4 DEF LoopEnds
  <2>1. Fresh(b)' /\ Goroutines(b)' /\ SyncErr(b)'
    BY DEF Fresh, Goroutines, SyncErr
  <2>2. Channel(b)' /\ Accounted(b)' /\ Result(b)'
    BY DEF Channel, Accounted, Result
  <2> QED
    BY <2>1, <2>2
<1> QED
  BY <1>1, <1>2, <1>3, <1>4

\* A synchronous step returns.
LEMMA SyncStep ==
  ASSUME TypeOK, NEW b \in Build, PerBuild(b), NEW ok \in BOOLEAN, SyncReturns(b, ok)
  PROVE  PerBuild(b)'
<1> USE DEF PerBuild
<1>1. /\ pc[b] = "sync" /\ pc'[b] = "loop" /\ pos[b] \in Index /\ pos'[b] = pos[b] + 1
      /\ ~Registry[pos[b]].async /\ exit = "none" /\ exit' = "none"
      /\ async' = async /\ errCh' = errCh /\ result' = result
  BY ConstantFacts DEF SyncReturns, SyncErr, TypeOK, Running, Advance
<1>2. \/ buildErr'[b] = buildErr[b] /\ failed'[b] = failed[b]
      \/ buildErr'[b] = pos[b] /\ failed'[b] = failed[b] \cup {pos[b]}
  BY ConstantFacts DEF SyncReturns, TypeOK
<1>t. Index \subseteq Nat \ {0} /\ pos[b] \in Nat /\ buildErr[b] \in Nat
  BY ConstantFacts DEF TypeOK
<1>3. Fresh(b)' /\ Goroutines(b)'
  BY <1>1, <1>2, <1>t DEF Fresh, Goroutines
<1>4. SyncErr(b)'
  BY <1>1, <1>2, <1>t DEF SyncErr
<1>5. Channel(b)' /\ Result(b)'
  BY <1>1, <1>2 DEF Channel, Result
<1>6. Accounted(b)'
  <2>1. SUFFICES ASSUME NEW i \in failed'[b]
                PROVE  /\ i \in Index
                       /\ ~Registry[i].async => i <= buildErr'[b]
                       /\ Registry[i].async => \/ async[b][i] = "report"
                                              \/ \E k \in 1..Len(errCh[b]) : errCh[b][k] = i
    BY <1>1 DEF Accounted
  <2>2. CASE i \in failed[b]
    <3>1. buildErr[b] <= buildErr'[b] /\ buildErr'[b] \in Nat
      BY <1>2, <1>t DEF SyncErr
    <3>t. Index \subseteq Nat
      BY <1>t
    <3>2. /\ i \in Index
          /\ ~Registry[i].async => i <= buildErr[b]
          /\ Registry[i].async => \/ async[b][i] = "report"
                                 \/ \E k \in 1..Len(errCh[b]) : errCh[b][k] = i
      BY <1>1, <2>2 DEF Accounted, Running
    <3>3. ~Registry[i].async => i <= buildErr'[b]
      <4> HAVE ~Registry[i].async
      <4>1. i \in Nat /\ i <= buildErr[b]
        BY <3>2, <3>t
      <4>2. buildErr[b] \in Nat
        BY <1>t
      <4> QED
        BY ONLY <3>1, <4>1, <4>2
    <3> QED
      BY <3>2, <3>3, Zenon
  <2>3. CASE i = pos[b] /\ buildErr'[b] = pos[b]
    BY <1>1, <1>t, <2>3
  <2> QED
    BY <1>2, <2>2, <2>3
<1> QED
  BY <1>3, <1>4, <1>5, <1>6

\* An asynchronous step returns, reports its error, or any step exits.
LEMMA GoroutineStep ==
  ASSUME TypeOK, NEW b \in Build, PerBuild(b), NEW i \in Index,
         AsyncStep(b, i) \/ StepExits(b, i)
  PROVE  PerBuild(b)'
<1> USE DEF PerBuild
<1>t. Index \subseteq Nat \ {0}
  BY ConstantFacts
<1>1. CASE \E ok \in BOOLEAN : AsyncReturns(b, i, ok)
  <2>1. /\ async[b][i] = "run" /\ exit = "none" /\ exit' = "none"
        /\ pc' = pc /\ pos' = pos /\ errCh' = errCh /\ result' = result /\ buildErr' = buildErr
        /\ \A j \in Index : j # i => async'[b][j] = async[b][j]
    BY <1>1, ConstantFacts DEF AsyncReturns, TypeOK, Running
  <2>2. \/ async'[b][i] = "done" /\ failed'[b] = failed[b]
        \/ async'[b][i] = "report" /\ failed'[b] = failed[b] \cup {i}
    BY <1>1, ConstantFacts DEF AsyncReturns, TypeOK, Running
  <2>3. pc[b] \notin {"none", "sleep", "result", "done"} /\ Registry[i].async
    BY <2>1 DEF Fresh, Goroutines
  <2>4. Fresh(b)' /\ Goroutines(b)'
    BY <2>1, <2>2, <2>3 DEF Fresh, Goroutines
  <2>5. SyncErr(b)' /\ Channel(b)'
    BY <2>1, <2>2 DEF SyncErr, Channel
  <2>6. Accounted(b)'
    <3>1. \A j \in failed'[b] : j \in failed[b] \/ (j = i /\ async'[b][i] = "report")
      BY <2>2
    <3>2. \A j \in failed[b] : async[b][j] = "report" /\ j \in Index => async'[b][j] = "report"
      BY <2>1
    <3> QED
      BY <2>1, <2>3, <3>1, <3>2 DEF Accounted, Running
  <2>7. Result(b)'
    BY <2>1, <2>2, <2>3 DEF Result
  <2> QED
    BY <2>4, <2>5, <2>6, <2>7
<1>2. CASE AsyncReports(b, i)
  <2>1. /\ async[b][i] = "report" /\ async'[b][i] = "done" /\ exit = "none" /\ exit' = "none"
        /\ pc' = pc /\ pos' = pos /\ failed' = failed /\ result' = result /\ buildErr' = buildErr
        /\ \A j \in Index : j # i => async'[b][j] = async[b][j]
        /\ errCh'[b] = Append(errCh[b], i) /\ errCh[b] \in Seq(Index)
    BY <1>2, ConstantFacts DEF AsyncReports, TypeOK, Running
  <2>2. /\ Len(errCh'[b]) = Len(errCh[b]) + 1 /\ Len(errCh[b]) \in Nat
        /\ errCh'[b][Len(errCh[b]) + 1] = i
        /\ \A k \in 1..Len(errCh[b]) : errCh'[b][k] = errCh[b][k]
    BY <2>1, AppendProperties
  <2>3. pc[b] \notin {"none", "sleep", "result", "done"} /\ Registry[i].async /\ i \in failed[b]
    BY <2>1 DEF Fresh, Goroutines
  <2>4. Fresh(b)' /\ Goroutines(b)'
    BY <2>1, <2>3 DEF Fresh, Goroutines
  <2>5. SyncErr(b)' /\ Result(b)'
    BY <2>1, <2>3 DEF SyncErr, Result
  <2>6. Channel(b)'
    <3>1. \A k \in 1..Len(errCh'[b]) : k \in 1..Len(errCh[b]) \/ k = Len(errCh[b]) + 1
      BY <2>2
    <3> QED
      BY <2>1, <2>2, <2>3, <3>1 DEF Channel
  <2>7. Accounted(b)'
    <3>1. \A j \in Index : (\E k \in 1..Len(errCh[b]) : errCh[b][k] = j)
                           => \E k \in 1..Len(errCh'[b]) : errCh'[b][k] = j
      BY <2>2
    <3>2. \E k \in 1..Len(errCh'[b]) : errCh'[b][k] = i
      BY <2>2
    <3>3. \A j \in Index : async[b][j] = "report" => j = i \/ async'[b][j] = "report"
      BY <2>1
    <3> QED
      BY <2>1, <2>3, <3>1, <3>2, <3>3 DEF Accounted, Running
  <2> QED
    BY <2>4, <2>5, <2>6, <2>7
<1>3. CASE StepExits(b, i)
  <2>1. /\ exit' = "1" /\ failed'[b] = failed[b] \cup {i}
        /\ pc' = pc /\ pos' = pos /\ errCh' = errCh /\ result' = result /\ buildErr' = buildErr
        /\ async' = async
        /\ pc[b] \notin {"none", "sleep", "result", "done"}
    BY <1>3, ConstantFacts DEF TypeOK, Running, StepExits, Fresh, Goroutines
  <2>2. Fresh(b)' /\ Goroutines(b)'
    BY <2>1 DEF Fresh, Goroutines
  <2>3. SyncErr(b)' /\ Channel(b)'
    BY <2>1 DEF SyncErr, Channel
  <2>4. Accounted(b)' /\ Result(b)'
    BY <2>1 DEF Accounted, Result, Running
  <2> QED
    BY <2>2, <2>3, <2>4
<1> QED
  BY <1>1, <1>2, <1>3 DEF AsyncStep

\* The join: FirstError is the truth about what failed.
LEMMA JoinStep ==
  ASSUME TypeOK, NEW b \in Build, PerBuild(b), Join(b)
  PROVE  PerBuild(b)' /\ FirstError(b) \in Index \cup {0}
<1> USE DEF PerBuild
<1>t. Index \subseteq Nat \ {0}
  BY ConstantFacts
<1>1. /\ pc[b] = "join" /\ pc'[b] = "result" /\ exit = "none" /\ exit' = "none"
      /\ pos' = pos /\ failed' = failed /\ buildErr' = buildErr /\ async' = async
      /\ errCh'[b] = << >> /\ result'[b] = FirstError(b)
      /\ \A i \in Index : async[b][i] \in {"none", "done"}
  BY ConstantFacts DEF Join, TypeOK, Running
<1>2. /\ buildErr[b] \in Index \cup {0} /\ failed[b] \subseteq 1..BuiltinErr
      /\ errCh[b] \in Seq(Index) /\ Len(errCh[b]) \in Nat
      /\ errCh[b] = << >> <=> Len(errCh[b]) = 0
  BY EmptySeq, LenProperties DEF TypeOK
<1>3. \A i \in failed[b] :
        /\ i \in Index
        /\ ~Registry[i].async => i <= buildErr[b]
        /\ Registry[i].async => \E k \in 1..Len(errCh[b]) : errCh[b][k] = i
  BY <1>1 DEF Accounted, Running
<1>4. CASE buildErr[b] # 0
  <2>1. FirstError(b) = buildErr[b] /\ buildErr[b] \in failed[b] /\ ~Registry[buildErr[b]].async
    BY <1>4 DEF FirstError, SyncErr
  <2>2. Result(b)'
    BY <1>1, <1>2, <1>3, <1>4, <1>t, <2>1 DEF Result
  <2> QED
    BY <1>1, <1>2, <2>1, <2>2 DEF Fresh, Goroutines, SyncErr, Channel, Accounted
<1>5. CASE buildErr[b] = 0 /\ errCh[b] # << >>
  <2>0. FirstError(b) = errCh[b][1]
    BY <1>5 DEF FirstError
  <2>1. FirstError(b) \in failed[b] /\ FirstError(b) \in Index
    BY <1>2, <1>5, <2>0, ElementOfSeq DEF Channel
  <2>2. Result(b)'
    BY <1>1, <1>2, <1>3, <1>5, <1>t, <2>1 DEF Result
  <2> QED
    BY <1>1, <1>2, <2>1, <2>2 DEF Fresh, Goroutines, SyncErr, Channel, Accounted
<1>6. CASE buildErr[b] = 0 /\ errCh[b] = << >>
  <2>0. \A i \in failed[b] : FALSE
    BY <1>2, <1>3, <1>6, <1>t
  <2>1. FirstError(b) = 0 /\ failed[b] = {}
    BY <1>6, <2>0 DEF FirstError
  <2>2. Result(b)'
    BY <1>1, <2>1 DEF Result
  <2> QED
    BY <1>1, <1>2, <2>1, <2>2 DEF Fresh, Goroutines, SyncErr, Channel, Accounted
<1> QED
  BY <1>4, <1>5, <1>6

-----------------------------------------------------------------------------
(* The engine.                                                             *)

\* What a step of the engine preserves.
LEMMA EngineStep ==
  ASSUME IInv, SpawnBuild \/ NextGroup \/ EngineReturn
  PROVE  TypeOK' /\ Placed' /\ Exits' /\ \A c \in Build : PerBuild(c)'
<1> USE ConstantFacts
<1>1. CASE SpawnBuild
  <2> DEFINE b == Groups[group][spawned + 1]
  <2>1. /\ group \in 1..Len(Groups) /\ spawned \in 0..(Len(Groups[group]) - 1)
        /\ spawned + 1 \in 1..Len(Groups[group]) /\ b \in Build /\ pc[b] = "none"
    <3>1. group \in 1..Len(Groups) /\ spawned \in Nat /\ spawned < Len(Groups[group])
      BY <1>1 DEF SpawnBuild, IInv, TypeOK
    <3>2. spawned + 1 \in 1..Len(Groups[group]) /\ spawned \in 0..(Len(Groups[group]) - 1)
      BY <3>1
    <3>3. b \in Build
      BY <3>1, <3>2
    <3>4. pc[b] = "none"
      BY <3>1, <3>2 DEF IInv, Placed
    <3> QED
      BY <3>1, <3>2, <3>3, <3>4
  <2>2. /\ pc' = [pc EXCEPT ![b] = "sleep"] /\ spawned' = spawned + 1 /\ exit = "none"
        /\ UNCHANGED <<target, group, pos, async, ids, buildErr, errCh, result, failed, idStore, exit>>
    BY <1>1 DEF SpawnBuild, Running
  <2>3. TypeOK'
    <3> HIDE DEF b
    <3>1. pc' \in [Build -> {"none", "sleep", "loop", "sync", "join", "result", "done"}]
      BY <2>1, <2>2 DEF IInv, TypeOK
    <3>2. spawned' \in Nat
      BY <2>1, <2>2
    <3> QED
      BY <2>2, <3>1, <3>2 DEF IInv, TypeOK
  <2>4. \A g \in 1..Len(Groups) : \A k \in 1..Len(Groups[g]) :
          g # group \/ k > spawned + 1 => pc'[Groups[g][k]] = pc[Groups[g][k]]
    <3>1. ASSUME NEW g \in 1..Len(Groups), NEW k \in 1..Len(Groups[g]), g # group \/ k > spawned + 1
          PROVE  pc'[Groups[g][k]] = pc[Groups[g][k]]
      <4>1. k # spawned + 1 \/ g # group
        BY <2>1, <3>1
      <4>2. Groups[g][k] # b /\ Groups[g][k] \in Build
        BY <2>1, <4>1
      <4>3. pc \in [Build -> {"none", "sleep", "loop", "sync", "join", "result", "done"}]
        BY DEF IInv, TypeOK
      <4> HIDE DEF b
      <4> QED
        BY ONLY <2>2, <4>2, <4>3
    <3> QED
      BY <3>1
  <2>5. Placed'
    BY <2>1, <2>2, <2>4 DEF IInv, Placed
  <2>6. Exits'
    BY <2>2 DEF Exits
  <2>7. ASSUME NEW c \in Build PROVE PerBuild(c)'
    <3>1. CASE c # b
      <4>1. Same(c) /\ (Running' => Running)
        BY <2>1, <2>2, <3>1 DEF Same, Running, IInv, TypeOK
      <4> QED
        BY <4>1, Frame DEF IInv
    <3>2. CASE c = b
      <4>1. pc[c] = "none" /\ pc'[c] = "sleep" /\ PerBuild(c)
        BY <2>1, <2>2, <3>2 DEF IInv, TypeOK
      <4> HIDE DEF b
      <4>2. Fresh(c)' /\ Goroutines(c)'
        BY <2>2, <4>1 DEF PerBuild, Fresh, Goroutines
      <4>3. SyncErr(c)' /\ Channel(c)'
        BY <2>2, <4>1 DEF PerBuild, SyncErr, Channel
      <4>4. Accounted(c)' /\ Result(c)'
        BY <2>2, <4>1 DEF PerBuild, Accounted, Result, Running
      <4> QED
        BY <4>2, <4>3, <4>4 DEF PerBuild
    <3> QED
      BY <3>1, <3>2
  <2> QED
    BY <2>3, <2>5, <2>6, <2>7
<1>2. CASE NextGroup
  <2>1. /\ group \in 1..Len(Groups) /\ group' = group + 1 /\ spawned' = 0 /\ exit = "none"
        /\ UNCHANGED <<target, buildVars, idStore, exit>>
        /\ \A k \in 1..Len(Groups[group]) : pc[Groups[group][k]] = "done"
    <3>1. group \in 1..Len(Groups)
      BY <1>2 DEF NextGroup, IInv, TypeOK
    <3>2. \A k \in 1..Len(Groups[group]) : Groups[group][k] \in Builds(group)
      BY <3>1 DEF Builds
    <3>3. \A k \in 1..Len(Groups[group]) : pc[Groups[group][k]] = "done"
      BY <1>2, <3>2 DEF NextGroup
    <3> QED
      BY <1>2, <3>1, <3>3 DEF NextGroup, Running
  <2>2. TypeOK'
    BY <2>1 DEF IInv, TypeOK, buildVars
  <2>3. Placed'
    <3>1. pc' = pc
      BY <2>1 DEF buildVars
    <3>2. \A g \in 1..Len(Groups) : g < group + 1 => g < group \/ g = group
      BY <2>1
    <3>3. \A g \in 1..Len(Groups) : g >= group + 1 => g > group
      BY <2>1
    <3> QED
      BY <2>1, <3>1, <3>2, <3>3 DEF IInv, Placed
  <2>4. Exits'
    BY <2>1 DEF Exits
  <2>5. \A c \in Build : Same(c) /\ (Running' => Running)
    BY <2>1 DEF Same, Running, buildVars
  <2> QED
    BY <2>2, <2>3, <2>4, <2>5, Frame DEF IInv
<1>3. CASE EngineReturn
  <2>1. exit' = "0" /\ group = Len(Groups) + 1 /\ UNCHANGED <<target, group, spawned, buildVars, idStore>>
    BY <1>3 DEF EngineReturn
  <2>2. TypeOK' /\ Exits'
    BY <2>1 DEF IInv, TypeOK, buildVars, Exits
  <2>3. Placed'
    BY <2>1 DEF IInv, Placed, buildVars
  <2>4. \A c \in Build : Same(c) /\ (Running' => Running)
    BY <2>1 DEF Same, Running, buildVars
  <2> QED
    BY <2>2, <2>3, <2>4, Frame DEF IInv
<1> QED
  BY <1>1, <1>2, <1>3

\* The steps of a build leave the engine's position alone, and start no build.
LEMMA BuildPlaced ==
  ASSUME IInv, NEW b \in Build, NEW i, StepOf(b, i)
  PROVE  Placed' /\ group' = group /\ spawned' = spawned
<1>1. group' = group /\ spawned' = spawned
  BY DEF StepOf, BuildStep, AsyncStep, StepExits, RunSteps, RunOther, FinishBuild, SkipStep, StartAsync,
         StartSync, LoopEnds, Join, SyncReturns, AsyncReports, AsyncReturns
<1>2. ASSUME NEW c \in Build PROVE /\ pc[c] = "none" => pc'[c] = "none"
                                   /\ pc[c] = "done" => pc'[c] = "done"
  <2>1. CASE c # b
    BY <2>1, OthersSame DEF Same, IInv
  <2>2. CASE c = b
    <3> USE <2>2 DEF IInv, TypeOK
    <3>1. CASE RunSteps(b) \/ RunOther(b) \/ FinishBuild(b)
      BY <3>1 DEF RunSteps, RunOther, FinishBuild
    <3>2. CASE SkipStep(b) \/ StartAsync(b) \/ StartSync(b) \/ LoopEnds(b)
      BY <3>2 DEF SkipStep, StartAsync, StartSync, LoopEnds, Looping
    <3>3. CASE Join(b) \/ \E ok \in BOOLEAN : SyncReturns(b, ok)
      BY <3>3 DEF Join, SyncReturns
    <3>4. CASE i \in Index /\ (AsyncStep(b, i) \/ StepExits(b, i))
      BY <3>4 DEF AsyncStep, StepExits, AsyncReports, AsyncReturns
    <3> QED
      BY <3>1, <3>2, <3>3, <3>4 DEF StepOf, BuildStep
  <2> QED
    BY <2>1, <2>2
<1> QED
  BY <1>1, <1>2, ConstantFacts DEF IInv, Placed

\* The exit code of a build's step.
LEMMA BuildExits ==
  ASSUME IInv, NEW b \in Build, NEW i, StepOf(b, i)
  PROVE  Exits'
<1> USE DEF Running
<1>1. CASE FinishBuild(b)
  <2>1. exit' = "1" => failed' = failed /\ result[b] # 0 /\ pc[b] = "result" /\ Running
    BY <1>1 DEF FinishBuild
  <2>2. exit' \in {"none", "1"}
    BY <1>1 DEF FinishBuild
  <2>3. exit' = "1" => failed'[b] # {}
    BY <2>1 DEF IInv, PerBuild, Result
  <2> QED
    BY <2>2, <2>3 DEF Exits
<1>2. CASE i \in Index /\ StepExits(b, i)
  <2>1. exit' = "1" /\ i \in failed'[b]
    BY <1>2 DEF StepExits, IInv, TypeOK
  <2> QED
    BY <2>1 DEF Exits
<1>3. CASE ~FinishBuild(b) /\ ~(i \in Index /\ StepExits(b, i))
  <2>1. exit' = "none"
    BY <1>3 DEF StepOf, BuildStep, AsyncStep, RunSteps, RunOther, SkipStep, StartAsync, Looping,
                StartSync, LoopEnds, Join, SyncReturns, AsyncReports, AsyncReturns
  <2> QED
    BY <2>1 DEF Exits
<1> QED
  BY <1>1, <1>2, <1>3

\* The types, when a build steps.
LEMMA BuildTyped ==
  ASSUME IInv, NEW b \in Build, NEW i, StepOf(b, i)
  PROVE  TypeOK'
<1> USE ConstantFacts DEF IInv, TypeOK, Running
<1>1. CASE RunSteps(b)
  BY <1>1 DEF RunSteps
<1>2. CASE RunOther(b)
  <2>1. PICK e \in {0, BuiltinErr} :
          /\ result' = [result EXCEPT ![b] = e]
          /\ failed' = [failed EXCEPT ![b] = @ \cup ({e} \ {0})]
    BY <1>2 DEF RunOther
  <2>2. result' \in [Build -> -1..BuiltinErr] /\ failed' \in [Build -> SUBSET (1..BuiltinErr)]
    BY <2>1
  <2> QED
    BY <1>2, <2>2 DEF RunOther
<1>3. CASE FinishBuild(b)
  <2> DEFINE t == [k \in DOMAIN ids[b] |-> <<b, ids[b][k]>>]
  <2>1. t \in Seq(Build \X Index)
    <3>1. ids[b] \in Seq(Index) /\ Len(ids[b]) \in Nat /\ DOMAIN ids[b] = 1..Len(ids[b])
      BY LenProperties
    <3>2. \A k \in 1..Len(ids[b]) : ids[b][k] \in Index
      BY <3>1, ElementOfSeq
    <3>3. t \in [1..Len(ids[b]) -> Build \X Index]
      BY <3>1, <3>2
    <3> QED
      BY <3>1, <3>3, SeqDef
  <2>2. idStore' = idStore \/ idStore' = idStore \o t
    BY <1>3 DEF FinishBuild
  <2> HIDE DEF t
  <2>3. idStore' \in Seq(Build \X Index)
    <3>1. idStore \in Seq(Build \X Index)
      OBVIOUS
    <3>2. idStore \o t \in Seq(Build \X Index)
      BY <2>1, <3>1, ConcatProperties
    <3> QED
      BY <2>2, <3>1, <3>2
  <2>4. pc' \in [Build -> {"none", "sleep", "loop", "sync", "join", "result", "done"}]
    BY <1>3 DEF FinishBuild
  <2>5. exit' \in {"none", "0", "1"}
    BY <1>3 DEF FinishBuild
  <2> QED
    BY <1>3, <2>3, <2>4, <2>5 DEF FinishBuild
<1>4. CASE SkipStep(b) \/ StartAsync(b)
  <2>0. pos[b] \in Index
    BY <1>4 DEF SkipStep, StartAsync, Looping
  <2>1. pos' \in [Build -> 1..(Len(Registry) + 1)]
    <3>1. pos' = [pos EXCEPT ![b] = pos[b] + 1]
      BY <1>4 DEF SkipStep, StartAsync, Advance
    <3>2. pos[b] + 1 \in 1..(Len(Registry) + 1)
      BY <2>0
    <3> QED
      BY <3>1, <3>2
  <2>2. async' \in [Build -> [Index -> {"none", "run", "report", "done"}]]
    <3>1. \A p \in Index : [async EXCEPT ![b][p] = "run"]
                           \in [Build -> [Index -> {"none", "run", "report", "done"}]]
      OBVIOUS
    <3>2. async' = async \/ async' = [async EXCEPT ![b][pos[b]] = "run"]
      BY <1>4 DEF SkipStep, StartAsync
    <3>3. async \in [Build -> [Index -> {"none", "run", "report", "done"}]]
      OBVIOUS
    <3>4. [async EXCEPT ![b][pos[b]] = "run"] \in [Build -> [Index -> {"none", "run", "report", "done"}]]
      BY <2>0, <3>1, Zenon
    <3> QED
      BY <3>2, <3>3, <3>4, Zenon
  <2> QED
    BY <1>4, <2>1, <2>2 DEF SkipStep, StartAsync
<1>5. CASE StartSync(b) \/ LoopEnds(b)
  BY <1>5 DEF StartSync, LoopEnds
<1>6. CASE Join(b)
  <2>1. FirstError(b) \in Index \cup {0}
    BY <1>6, JoinStep
  <2>2. result' \in [Build -> -1..BuiltinErr]
    BY <1>6, <2>1 DEF Join
  <2>3. errCh' \in [Build -> Seq(Index)]
    BY <1>6, EmptySeq DEF Join
  <2>4. pc' \in [Build -> {"none", "sleep", "loop", "sync", "join", "result", "done"}]
    BY <1>6 DEF Join
  <2> QED
    BY <1>6, <2>2, <2>3, <2>4 DEF Join
<1>7. CASE \E ok \in BOOLEAN : SyncReturns(b, ok)
  <2>1. pos[b] \in Index
    BY <1>7 DEF SyncReturns, PerBuild, SyncErr
  <2>2. pos' \in [Build -> 1..(Len(Registry) + 1)]
    BY <1>7, <2>1 DEF SyncReturns, Advance
  <2>3. ids' \in [Build -> Seq(Index)]
    BY <1>7, <2>1 DEF SyncReturns
  <2>4. buildErr' \in [Build -> Index \cup {0}]
    BY <1>7, <2>1 DEF SyncReturns
  <2>5. failed' \in [Build -> SUBSET (1..BuiltinErr)]
    <3>1. failed \in [Build -> SUBSET (1..BuiltinErr)] /\ pos[b] \in 1..BuiltinErr
      BY <2>1
    <3>2. \E v \in {failed[b], failed[b] \cup {pos[b]}} : failed' = [failed EXCEPT ![b] = v]
      BY ONLY <1>7 DEF SyncReturns
    <3> QED
      BY ONLY <3>1, <3>2
  <2>6. pc' \in [Build -> {"none", "sleep", "loop", "sync", "join", "result", "done"}]
    BY <1>7 DEF SyncReturns
  <2> QED
    BY <1>7, <2>2, <2>3, <2>4, <2>5, <2>6 DEF SyncReturns
<1>8. CASE i \in Index /\ \E ok \in BOOLEAN : AsyncReturns(b, i, ok)
  <2>1. ids' \in [Build -> Seq(Index)]
    BY <1>8 DEF AsyncReturns
  <2>2. failed' \in [Build -> SUBSET (1..BuiltinErr)]
    <3>1. failed \in [Build -> SUBSET (1..BuiltinErr)] /\ i \in 1..BuiltinErr
      BY <1>8
    <3>2. \E v \in {failed[b], failed[b] \cup {i}} : failed' = [failed EXCEPT ![b] = v]
      BY ONLY <1>8 DEF AsyncReturns
    <3> QED
      BY ONLY <3>1, <3>2
  <2>3. async' \in [Build -> [Index -> {"none", "run", "report", "done"}]]
    BY <1>8 DEF AsyncReturns
  <2>4. UNCHANGED <<target, group, spawned, pc, pos, buildErr, errCh, result, idStore, exit>>
    BY <1>8 DEF AsyncReturns
  <2> QED
    BY <2>1, <2>2, <2>3, <2>4
<1>9. CASE i \in Index /\ AsyncReports(b, i)
  <2>1. errCh' \in [Build -> Seq(Index)]
    BY <1>9 DEF AsyncReports
  <2>2. async' \in [Build -> [Index -> {"none", "run", "report", "done"}]]
    BY <1>9 DEF AsyncReports
  <2> QED
    BY <1>9, <2>1, <2>2 DEF AsyncReports
<1>10. CASE i \in Index /\ StepExits(b, i)
  <2>1. failed' \in [Build -> SUBSET (1..BuiltinErr)]
    BY <1>10 DEF StepExits
  <2> QED
    BY <1>10, <2>1 DEF StepExits
<1> QED
  BY <1>1, <1>2, <1>3, <1>4, <1>5, <1>6, <1>7, <1>8, <1>9, <1>10 DEF StepOf, BuildStep, AsyncStep

-----------------------------------------------------------------------------
\* What a step of a build preserves of that build and of the others.
LEMMA BuildPreserved ==
  ASSUME IInv, NEW b \in Build, NEW i, StepOf(b, i)
  PROVE  \A c \in Build : PerBuild(c)'
<1>1. ASSUME NEW c \in Build, c # b PROVE PerBuild(c)'
  <2>1. Same(c) /\ Running
    BY <1>1, OthersSame DEF IInv
  <2> QED
    BY <2>1, Frame DEF IInv
<1>2. PerBuild(b)'
  <2>0. TypeOK /\ PerBuild(b)
    BY DEF IInv
  <2>1. CASE RunSteps(b) \/ RunOther(b) \/ FinishBuild(b)
    BY <2>0, <2>1, DispatchStep
  <2>2. CASE SkipStep(b) \/ StartAsync(b) \/ StartSync(b) \/ LoopEnds(b)
    BY <2>0, <2>2, LoopStep
  <2>3. CASE Join(b)
    BY <2>0, <2>3, JoinStep
  <2>4. CASE \E ok \in BOOLEAN : SyncReturns(b, ok)
    BY <2>0, <2>4, SyncStep
  <2>5. CASE i \in Index /\ (AsyncStep(b, i) \/ StepExits(b, i))
    BY <2>0, <2>5, GoroutineStep
  <2> QED
    BY <2>1, <2>2, <2>3, <2>4, <2>5 DEF StepOf, BuildStep
<1> QED
  BY <1>1, <1>2

LEMMA InitInv == Init => IInv
<1> SUFFICES ASSUME Init PROVE IInv
  OBVIOUS
<1> USE ConstantFacts DEF Init
<1>1. TypeOK
  <2>1. << >> \in Seq(Index) /\ << >> \in Seq(Build \X Index)
    BY EmptySeq
  <2>2. -1 \in -1..BuiltinErr /\ 0 \in Index \cup {0} /\ 1 \in 1..(Len(Registry) + 1)
    OBVIOUS
  <2> QED
    BY <2>1, <2>2 DEF TypeOK
<1>2. Placed
  BY DEF Placed
<1>3. Exits
  BY DEF Exits
<1>4. ASSUME NEW b \in Build PROVE PerBuild(b)
  <2>1. Fresh(b) /\ Goroutines(b) /\ SyncErr(b)
    BY DEF Fresh, Goroutines, SyncErr
  <2>2. Channel(b) /\ Accounted(b) /\ Result(b)
    BY EmptySeq DEF Channel, Accounted, Result
  <2> QED
    BY <2>1, <2>2 DEF PerBuild
<1> QED
  BY <1>1, <1>2, <1>3, <1>4 DEF IInv

\* Every step is one of the engine or one of a build.
LEMMA NextCases ==
  ASSUME Next
  PROVE  \/ SpawnBuild \/ NextGroup \/ EngineReturn
         \/ \E b \in Build : \E i \in Index \cup {0} : StepOf(b, i)
BY DEF Next, StepOf

LEMMA NextInv == IInv /\ [Next]_vars => IInv'
<1> SUFFICES ASSUME IInv, [Next]_vars PROVE IInv'
  OBVIOUS
<1>1. CASE SpawnBuild \/ NextGroup \/ EngineReturn
  BY <1>1, EngineStep DEF IInv
<1>2. ASSUME NEW b \in Build, NEW i, StepOf(b, i) PROVE IInv'
  BY <1>2, BuildTyped, BuildPlaced, BuildExits, BuildPreserved DEF IInv
<1>3. CASE UNCHANGED vars
  <2>1. TypeOK' /\ Exits'
    BY <1>3 DEF IInv, TypeOK, Exits, vars, buildVars
  <2>2. Placed'
    BY <1>3 DEF IInv, Placed, vars, buildVars
  <2>3. \A c \in Build : Same(c) /\ (Running' => Running)
    BY <1>3 DEF Same, vars, buildVars, Running
  <2> QED
    BY <2>1, <2>2, <2>3, Frame DEF IInv
<1> QED
  BY <1>1, <1>2, <1>3, NextCases

-----------------------------------------------------------------------------
(* The theorems.                                                           *)

\* The inductive invariant holds in every reachable state.
LEMMA PipelineInv == Spec => []IInv
BY InitInv, NextInv, PTL DEF Spec

\* Every variable of the engine run keeps its type: the loop index stays within
\* the list, and results and channels hold indices of steps.
THEOREM PipelineTyped == Spec => []TypeOK
<1>1. IInv => TypeOK
  BY DEF IInv
<1> QED
  BY <1>1, PipelineInv, PTL

\* The result of a build is nil exactly when nothing of it failed, and names the
\* last synchronous failure if there is one, for every registry and every
\* interleaving of the step goroutines (runAllMatchingBuilds).
THEOREM ResultsAreTruthful == Spec => []ResultTruthful
<1>1. IInv => ResultTruthful
  <2> SUFFICES ASSUME IInv, NEW b \in Build, result[b] # -1, Running
               PROVE  /\ result[b] = 0 <=> failed[b] = {}
                      /\ result[b] # 0 => result[b] \in failed[b]
                      /\ SyncFailures(b) # {} => /\ result[b] \in SyncFailures(b)
                                                 /\ \A i \in SyncFailures(b) : i <= result[b]
    BY DEF ResultTruthful
  <2>1. Result(b) /\ pc[b] \in {"result", "done"}
    BY DEF IInv, PerBuild, Result
  <2>2. CASE pc[b] = "result"
    BY <2>1, <2>2 DEF Result, SyncFailures
  <2>3. CASE pc[b] = "done"
    BY <2>1, <2>3 DEF Result, SyncFailures
  <2> QED
    BY <2>1, <2>2, <2>3
<1> QED
  BY <1>1, PipelineInv, PTL

\* No build of a group starts before every build of every earlier group has
\* ended without an error (Engine, executeBuildGroup).
THEOREM GroupsAreBarriers == Spec => []GroupBarrier
<1>1. IInv => GroupBarrier
  <2> SUFFICES ASSUME IInv, NEW g \in 1..Len(Groups), NEW h \in 1..Len(Groups), g < h,
                      NEW b \in Builds(g), NEW c \in Builds(h), pc[c] # "none"
               PROVE  pc[b] = "done" /\ failed[b] = {}
    BY ConstantFacts DEF GroupBarrier
  <2>1. PICK k \in 1..Len(Groups[g]) : b = Groups[g][k]
    BY ConstantFacts DEF Builds
  <2>2. PICK l \in 1..Len(Groups[h]) : c = Groups[h][l]
    BY ConstantFacts DEF Builds
  <2>a. group \in Nat /\ Len(Groups) \in Nat
    BY ConstantFacts DEF IInv, TypeOK
  <2>b. ~(h > group)
    BY <2>2 DEF IInv, Placed
  <2>3. group \in Nat /\ h <= group
    BY <2>a, <2>b
  <2>4. pc[b] = "done" /\ b \in Build
    BY <2>1, <2>3, ConstantFacts DEF IInv, Placed
  <2> QED
    BY <2>4 DEF IInv, PerBuild, Result
<1> QED
  BY <1>1, PipelineInv, PTL

-----------------------------------------------------------------------------
(* The engine implements EngineOutcome.                                    *)

\* A step that leaves the other builds alone changes the phase of one build.
LEMMA PhaseFrame ==
  ASSUME NEW b \in Build, \A c \in Build : c # b => failed'[c] = failed[c] /\ pc'[c] = pc[c]
  PROVE  Phase' = [Phase EXCEPT ![b] = PhaseOf(b)']
<1>1. \A c \in Build : c # b => PhaseOf(c)' = PhaseOf(c)
  BY DEF PhaseOf
<1> QED
  BY <1>1 DEF Phase

\* The steps that neither end the process nor the build: the phase stays, or
\* goes from running to failed.
LEMMA InnerPhase ==
  ASSUME IInv, NEW b \in Build, NEW i, StepOf(b, i), ~FinishBuild(b),
         ~(i \in Index /\ StepExits(b, i))
  PROVE  /\ exit = "none" /\ exit' = "none"
         /\ pc[b] \notin {"none", "done"} /\ pc'[b] \notin {"none", "done"}
         /\ failed[b] \subseteq failed'[b]
<1> USE DEF IInv, TypeOK, Running
<1>1. CASE RunSteps(b) \/ RunOther(b)
  BY <1>1 DEF RunSteps, RunOther
<1>2. CASE SkipStep(b) \/ StartAsync(b) \/ StartSync(b) \/ LoopEnds(b)
  BY <1>2 DEF SkipStep, StartAsync, StartSync, LoopEnds, Looping
<1>3. CASE Join(b)
  BY <1>3 DEF Join
<1>4. CASE \E ok \in BOOLEAN : SyncReturns(b, ok)
  BY <1>4 DEF SyncReturns
<1>5. CASE i \in Index /\ AsyncStep(b, i)
  <2>1. async[b][i] # "none" /\ async[b][i] # "done" /\ pc' = pc /\ exit = "none" /\ exit' = "none"
    BY <1>5 DEF AsyncStep, AsyncReports, AsyncReturns
  <2>2. pc[b] \notin {"none", "done"}
    BY <1>5, <2>1 DEF PerBuild, Fresh, Goroutines
  <2>3. failed[b] \subseteq failed'[b]
    BY <1>5 DEF AsyncStep, AsyncReports, AsyncReturns
  <2> QED
    BY <2>1, <2>2, <2>3
<1> QED
  BY <1>1, <1>2, <1>3, <1>4, <1>5 DEF StepOf, BuildStep

\* Every step of a build is a step of EngineOutcome or changes nothing there.
LEMMA BuildRefines ==
  ASSUME IInv, NEW b \in Build, NEW i, StepOf(b, i)
  PROVE  [Outcome!Next]_(Outcome!vars)
<1>0. \A c \in Build : c # b => failed'[c] = failed[c] /\ pc'[c] = pc[c]
  BY OthersSame DEF IInv, Same
<1>1. Phase' = [Phase EXCEPT ![b] = PhaseOf(b)']
  BY <1>0, PhaseFrame
<1>2. Phase[b] = PhaseOf(b) /\ Phase \in [Build -> {PhaseOf(c) : c \in Build}]
  BY DEF Phase
<1>3. ASSUME PhaseOf(b)' = PhaseOf(b) PROVE Phase' = Phase
  BY <1>1, <1>2, <1>3
<1>4. CASE ~FinishBuild(b) /\ ~(i \in Index /\ StepExits(b, i))
  <2>1. /\ exit = "none" /\ exit' = "none"
        /\ pc[b] \notin {"none", "done"} /\ pc'[b] \notin {"none", "done"}
        /\ failed[b] \subseteq failed'[b]
    BY <1>4, InnerPhase
  <2>2. \/ PhaseOf(b)' = PhaseOf(b)
        \/ PhaseOf(b) = "running" /\ PhaseOf(b)' = "failed"
    BY <2>1 DEF PhaseOf
  <2>3. CASE PhaseOf(b)' = PhaseOf(b)
    BY <1>3, <2>1, <2>3 DEF Outcome!vars
  <2>4. CASE PhaseOf(b) = "running" /\ PhaseOf(b)' = "failed"
    <3>1. Outcome!Fail(b)
      BY <1>1, <1>2, <2>1, <2>4 DEF Outcome!Fail, Outcome!Move
    <3> QED
      BY <3>1 DEF Outcome!Next
  <2> QED
    BY <2>2, <2>3, <2>4
<1>5. CASE FinishBuild(b)
  <2>1. /\ exit = "none" /\ pc[b] = "result" /\ failed' = failed
        /\ (result[b] = 0) <=> (failed[b] = {})
    BY <1>5 DEF FinishBuild, Running, IInv, PerBuild, Result
  <2>2. CASE result[b] # 0
    <3>1. exit' = "1" /\ pc' = pc
      BY <1>5, <2>2 DEF FinishBuild
    <3>2. Phase[b] = "failed"
      BY <1>2, <2>1, <2>2 DEF PhaseOf
    <3>3. Phase' = Phase
      BY <2>1, <3>1, <1>3 DEF PhaseOf
    <3>4. Outcome!ExitFail
      BY <2>1, <3>1, <3>2, <3>3 DEF Outcome!ExitFail
    <3> QED
      BY <3>4 DEF Outcome!Next
  <2>3. CASE result[b] = 0
    <3>1. exit' = "none" /\ pc'[b] = "done"
      BY <1>5, <2>1, <2>3 DEF FinishBuild, IInv, TypeOK
    <3>2. PhaseOf(b) = "running" /\ PhaseOf(b)' = "ok"
      BY <2>1, <2>3, <3>1 DEF PhaseOf
    <3>3. Outcome!Succeed(b)
      BY <1>1, <1>2, <2>1, <3>1, <3>2 DEF Outcome!Succeed, Outcome!Move
    <3> QED
      BY <3>3 DEF Outcome!Next
  <2> QED
    BY <2>2, <2>3
<1>6. CASE i \in Index /\ StepExits(b, i)
  <2>1. exit = "none" /\ exit' = "1" /\ pc' = pc /\ failed'[b] # {}
    BY <1>6 DEF StepExits, Running, IInv, TypeOK
  <2>2. pc[b] \notin {"none", "done"}
    BY <1>6 DEF StepExits, IInv, PerBuild, Fresh, Goroutines
  <2>3. PhaseOf(b)' = "failed" /\ PhaseOf(b) \in {"failed", "running"}
    BY <2>1, <2>2 DEF PhaseOf
  <2>4. CASE PhaseOf(b) = "failed"
    <3>1. Outcome!ExitFail
      BY <1>2, <1>3, <2>1, <2>3, <2>4 DEF Outcome!ExitFail
    <3> QED
      BY <3>1 DEF Outcome!Next
  <2>5. CASE PhaseOf(b) = "running"
    <3>1. Outcome!Abort(b)
      BY <1>1, <1>2, <2>1, <2>3, <2>5 DEF Outcome!Abort, Outcome!Move
    <3> QED
      BY <3>1 DEF Outcome!Next
  <2> QED
    BY <2>3, <2>4, <2>5
<1> QED
  BY <1>4, <1>5, <1>6

\* A build of a group behind the engine's position has succeeded.
LEMMA BehindIsOk ==
  ASSUME IInv, NEW c \in Build, NEW g \in 1..Len(Groups), g < group, Outcome!Member(c, g)
  PROVE  Phase[c] = "ok"
<1>1. PICK k \in 1..Len(Groups[g]) : Groups[g][k] = c
  BY ConstantFacts DEF Outcome!Member
<1>2. pc[c] = "done"
  BY <1>1 DEF IInv, Placed
<1>3. failed[c] = {}
  BY <1>2 DEF IInv, PerBuild, Result
<1> QED
  BY <1>2, <1>3 DEF Phase, PhaseOf

LEMMA EngineRefines ==
  ASSUME IInv, SpawnBuild \/ NextGroup \/ EngineReturn
  PROVE  [Outcome!Next]_(Outcome!vars)
<1> USE ConstantFacts
<1>1. CASE SpawnBuild
  <2>1. group \in 1..Len(Groups) /\ spawned + 1 \in 1..Len(Groups[group])
    <3>1. group \in 1..Len(Groups) /\ spawned \in Nat /\ spawned < Len(Groups[group])
      BY <1>1 DEF SpawnBuild, IInv, TypeOK
    <3> QED
      BY <3>1
  <2>2. PICK b \in Build : b = Groups[group][spawned + 1] /\ pc[b] = "none"
    <3>1. Groups[group][spawned + 1] \in Build
      BY <2>1
    <3>2. spawned + 1 > spawned
      BY DEF IInv, TypeOK
    <3>3. pc[Groups[group][spawned + 1]] = "none"
      BY <2>1, <3>2 DEF IInv, Placed
    <3> QED
      BY <3>1, <3>3
  <2>3. pc' = [pc EXCEPT ![b] = "sleep"] /\ failed' = failed /\ exit = "none" /\ exit' = exit
    BY <1>1, <2>2 DEF SpawnBuild, Running
  <2>4. Outcome!Member(b, group)
    BY <2>1, <2>2 DEF Outcome!Member
  <2>5. failed[b] = {} /\ pc'[b] = "sleep"
    BY <2>2, <2>3 DEF IInv, TypeOK, PerBuild, Fresh
  <2>6. PhaseOf(b) = "waiting" /\ PhaseOf(b)' = "running"
    BY <2>2, <2>3, <2>5 DEF PhaseOf
  <2>7. Phase' = [Phase EXCEPT ![b] = "running"] /\ Phase[b] = "waiting"
    <3>1. \A c \in Build : c # b => failed'[c] = failed[c] /\ pc'[c] = pc[c]
      BY <2>2, <2>3 DEF IInv, TypeOK
    <3>2. Phase' = [Phase EXCEPT ![b] = PhaseOf(b)']
      BY <2>2, <3>1, PhaseFrame
    <3> QED
      BY <2>2, <2>6, <3>2 DEF Phase
  <2>8. \A g \in 1..(group - 1) : \A c \in Build : Outcome!Member(c, g) => Phase[c] = "ok"
    <3>1. \A g \in 1..(group - 1) : g \in 1..Len(Groups) /\ g < group
      BY <2>1
    <3> QED
      BY <3>1, BehindIsOk
  <2>9. Outcome!Start(b)
    BY <2>1, <2>3, <2>4, <2>7, <2>8 DEF Outcome!Start, Outcome!Move
  <2> QED
    BY <2>2, <2>9 DEF Outcome!Next
<1>2. CASE NextGroup
  <2>1. pc' = pc /\ failed' = failed /\ exit' = exit
    BY <1>2 DEF NextGroup, buildVars
  <2> QED
    BY <2>1 DEF Outcome!vars, Phase, PhaseOf
<1>3. CASE EngineReturn
  <2>1. pc' = pc /\ failed' = failed /\ exit = "none" /\ exit' = "0" /\ group = Len(Groups) + 1
    BY <1>3 DEF EngineReturn, buildVars, Running
  <2>2. Phase' = Phase
    BY <2>1 DEF Phase, PhaseOf
  <2>3. \A g \in 1..Len(Groups) : \A c \in Build : Outcome!Member(c, g) => Phase[c] = "ok"
    <3>1. \A g \in 1..Len(Groups) : g < group
      BY <2>1
    <3> QED
      BY <3>1, BehindIsOk
  <2>4. Outcome!ExitOK
    BY <2>1, <2>2, <2>3 DEF Outcome!ExitOK
  <2> QED
    BY <2>4 DEF Outcome!Next
<1> QED
  BY <1>1, <1>2, <1>3

\* The detailed engine implements EngineOutcome: groups start only after success,
\* a failure is never taken back, and the exit code is the truth, for every
\* registry, target and grouping (Engine, executeBuild, runAllMatchingBuilds).
THEOREM EngineImplementsOutcome == Spec => OutcomeSafe
<1>1. Init => Outcome!Init
  BY DEF Init, Outcome!Init, Phase, PhaseOf
<1>2. IInv /\ [Next]_vars => [Outcome!Next]_(Outcome!vars)
  <2> SUFFICES ASSUME IInv, [Next]_vars PROVE [Outcome!Next]_(Outcome!vars)
    OBVIOUS
  <2>1. CASE SpawnBuild \/ NextGroup \/ EngineReturn
    BY <2>1, EngineRefines
  <2>2. ASSUME NEW b \in Build, NEW i, StepOf(b, i) PROVE [Outcome!Next]_(Outcome!vars)
    BY <2>2, BuildRefines
  <2>3. CASE UNCHANGED vars
    BY <2>3 DEF vars, buildVars, Outcome!vars, Phase, PhaseOf
  <2> QED
    BY <2>1, <2>2, <2>3, NextCases
<1> QED
  BY <1>1, <1>2, PipelineInv, PTL DEF Spec, OutcomeSafe, Outcome!Spec

-----------------------------------------------------------------------------
(* Injective sequences: what the ids of a build are.                       *)

\* A new element at the end keeps a sequence injective.
LEMMA AppendNew ==
  ASSUME NEW S, NEW s \in Seq(S), NEW x \in S, x \notin ToSet(s), IsInjective(s)
  PROVE  /\ Append(s, x) \in Seq(S)
         /\ ToSet(Append(s, x)) = ToSet(s) \cup {x}
         /\ IsInjective(Append(s, x))
<1> DEFINE t == Append(s, x)
           n == Len(s)
<1>1. /\ n \in Nat /\ DOMAIN s = 1..n
      /\ t \in Seq(S) /\ Len(t) = n + 1
      /\ \A k \in 1..n : t[k] = s[k]
      /\ t[n + 1] = x
  BY AppendProperties, LenProperties
<1>2. DOMAIN t = 1..(n + 1)
  BY <1>1, LenProperties
<1>3. \A k \in 1..n : s[k] # x
  BY <1>1 DEF ToSet
<1> HIDE DEF t, n
<1>4. ToSet(t) = ToSet(s) \cup {x}
  <2>1. ASSUME NEW k \in 1..(n + 1) PROVE t[k] \in ToSet(s) \cup {x}
    <3>1. CASE k = n + 1
      BY <1>1, <3>1
    <3>2. CASE k \in 1..n
      BY <1>1, <3>2 DEF ToSet
    <3> QED
      BY <1>1, <3>1, <3>2
  <2>2. ASSUME NEW k \in 1..n PROVE s[k] \in ToSet(t)
    BY <1>1, <1>2, <2>2 DEF ToSet
  <2>3. x \in ToSet(t)
    BY <1>1, <1>2 DEF ToSet
  <2> QED
    BY <1>1, <1>2, <2>1, <2>2, <2>3 DEF ToSet
<1>5. IsInjective(t)
  <2>1. ASSUME NEW j \in 1..n, NEW k \in 1..n, t[j] = t[k] PROVE j = k
    BY <1>1, <2>1 DEF IsInjective
  <2>2. ASSUME NEW k \in 1..n PROVE t[k] # t[n + 1]
    BY <1>1, <1>3, <2>2
  <2> QED
    BY <1>1, <1>2, <2>1, <2>2 DEF IsInjective
<1> QED
  BY <1>1, <1>4, <1>5 DEF t

\* An injective sequence is as long as the set of its elements is large.
LEMMA InjectiveLength ==
  ASSUME NEW S, NEW s \in Seq(S), IsInjective(s)
  PROVE  Len(s) = Cardinality(ToSet(s))
<1>1. Len(s) \in Nat /\ s \in [1..Len(s) -> S] /\ DOMAIN s = 1..Len(s)
  BY LenProperties
<1>2. s \in [1..Len(s) -> ToSet(s)]
  BY <1>1 DEF ToSet
<1>3. \A y \in ToSet(s) : \E k \in 1..Len(s) : s[k] = y
  BY <1>1 DEF ToSet
<1>4. s \in Bijection(1..Len(s), ToSet(s))
  BY <1>2, <1>3 DEF Bijection, Injection, Surjection
<1>5. ExistsBijection(1..Len(s), ToSet(s))
  BY <1>4 DEF ExistsBijection
<1> QED
  BY <1>1, <1>5, FS_CountingElements

-----------------------------------------------------------------------------
(* The ids.                                                                *)

\* The selected steps of a build that have returned: those behind the loop, the
\* asynchronous ones among them when their goroutine has added the id.
Returned(b) ==
  {i \in Selected(b) : i < pos[b] /\ (Registry[i].async => async[b][i] \in {"report", "done"})}

\* The ids of a build are those of the steps that have returned, each once; only
\* selected steps have a goroutine, and every asynchronous one behind the loop has.
Collected(b) ==
  /\ ToSet(ids[b]) = Returned(b) /\ IsInjective(ids[b])
  /\ \A i \in Index : async[b][i] # "none" => i \in Selected(b)
  /\ \A i \in Selected(b) : i < pos[b] /\ Registry[i].async => async[b][i] # "none"
  /\ pc[b] = "sync" => pos[b] \in Selected(b)
  /\ pc[b] \in {"join", "result", "done"} /\ RunsSteps(TypeOf[b], target) => pos[b] \notin Index

\* The engine has the ids of every build that is done.
Delivered(b) == pc[b] = "done" => \A i \in ToSet(ids[b]) : <<b, i>> \in ToSet(idStore)

IdInv == \A b \in Build : Collected(b) /\ Delivered(b)

\* What the selection of steps depends on stays as it is.
LEMMA SelectedSame ==
  ASSUME NEW b \in Build, target' = target
  PROVE  /\ Selected(b)' = Selected(b) /\ Selected(b) \subseteq Index
         /\ RunsSteps(TypeOf[b], target)' = RunsSteps(TypeOf[b], target)
<1>1. Selected(b)' = Selected(b)
  BY DEF Selected, Wanted, AliasHolders, RegisteredFor
<1>2. MatchesOf[b] \subseteq Index
  BY PipelineAssumption
<1> QED
  BY <1>1, <1>2 DEF Selected, RunsSteps, AliasHolders, RegisteredFor

\* A step that leaves a build and its ids alone.
LEMMA CollectedFrame ==
  ASSUME NEW c \in Build, Collected(c), Same(c), ids'[c] = ids[c], target' = target
  PROVE  Collected(c)'
<1>1. Returned(c)' = Returned(c)
  BY SelectedSame DEF Same, Returned
<1> QED
  BY <1>1, SelectedSame DEF Same, Collected

\* The steps of a build that add no id.
LEMMA CollectedQuiet ==
  ASSUME IInv, NEW b \in Build, Collected(b),
         \/ RunSteps(b) \/ RunOther(b) \/ FinishBuild(b)
         \/ SkipStep(b) \/ StartAsync(b) \/ StartSync(b) \/ LoopEnds(b) \/ Join(b)
         \/ \E i \in Index : AsyncReports(b, i) \/ StepExits(b, i)
  PROVE  Collected(b)'
<1>t. /\ Index \subseteq Nat /\ pos[b] \in Nat
      /\ pc \in [Build -> {"none", "sleep", "loop", "sync", "join", "result", "done"}]
      /\ async \in [Build -> [Index -> {"none", "run", "report", "done"}]]
      /\ pos \in [Build -> 1..(Len(Registry) + 1)]
  BY ConstantFacts DEF IInv, TypeOK
<1>0. target' = target /\ ids' = ids
  BY DEF RunSteps, RunOther, FinishBuild, SkipStep, StartAsync, StartSync, LoopEnds, Join, AsyncReports, StepExits
<1>s. /\ Selected(b)' = Selected(b) /\ Selected(b) \subseteq Index
      /\ RunsSteps(TypeOf[b], target)' = RunsSteps(TypeOf[b], target)
  BY <1>0, SelectedSame
<1>1. CASE RunSteps(b) \/ RunOther(b) \/ FinishBuild(b)
  <2>1. pos' = pos /\ async' = async
    BY <1>1 DEF RunSteps, RunOther, FinishBuild
  <2>2. \/ pc'[b] = "loop"
        \/ pc'[b] = "result" /\ ~RunsSteps(TypeOf[b], target)
        \/ pc[b] = "result" /\ (pc'[b] = "done" \/ pc' = pc)
    BY <1>1, <1>t DEF RunSteps, RunOther, FinishBuild
  <2>3. Returned(b)' = Returned(b)
    BY <1>s, <2>1 DEF Returned
  <2> QED
    BY <1>0, <1>s, <2>1, <2>2, <2>3 DEF Collected
<1>2. CASE SkipStep(b)
  <2>1. pos'[b] = pos[b] + 1 /\ async' = async /\ pc' = pc /\ pc[b] = "loop" /\ pos[b] \notin Selected(b)
    BY <1>2, <1>t DEF SkipStep, Looping, Advance
  <2>2. \A i \in Selected(b) : i < pos'[b] <=> i < pos[b]
    <3>1. \A i \in Selected(b) : i \in Nat /\ i # pos[b]
      BY <1>t, <1>s, <2>1
    <3> QED
      BY ONLY <1>t, <2>1, <3>1
  <2>3. Returned(b)' = Returned(b)
    BY <1>s, <2>1, <2>2 DEF Returned
  <2> QED
    BY <1>0, <1>s, <2>1, <2>2, <2>3 DEF Collected
<1>3. CASE StartAsync(b)
  <2>1. /\ pos'[b] = pos[b] + 1 /\ pc' = pc /\ pc[b] = "loop" /\ pos[b] \in Selected(b)
        /\ Registry[pos[b]].async
        /\ \A i \in Index : async'[b][i] = IF i = pos[b] THEN "run" ELSE async[b][i]
    BY <1>3, <1>t DEF StartAsync, Looping, Advance
  <2>2. \A i \in Selected(b) : (i < pos'[b]) <=> (i < pos[b] \/ i = pos[b])
    <3>1. \A i \in Selected(b) : i \in Nat
      BY <1>t, <1>s
    <3> QED
      BY ONLY <1>t, <2>1, <3>1
  <2>3. Returned(b)' = Returned(b)
    <3>1. ASSUME NEW i \in Selected(b)
          PROVE  (i < pos'[b] /\ (Registry[i].async => async'[b][i] \in {"report", "done"}))
                 <=> (i < pos[b] /\ (Registry[i].async => async[b][i] \in {"report", "done"}))
      <4>1. CASE i = pos[b]
        BY <1>t, <1>s, <2>1, <4>1
      <4>2. CASE i # pos[b]
        BY <1>s, <2>1, <2>2, <4>2
      <4> QED
        BY <4>1, <4>2
    <3> QED
      BY <1>s, <3>1 DEF Returned
  <2> QED
    BY <1>0, <1>s, <2>1, <2>2, <2>3 DEF Collected
<1>4. CASE StartSync(b) \/ LoopEnds(b) \/ Join(b)
  <2>1. pos' = pos /\ async' = async
    BY <1>4 DEF StartSync, LoopEnds, Join
  <2>2. \/ pc'[b] = "sync" /\ pos[b] \in Selected(b)
        \/ pc'[b] = "join" /\ pos[b] \notin Index
        \/ pc'[b] = "result" /\ pc[b] = "join"
    BY <1>4, <1>t DEF StartSync, LoopEnds, Join
  <2>3. Returned(b)' = Returned(b)
    BY <1>s, <2>1 DEF Returned
  <2> QED
    BY <1>0, <1>s, <2>1, <2>2, <2>3 DEF Collected
<1>5. ASSUME NEW i \in Index, AsyncReports(b, i) \/ StepExits(b, i) PROVE Collected(b)'
  <2>1. /\ pos' = pos /\ pc' = pc
        /\ \A k \in Index : \/ async'[b][k] = async[b][k]
                            \/ async[b][k] = "report" /\ async'[b][k] = "done"
    BY <1>5, <1>t DEF AsyncReports, StepExits
  <2>2. Returned(b)' = Returned(b)
    BY <1>s, <2>1 DEF Returned
  <2> QED
    BY <1>0, <1>s, <2>1, <2>2 DEF Collected
<1> QED
  BY <1>1, <1>2, <1>3, <1>4, <1>5

\* A synchronous step that returns adds its id, which is not there yet.
LEMMA CollectedSync ==
  ASSUME IInv, NEW b \in Build, Collected(b), NEW ok \in BOOLEAN, SyncReturns(b, ok)
  PROVE  Collected(b)'
<1>t. Index \subseteq Nat /\ pos[b] \in Nat /\ ids \in [Build -> Seq(Index)] /\ ids[b] \in Seq(Index)
  BY ConstantFacts DEF IInv, TypeOK
<1>1. /\ target' = target /\ async' = async /\ pc'[b] = "loop" /\ pos'[b] = pos[b] + 1
      /\ pc[b] = "sync" /\ ids'[b] = Append(ids[b], pos[b])
  BY <1>t DEF SyncReturns, Advance, IInv, TypeOK
<1>s. Selected(b)' = Selected(b) /\ Selected(b) \subseteq Index
  BY <1>1, SelectedSame
<1>2. pos[b] \in Selected(b) /\ ~Registry[pos[b]].async
  BY <1>1 DEF Collected, IInv, PerBuild, SyncErr
<1>3. pos[b] \notin ToSet(ids[b]) /\ IsInjective(ids[b]) /\ pos[b] \in Index
  BY <1>t, <1>2, <1>s DEF Collected, Returned
<1>4. ToSet(ids'[b]) = ToSet(ids[b]) \cup {pos[b]} /\ IsInjective(ids'[b])
  BY <1>t, <1>1, <1>3, AppendNew
<1>5. \A i \in Selected(b) : (i < pos'[b]) <=> (i < pos[b] \/ i = pos[b])
  <2>1. \A i \in Selected(b) : i \in Nat
    BY <1>t, <1>s
  <2> QED
    BY ONLY <1>t, <1>1, <2>1
<1>6. Returned(b)' = Returned(b) \cup {pos[b]}
  BY <1>s, <1>1, <1>2, <1>5 DEF Returned
<1> QED
  BY <1>1, <1>2, <1>s, <1>4, <1>5, <1>6 DEF Collected

\* So does an asynchronous one, from its own goroutine.
LEMMA CollectedAsync ==
  ASSUME IInv, NEW b \in Build, Collected(b), NEW i \in Index, NEW ok \in BOOLEAN, AsyncReturns(b, i, ok)
  PROVE  Collected(b)'
<1>t. Index \subseteq Nat /\ pos[b] \in Nat /\ ids \in [Build -> Seq(Index)] /\ ids[b] \in Seq(Index)
  BY ConstantFacts DEF IInv, TypeOK
<1>1. /\ target' = target /\ pos' = pos /\ pc' = pc /\ ids'[b] = Append(ids[b], i)
      /\ async[b][i] = "run" /\ async'[b][i] \in {"report", "done"}
      /\ \A k \in Index : k # i => async'[b][k] = async[b][k]
  BY <1>t DEF AsyncReturns, IInv, TypeOK
<1>s. /\ Selected(b)' = Selected(b) /\ Selected(b) \subseteq Index
      /\ RunsSteps(TypeOf[b], target)' = RunsSteps(TypeOf[b], target)
  BY <1>1, SelectedSame
<1>2. i \in Selected(b) /\ Registry[i].async /\ i < pos[b]
  BY <1>1 DEF Collected, IInv, PerBuild, Goroutines
<1>3. i \notin ToSet(ids[b]) /\ IsInjective(ids[b])
  BY <1>1, <1>2 DEF Collected, Returned
<1>4. ToSet(ids'[b]) = ToSet(ids[b]) \cup {i} /\ IsInjective(ids'[b])
  BY <1>t, <1>1, <1>3, AppendNew
<1>5. Returned(b)' = Returned(b) \cup {i}
  BY <1>s, <1>1, <1>2 DEF Returned
<1> QED
  BY <1>1, <1>2, <1>s, <1>4, <1>5 DEF Collected

\* A build that is done adds no id, and what the engine has it keeps.
LEMMA DeliveredKept ==
  ASSUME IInv, NEW c \in Build, Delivered(c), pc'[c] = pc[c],
         pc[c] = "done" => ids'[c] = ids[c], ToSet(idStore) \subseteq ToSet(idStore')
  PROVE  Delivered(c)'
BY DEF Delivered

\* FinishBuild hands the ids of the build over.
LEMMA HandedOver ==
  ASSUME IInv, NEW b \in Build, FinishBuild(b), result[b] = 0
  PROVE  /\ ToSet(idStore) \subseteq ToSet(idStore')
         /\ \A i \in ToSet(ids[b]) : <<b, i>> \in ToSet(idStore')
<1> DEFINE S == Build \X Index
           s == idStore
           t == [k \in DOMAIN ids[b] |-> <<b, ids[b][k]>>]
<1>1. idStore' = s \o t
  BY DEF FinishBuild
<1>2. ids[b] \in Seq(Index) /\ s \in Seq(S)
  BY DEF IInv, TypeOK
<1>3. DOMAIN ids[b] = 1..Len(ids[b]) /\ Len(ids[b]) \in Nat /\ \A k \in 1..Len(ids[b]) : ids[b][k] \in Index
  BY <1>2, LenProperties, ElementOfSeq
<1>4. t \in Seq(S) /\ Len(t) = Len(ids[b]) /\ \A k \in 1..Len(t) : t[k] = <<b, ids[b][k]>>
  <2>1. t \in [1..Len(ids[b]) -> S]
    BY <1>3
  <2>2. t \in Seq(S)
    BY <1>3, <2>1
  <2>3. DOMAIN t = 1..Len(t) /\ DOMAIN t = 1..Len(ids[b]) /\ Len(t) \in Nat
    BY <2>1, <2>2, LenProperties
  <2>4. Len(t) = Len(ids[b])
    BY ONLY <1>3, <2>3
  <2> QED
    BY <1>3, <2>2, <2>4
<1> HIDE DEF t, s, S
<1>5. /\ s \o t \in Seq(S) /\ Len(s \o t) = Len(s) + Len(t) /\ Len(s) \in Nat /\ Len(t) \in Nat
      /\ \A k \in 1..(Len(s) + Len(t)) : (s \o t)[k] = IF k <= Len(s) THEN s[k] ELSE t[k - Len(s)]
      /\ DOMAIN s = 1..Len(s) /\ DOMAIN (s \o t) = 1..(Len(s) + Len(t))
  <2>1. /\ s \o t \in Seq(S) /\ Len(s \o t) = Len(s) + Len(t)
        /\ \A k \in 1..(Len(s) + Len(t)) : (s \o t)[k] = IF k <= Len(s) THEN s[k] ELSE t[k - Len(s)]
    <3>1. s \in Seq(S) /\ t \in Seq(S)
      BY ONLY <1>2, <1>4
    <3> QED
      BY ONLY <3>1, ConcatProperties, Zenon
  <2>2. Len(s) \in Nat /\ Len(t) \in Nat /\ DOMAIN s = 1..Len(s)
    BY ONLY <1>2, <1>4, LenProperties
  <2>3. DOMAIN (s \o t) = 1..Len(s \o t)
    BY ONLY <2>1, LenProperties
  <2> QED
    BY ONLY <2>1, <2>2, <2>3
<1>6. ASSUME NEW k \in 1..Len(s) PROVE s[k] \in ToSet(s \o t)
  BY <1>5, <1>6 DEF ToSet
<1>7. ASSUME NEW k \in 1..Len(t) PROVE t[k] \in ToSet(s \o t)
  <2>1. Len(s) + k \in 1..(Len(s) + Len(t)) /\ ~(Len(s) + k <= Len(s)) /\ (Len(s) + k) - Len(s) = k
    BY <1>5
  <2>2. (s \o t)[Len(s) + k] = t[k]
    BY <1>5, <2>1
  <2> QED
    BY <1>5, <2>1, <2>2 DEF ToSet
<1>8. ToSet(s) \subseteq ToSet(s \o t)
  BY <1>5, <1>6 DEF ToSet
<1>9. ASSUME NEW i \in ToSet(ids[b]) PROVE <<b, i>> \in ToSet(s \o t)
  <2>1. PICK k \in 1..Len(ids[b]) : ids[b][k] = i
    BY <1>3 DEF ToSet
  <2> QED
    BY <1>4, <1>7, <2>1
<1> QED
  BY <1>1, <1>8, <1>9 DEF s

LEMMA IdInit == Init => IdInv
<1> SUFFICES ASSUME Init, NEW b \in Build PROVE Collected(b) /\ Delivered(b)
  BY DEF IdInv
<1>1. pc[b] = "none" /\ pos[b] = 1 /\ ids[b] = << >> /\ \A i \in Index : async[b][i] = "none"
  BY DEF Init
<1>2. ToSet(ids[b]) = {} /\ IsInjective(ids[b])
  <2>1. DOMAIN ids[b] = {}
    BY <1>1, EmptySeq
  <2> QED
    BY <2>1 DEF ToSet, IsInjective
<1>3. \A i \in Selected(b) : i \in Index /\ ~(i < pos[b])
  BY <1>1, ConstantFacts, PipelineAssumption DEF Selected
<1>4. Returned(b) = {}
  BY <1>3 DEF Returned
<1> QED
  BY <1>1, <1>2, <1>3, <1>4 DEF Collected, Delivered

\* A step of a build, for that build.
LEMMA OwnIds ==
  ASSUME IInv, NEW b \in Build, Collected(b), Delivered(b), NEW i, StepOf(b, i)
  PROVE  Collected(b)' /\ Delivered(b)' /\ ToSet(idStore) \subseteq ToSet(idStore')
<1>1. CASE FinishBuild(b)
  <2>1. Collected(b)'
    BY <1>1, CollectedQuiet
  <2>2. ids' = ids
    BY <1>1 DEF FinishBuild
  <2>3. CASE result[b] = 0
    BY <1>1, <2>1, <2>2, <2>3, HandedOver DEF Delivered
  <2>4. CASE result[b] # 0
    BY <1>1, <2>1, <2>2, <2>4 DEF FinishBuild, Delivered
  <2> QED
    BY <2>3, <2>4
<1>2. CASE \/ RunSteps(b) \/ RunOther(b) \/ SkipStep(b) \/ StartAsync(b) \/ StartSync(b)
           \/ LoopEnds(b) \/ Join(b)
  <2>1. Collected(b)'
    BY <1>2, CollectedQuiet
  <2>2. idStore' = idStore /\ pc'[b] # "done"
    BY <1>2 DEF RunSteps, RunOther, SkipStep, StartAsync, StartSync, LoopEnds, Join, Looping, IInv, TypeOK
  <2> QED
    BY <2>1, <2>2 DEF Delivered
<1>3. CASE \E ok \in BOOLEAN : SyncReturns(b, ok)
  <2>1. Collected(b)'
    BY <1>3, CollectedSync
  <2>2. idStore' = idStore /\ pc'[b] # "done"
    BY <1>3 DEF SyncReturns, IInv, TypeOK
  <2> QED
    BY <2>1, <2>2 DEF Delivered
<1>4. CASE i \in Index /\ (AsyncReports(b, i) \/ StepExits(b, i))
  <2>1. Collected(b)'
    BY <1>4, CollectedQuiet
  <2>2. idStore' = idStore /\ pc' = pc /\ ids' = ids
    BY <1>4 DEF AsyncReports, StepExits
  <2> QED
    BY <2>1, <2>2 DEF Delivered
<1>5. CASE i \in Index /\ \E ok \in BOOLEAN : AsyncReturns(b, i, ok)
  <2>1. Collected(b)'
    BY <1>5, CollectedAsync
  <2>2. idStore' = idStore /\ pc' = pc /\ async[b][i] = "run"
    BY <1>5 DEF AsyncReturns
  <2>3. pc[b] # "done"
    BY <1>5, <2>2 DEF IInv, PerBuild, Goroutines
  <2> QED
    BY <2>1, <2>2, <2>3 DEF Delivered
<1> QED
  BY <1>1, <1>2, <1>3, <1>4, <1>5 DEF StepOf, BuildStep, AsyncStep

\* A step of a build leaves the target and the ids of the others alone.
LEMMA OthersIds ==
  ASSUME IInv, NEW b \in Build, NEW i, StepOf(b, i), NEW c \in Build, c # b
  PROVE  target' = target /\ ids'[c] = ids[c]
<1> USE DEF IInv, TypeOK
<1>1. CASE RunSteps(b) \/ RunOther(b) \/ FinishBuild(b)
  BY <1>1 DEF RunSteps, RunOther, FinishBuild
<1>2. CASE SkipStep(b) \/ StartAsync(b) \/ StartSync(b) \/ LoopEnds(b) \/ Join(b)
  BY <1>2 DEF SkipStep, StartAsync, StartSync, LoopEnds, Join
<1>3. CASE \E ok \in BOOLEAN : SyncReturns(b, ok)
  BY <1>3 DEF SyncReturns
<1>4. CASE i \in Index /\ (AsyncReports(b, i) \/ StepExits(b, i))
  BY <1>4 DEF AsyncReports, StepExits
<1>5. CASE i \in Index /\ \E ok \in BOOLEAN : AsyncReturns(b, i, ok)
  BY <1>5 DEF AsyncReturns
<1> QED
  BY <1>1, <1>2, <1>3, <1>4, <1>5 DEF StepOf, BuildStep, AsyncStep

LEMMA IdNext ==
  ASSUME IInv, IdInv, [Next]_vars
  PROVE  IdInv'
<1>1. CASE SpawnBuild
  <2>1. target' = target /\ pos' = pos /\ async' = async /\ ids' = ids /\ idStore' = idStore
    BY <1>1 DEF SpawnBuild
  <2>2. \A c \in Build : pc'[c] = pc[c] \/ pc'[c] = "sleep"
    BY <1>1 DEF SpawnBuild, IInv, TypeOK
  <2>3. ASSUME NEW c \in Build PROVE Collected(c)' /\ Delivered(c)'
    <3>1. /\ Selected(c)' = Selected(c)
          /\ RunsSteps(TypeOf[c], target)' = RunsSteps(TypeOf[c], target)
      BY <2>1, SelectedSame
    <3>2. Returned(c)' = Returned(c)
      BY <2>1, <3>1 DEF Returned
    <3> QED
      BY <2>1, <2>2, <3>1, <3>2 DEF IdInv, Collected, Delivered
  <2> QED
    BY <2>3 DEF IdInv
<1>2. CASE NextGroup \/ EngineReturn \/ UNCHANGED vars
  <2>1. target' = target /\ idStore' = idStore /\ UNCHANGED buildVars
    BY <1>2 DEF NextGroup, EngineReturn, vars
  <2>2. ASSUME NEW c \in Build PROVE Collected(c)' /\ Delivered(c)'
    <3>1. Same(c) /\ ids' = ids /\ pc' = pc
      BY <2>1 DEF Same, buildVars
    <3> QED
      BY <2>1, <3>1, CollectedFrame DEF IdInv, Delivered
  <2> QED
    BY <2>2 DEF IdInv
<1>3. ASSUME NEW b \in Build, NEW i, StepOf(b, i) PROVE IdInv'
  <2>1. Collected(b)' /\ Delivered(b)' /\ ToSet(idStore) \subseteq ToSet(idStore')
    BY <1>3, OwnIds DEF IdInv
  <2>2. ASSUME NEW c \in Build, c # b PROVE Collected(c)' /\ Delivered(c)'
    <3>1. target' = target /\ ids'[c] = ids[c] /\ Same(c)
      BY <1>3, <2>2, OthersIds, OthersSame DEF IInv
    <3>2. Collected(c)'
      BY <3>1, CollectedFrame DEF IdInv
    <3>3. pc'[c] = pc[c]
      BY <3>1 DEF Same
    <3> QED
      BY <2>1, <3>1, <3>2, <3>3, DeliveredKept DEF IdInv
  <2> QED
    BY <2>1, <2>2 DEF IdInv
<1> QED
  BY <1>1, <1>2, <1>3, NextCases

LEMMA PipelineIds == Spec => []IdInv
<1>1. IInv /\ IdInv /\ [Next]_vars => IdInv'
  BY IdNext
<1> QED
  BY <1>1, IdInit, PipelineInv, PTL DEF Spec

\* When a build has returned, no goroutine of it is left, and each selected step
\* has run exactly once, whatever the order in which the goroutines ended
\* (runAllMatchingBuilds, the IDStore).
THEOREM NothingIsLeftBehind == Spec => []NothingOutlivesResult
<1>1. IInv /\ IdInv => NothingOutlivesResult
  <2> SUFFICES ASSUME IInv, IdInv, NEW b \in Build, result[b] # -1
               PROVE  /\ \A i \in Index : async[b][i] \in {"none", "done"}
                      /\ RunsSteps(TypeOf[b], target) =>
                           /\ ToSet(ids[b]) = Selected(b)
                           /\ Len(ids[b]) = Cardinality(Selected(b))
    BY DEF NothingOutlivesResult
  <2>1. pc[b] \in {"result", "done"}
    BY DEF IInv, PerBuild, Result
  <2>2. \A i \in Index : async[b][i] \in {"none", "done"}
    BY <2>1 DEF IInv, PerBuild, Goroutines
  <2>3. ASSUME RunsSteps(TypeOf[b], target) PROVE ToSet(ids[b]) = Selected(b)
    <3>1. pos[b] \notin Index /\ ToSet(ids[b]) = Returned(b)
      BY <2>1, <2>3 DEF IdInv, Collected
    <3>2. pos[b] = Len(Registry) + 1 /\ Len(Registry) \in Nat
      BY <3>1, ConstantFacts DEF IInv, TypeOK
    <3>3. Selected(b) \subseteq Index
      BY PipelineAssumption DEF Selected
    <3>4. \A i \in Selected(b) : i \in Index /\ i < pos[b]
      BY <3>2, <3>3, ConstantFacts
    <3>5. \A i \in Selected(b) : Registry[i].async => async[b][i] \in {"report", "done"}
      BY <2>2, <3>4 DEF IdInv, Collected
    <3> QED
      BY <3>1, <3>4, <3>5 DEF Returned
  <2>4. Len(ids[b]) = Cardinality(ToSet(ids[b]))
    BY InjectiveLength DEF IInv, TypeOK, IdInv, Collected
  <2> QED
    BY <2>2, <2>3, <2>4
<1> QED
  BY <1>1, PipelineInv, PipelineIds, PTL

\* Exit code 0 means that every build of every group has succeeded and the engine
\* holds the id of each step it ran; exit code 1 means that something failed
\* (Engine, executeBuild).
THEOREM ExitCodeIsTruthful == Spec => []ExitCodeTruthful
<1>1. IInv /\ IdInv /\ NothingOutlivesResult => ExitCodeTruthful
  <2> SUFFICES ASSUME IInv, IdInv, NothingOutlivesResult PROVE ExitCodeTruthful
    OBVIOUS
  <2>1. exit = "1" => \E b \in Build : failed[b] # {}
    BY DEF IInv, Exits
  <2>2. ASSUME exit = "0", NEW g \in DOMAIN Groups, NEW b \in Builds(g)
        PROVE  /\ pc[b] = "done" /\ failed[b] = {}
               /\ RunsSteps(TypeOf[b], target) => {b} \X Selected(b) \subseteq ToSet(idStore)
    <3>1. PICK k \in 1..Len(Groups[g]) : b = Groups[g][k]
      BY ConstantFacts DEF Builds
    <3>2. g < group /\ g \in 1..Len(Groups)
      BY <2>2, ConstantFacts DEF IInv, Exits
    <3>3. pc[b] = "done" /\ b \in Build
      BY <3>1, <3>2, ConstantFacts DEF IInv, Placed
    <3>4. failed[b] = {} /\ result[b] # -1
      BY <3>3 DEF IInv, PerBuild, Result
    <3>5. \A i \in ToSet(ids[b]) : <<b, i>> \in ToSet(idStore)
      BY <3>3 DEF IdInv, Delivered
    <3>6. RunsSteps(TypeOf[b], target) => ToSet(ids[b]) = Selected(b)
      BY <3>3, <3>4 DEF NothingOutlivesResult
    <3> QED
      BY <3>3, <3>4, <3>5, <3>6
  <2> QED
    BY <2>1, <2>2 DEF ExitCodeTruthful
<1> QED
  BY <1>1, PipelineInv, PipelineIds, NothingIsLeftBehind, PTL
=============================================================================
