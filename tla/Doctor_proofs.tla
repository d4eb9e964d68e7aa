----------------------------- MODULE Doctor_proofs -----------------------------
(***************************************************************************)
(* Proofs about the doctor, for any number of failing calls and any order  *)
(* of the checks: what "ready" promises, why it may end without a report,  *)
(* that the two container checks share one manager, and what the write     *)
(* test leaves behind.  The argument follows the write test: a step that   *)
(* is reached says what the steps before it have established.              *)
(***************************************************************************)
EXTENDS Doctor, TLAPS, SequenceTheorems, FiniteSetTheorems

------------------------------------------------------------------------------
(* The invariant *)

Returned == {"report", "done"}
Steps == {"run", "list", "connect", "pull", "create", "start", "inspect",
          "wait", "verify", "cleanup"} \cup Returned
\* The steps of the write test from a manager, and from a daemon, on.
Contained == {"pull", "create", "start", "inspect", "wait", "verify", "cleanup"}
Answered == Contained \ {"pull"}

InResults(c) == \E i \in DOMAIN results : results[i] = c

\* A check has a result when it has returned, and only if it applies; what is
\* done is in the results.
Progress ==
  /\ run \in {"new", "running"} => results \in Seq(Check)
  /\ run = "running" => runtime # "invalid"
  /\ \A c \in Check :
       /\ run = "new" => at[c] = "done" /\ status[c] = "none"
       /\ at[c] \notin Returned => status[c] = "none"
       /\ ~Applicable(c) \/ runtime = "invalid" => at[c] = "done" /\ status[c] = "none"
       /\ run = "running" /\ Applicable(c) /\ at[c] \in Returned => status[c] # "none"
       /\ run = "running" /\ Applicable(c) /\ at[c] = "done" => InResults(c)

\* The manager, and what the checks of the runtime say of it.
Managed ==
  /\ manager = "made" /\ runtime = "podman" => daemon = "up"
  /\ at["api"] \in {"run", "list"} \cup Returned
  /\ at["api"] = "list" => manager = "made"
  /\ status["api"] = "fail" => manager = "error"
  /\ status["api"] \in {"pass", "warning", "skipped"} => manager = "made"
  /\ status["detection"] # "none" /\ runtime = "unknown" => status["detection"] = "fail"

\* How far the write test has come, and what that means.
Written ==
  /\ at["write"] \in Contained => manager = "made"
  /\ at["write"] \in Answered => Up
  /\ at["write"] \in Contained \cup {"connect"} => folder = "made"
  /\ at["write"] \in {"verify", "cleanup"} => ~Denied
  /\ at["write"] = "cleanup" => runtime # "test" /\ (runtime = "host" \/ mount = "works")
  /\ manager # "made" => testbox = "none" /\ status["write"] \in {"none", "fail"}
  /\ run = "new" => testbox = "none"
  /\ run = "running" /\ at["write"] \in {"run", "connect", "pull", "create"} => testbox = "none"

\* What it leaves.
Left ==
  /\ status["write"] = "pass" =>
       /\ Up /\ runtime # "test" /\ (runtime = "host" \/ mount = "works")
       /\ testbox = "none" \/ faults > 0
       /\ folder = (IF runtime = "host" THEN "outer" ELSE "none")
  /\ status["write"] = "skipped" => runtime = "test" /\ folder = "made"
  /\ status["write"] # "warning"
  /\ status["write"] = "fail" => folder = "made" \/ (faults > 0 /\ testbox = "none")

IInv == TypeOK /\ Progress /\ Managed /\ Written /\ Left /\ DiedExplained /\ ReadyMeansUsable

LEMMA CheckIs == Check = {"detection", "version", "api", "config", "write"}
  BY DEF Check, Ranked

LEMMA TypesChecks ==
  ASSUME IInv, \E c \in Check : Step(c) /\ ~AppendResult(c)
  PROVE  TypeOK'
<1> USE CheckIs DEF IInv, Turn, Goto, Return, Good, Bad, env, TypeOK, CheckStatus, Steps, Returned
<1>1. CASE Detection
  BY <1>1 DEF Detection
<1>2. CASE Version
  BY <1>2 DEF Version
<1>3. CASE Config
  BY <1>3 DEF Config
<1>4. CASE InitContainerRuntime("api", "run", "list")
  BY <1>4 DEF InitContainerRuntime, Making, Use
<1>5. CASE ContainerList
  BY <1>5 DEF ContainerList
<1>6. CASE MkdirTemp
  BY <1>6 DEF MkdirTemp
<1>7. CASE InitContainerRuntime("write", "connect", "pull")
  BY <1>7 DEF InitContainerRuntime, Making, Use
<1>8. CASE Pull
  BY <1>8 DEF Pull
<1>9. CASE Create
  BY <1>9 DEF Create, Dies
<1>10. CASE StartContainer
  BY <1>10 DEF StartContainer, Dies
<1>11. CASE Inspect
  BY <1>11 DEF Inspect, Dies
<1>12. CASE Wait
  BY <1>12 DEF Wait, Dies, Denied
<1>13. CASE Verify
  BY <1>13 DEF Verify
<1>14. CASE Cleanup
  BY <1>14 DEF Cleanup
<1> QED
  BY <1>1, <1>2, <1>3, <1>4, <1>5, <1>6, <1>7, <1>8, <1>9, <1>10, <1>11, <1>12, <1>13, <1>14 DEF Step

LEMMA ProgressChecks ==
  ASSUME IInv, \E c \in Check : Step(c) /\ ~AppendResult(c)
  PROVE  Progress'
<1> USE CheckIs DEF IInv, Turn, Goto, Return, Good, Bad, env, TypeOK, Progress, InResults, Applicable, Returned, CheckStatus
<1>1. CASE Detection
  BY <1>1 DEF Detection
<1>2. CASE Version
  BY <1>2 DEF Version
<1>3. CASE Config
  BY <1>3 DEF Config
<1>4. CASE InitContainerRuntime("api", "run", "list")
  BY <1>4 DEF InitContainerRuntime, Making, Use
<1>5. CASE ContainerList
  BY <1>5 DEF ContainerList
<1>6. CASE MkdirTemp
  BY <1>6 DEF MkdirTemp
<1>7. CASE InitContainerRuntime("write", "connect", "pull")
  BY <1>7 DEF InitContainerRuntime, Making, Use
<1>8. CASE Pull
  BY <1>8 DEF Pull
<1>9. CASE Create
  BY <1>9 DEF Create, Dies
<1>10. CASE StartContainer
  BY <1>10 DEF StartContainer, Dies
<1>11. CASE Inspect
  BY <1>11 DEF Inspect, Dies
<1>12. CASE Wait
  BY <1>12 DEF Wait, Dies, Denied
<1>13. CASE Verify
  BY <1>13 DEF Verify
<1>14. CASE Cleanup
  BY <1>14 DEF Cleanup
<1> QED
  BY <1>1, <1>2, <1>3, <1>4, <1>5, <1>6, <1>7, <1>8, <1>9, <1>10, <1>11, <1>12, <1>13, <1>14 DEF Step

LEMMA ManagedChecks ==
  ASSUME IInv, \E c \in Check : Step(c) /\ ~AppendResult(c)
  PROVE  Managed'
<1> USE CheckIs DEF IInv, Turn, Goto, Return, Good, Bad, env, TypeOK, Managed, Progress, Returned
<1>1. CASE Detection
  BY <1>1 DEF Detection
<1>2. CASE Version
  BY <1>2 DEF Version
<1>3. CASE Config
  BY <1>3 DEF Config
<1>4. CASE InitContainerRuntime("api", "run", "list")
  BY <1>4 DEF InitContainerRuntime, Making, Use
<1>5. CASE ContainerList
  BY <1>5 DEF ContainerList
<1>6. CASE MkdirTemp
  BY <1>6 DEF MkdirTemp
<1>7. CASE InitContainerRuntime("write", "connect", "pull")
  BY <1>7 DEF InitContainerRuntime, Making, Use
<1>8. CASE Pull
  BY <1>8 DEF Pull
<1>9. CASE Create
  BY <1>9 DEF Create, Dies
<1>10. CASE StartContainer
  BY <1>10 DEF StartContainer, Dies
<1>11. CASE Inspect
  BY <1>11 DEF Inspect, Dies
<1>12. CASE Wait
  BY <1>12 DEF Wait, Dies, Denied
<1>13. CASE Verify
  BY <1>13 DEF Verify
<1>14. CASE Cleanup
  BY <1>14 DEF Cleanup
<1> QED
  BY <1>1, <1>2, <1>3, <1>4, <1>5, <1>6, <1>7, <1>8, <1>9, <1>10, <1>11, <1>12, <1>13, <1>14 DEF Step

LEMMA WrittenChecks ==
  ASSUME IInv, \E c \in Check : Step(c) /\ ~AppendResult(c)
  PROVE  Written'
<1> USE CheckIs DEF IInv, Turn, Goto, Return, Good, Bad, env, TypeOK, Progress, Managed, Written, Contained, Answered, Returned, Up, Denied
<1>1. CASE Detection
  BY <1>1 DEF Detection
<1>2. CASE Version
  BY <1>2 DEF Version
<1>3. CASE Config
  BY <1>3 DEF Config
<1>4. CASE InitContainerRuntime("api", "run", "list")
  BY <1>4 DEF InitContainerRuntime, Making, Use
<1>5. CASE ContainerList
  BY <1>5 DEF ContainerList
<1>6. CASE MkdirTemp
  BY <1>6 DEF MkdirTemp
<1>7. CASE InitContainerRuntime("write", "connect", "pull")
  <2>1. /\ at["write"] = "connect" /\ run = "running" /\ UNCHANGED <<runtime, daemon, mount, testbox, folder>>
        /\ manager' \in {"none", "made", "error"}
        /\ testbox = "none" /\ folder = "made" /\ status["write"] = "none"
    BY <1>7 DEF InitContainerRuntime, Making
  <2>2. CASE manager' = "made"
    <3>1. at' = [at EXCEPT !["write"] = "pull"] /\ status' = status
      BY <1>7, <2>2 DEF InitContainerRuntime, Use
    <3> QED
      BY <2>1, <2>2, <3>1
  <2>3. CASE manager' # "made"
    <3>1. at' = [at EXCEPT !["write"] = "report"] /\ status' = [status EXCEPT !["write"] = "fail"]
      BY <1>7, <2>3 DEF InitContainerRuntime, Use
    <3> QED
      BY <2>1, <2>3, <3>1
  <2> QED
    BY <2>2, <2>3
<1>8. CASE Pull
  BY <1>8 DEF Pull
<1>9. CASE Create
  BY <1>9 DEF Create, Dies
<1>10. CASE StartContainer
  BY <1>10 DEF StartContainer, Dies
<1>11. CASE Inspect
  BY <1>11 DEF Inspect, Dies
<1>12. CASE Wait
  BY <1>12 DEF Wait, Dies, Denied
<1>13. CASE Verify
  BY <1>13 DEF Verify
<1>14. CASE Cleanup
  BY <1>14 DEF Cleanup
<1> QED
  BY <1>1, <1>2, <1>3, <1>4, <1>5, <1>6, <1>7, <1>8, <1>9, <1>10, <1>11, <1>12, <1>13, <1>14 DEF Step

LEMMA LeftChecks ==
  ASSUME IInv, \E c \in Check : Step(c) /\ ~AppendResult(c)
  PROVE  Left'
<1> USE CheckIs DEF IInv, Turn, Goto, Return, Good, Bad, env, TypeOK, Progress, Written, Left, Contained, Answered, Returned, Up, Denied
<1>1. CASE Detection
  BY <1>1 DEF Detection
<1>2. CASE Version
  BY <1>2 DEF Version
<1>3. CASE Config
  BY <1>3 DEF Config
<1>4. CASE InitContainerRuntime("api", "run", "list")
  BY <1>4 DEF InitContainerRuntime, Making, Use
<1>5. CASE ContainerList
  BY <1>5 DEF ContainerList
<1>6. CASE MkdirTemp
  BY <1>6 DEF MkdirTemp
<1>7. CASE InitContainerRuntime("write", "connect", "pull")
  BY <1>7 DEF InitContainerRuntime, Making, Use
<1>8. CASE Pull
  BY <1>8 DEF Pull
<1>9. CASE Create
  BY <1>9 DEF Create, Dies
<1>10. CASE StartContainer
  BY <1>10 DEF StartContainer, Dies
<1>11. CASE Inspect
  BY <1>11 DEF Inspect, Dies
<1>12. CASE Wait
  BY <1>12 DEF Wait, Dies, Denied
<1>13. CASE Verify
  BY <1>13 DEF Verify
<1>14. CASE Cleanup
  BY <1>14 DEF Cleanup
<1> QED
  BY <1>1, <1>2, <1>3, <1>4, <1>5, <1>6, <1>7, <1>8, <1>9, <1>10, <1>11, <1>12, <1>13, <1>14 DEF Step

LEMMA DiedExplainedChecks ==
  ASSUME IInv, \E c \in Check : Step(c) /\ ~AppendResult(c)
  PROVE  DiedExplained'
<1> USE CheckIs DEF IInv, Turn, Goto, Return, Good, Bad, env, TypeOK, DiedExplained, Written, Contained, Answered, Up
<1>1. CASE Detection
  BY <1>1 DEF Detection
<1>2. CASE Version
  BY <1>2 DEF Version
<1>3. CASE Config
  BY <1>3 DEF Config
<1>4. CASE InitContainerRuntime("api", "run", "list")
  BY <1>4 DEF InitContainerRuntime, Making, Use
<1>5. CASE ContainerList
  BY <1>5 DEF ContainerList
<1>6. CASE MkdirTemp
  BY <1>6 DEF MkdirTemp
<1>7. CASE InitContainerRuntime("write", "connect", "pull")
  BY <1>7 DEF InitContainerRuntime, Making, Use
<1>8. CASE Pull
  BY <1>8 DEF Pull
<1>9. CASE Create
  BY <1>9 DEF Create, Dies
<1>10. CASE StartContainer
  BY <1>10 DEF StartContainer, Dies
<1>11. CASE Inspect
  BY <1>11 DEF Inspect, Dies
<1>12. CASE Wait
  BY <1>12 DEF Wait, Dies, Denied
<1>13. CASE Verify
  BY <1>13 DEF Verify
<1>14. CASE Cleanup
  BY <1>14 DEF Cleanup
<1> QED
  BY <1>1, <1>2, <1>3, <1>4, <1>5, <1>6, <1>7, <1>8, <1>9, <1>10, <1>11, <1>12, <1>13, <1>14 DEF Step

LEMMA ReadyMeansUsableChecks ==
  ASSUME IInv, \E c \in Check : Step(c) /\ ~AppendResult(c)
  PROVE  ReadyMeansUsable'
<1> USE CheckIs DEF IInv, Turn, Goto, Return, Good, Bad, env, ReadyMeansUsable, Applicable
<1>1. CASE Detection
  BY <1>1 DEF Detection
<1>2. CASE Version
  BY <1>2 DEF Version
<1>3. CASE Config
  BY <1>3 DEF Config
<1>4. CASE InitContainerRuntime("api", "run", "list")
  BY <1>4 DEF InitContainerRuntime, Making, Use
<1>5. CASE ContainerList
  BY <1>5 DEF ContainerList
<1>6. CASE MkdirTemp
  BY <1>6 DEF MkdirTemp
<1>7. CASE InitContainerRuntime("write", "connect", "pull")
  BY <1>7 DEF InitContainerRuntime, Making, Use
<1>8. CASE Pull
  BY <1>8 DEF Pull
<1>9. CASE Create
  BY <1>9 DEF Create, Dies
<1>10. CASE StartContainer
  BY <1>10 DEF StartContainer, Dies
<1>11. CASE Inspect
  BY <1>11 DEF Inspect, Dies
<1>12. CASE Wait
  BY <1>12 DEF Wait, Dies, Denied
<1>13. CASE Verify
  BY <1>13 DEF Verify
<1>14. CASE Cleanup
  BY <1>14 DEF Cleanup
<1> QED
  BY <1>1, <1>2, <1>3, <1>4, <1>5, <1>6, <1>7, <1>8, <1>9, <1>10, <1>11, <1>12, <1>13, <1>14 DEF Step

\* A result is appended.
LEMMA AppendStep == ASSUME IInv, NEW c \in Check, AppendResult(c) PROVE IInv'
<1> USE CheckIs
<1>1. /\ run = "running" /\ at[c] = "report" /\ results' = Append(results, c)
      /\ at' = [at EXCEPT ![c] = "done"] /\ UNCHANGED <<env, manager, status, testbox, folder, run, faults>>
  BY DEF AppendResult, Turn
<1>2. TypeOK'
  BY <1>1 DEF IInv, TypeOK, env, Steps, Returned
<1>3. Progress'
  <2>1. results \in Seq(Check) /\ Len(results) \in Nat
    BY <1>1, LenProperties DEF IInv, Progress
  <2>2. /\ results' \in Seq(Check) /\ Len(results') = Len(results) + 1 /\ results'[Len(results) + 1] = c
        /\ \A i \in 1..Len(results) : results'[i] = results[i]
    BY <1>1, <2>1, AppendProperties
  <2>3. DOMAIN results = 1..Len(results) /\ DOMAIN results' = 1..Len(results')
    BY <2>1, <2>2, LenProperties
  <2>4. InResults(c)' /\ \A d \in Check : InResults(d) => InResults(d)'
    BY <2>1, <2>2, <2>3 DEF InResults
  <2>5. at[c] \in Returned /\ Applicable(c) /\ runtime # "invalid" /\ status[c] # "none"
    BY <1>1 DEF IInv, Progress, Returned
  <2>6. \A d \in Check : Applicable(d)' <=> Applicable(d)
    BY <1>1 DEF Applicable, env
  <2>7. ASSUME NEW d \in Check
        PROVE  /\ at'[d] \in Returned <=> at[d] \in Returned
               /\ at'[d] = "done" => d = c \/ at[d] = "done"
               /\ at[d] = "done" => at'[d] = "done"
    BY <1>1, <2>5 DEF IInv, TypeOK, Returned
  <2> QED
    BY <1>1, <2>2, <2>4, <2>5, <2>6, <2>7 DEF IInv, Progress, env
<1>4. \A d \in Check : at'[d] # at[d] => at'[d] = "done" /\ at[d] = "report"
  BY <1>1 DEF IInv, TypeOK
<1>5. Managed'
  BY <1>1, <1>4 DEF IInv, Managed, env, Returned
<1>6. Written'
  BY <1>1, <1>4 DEF IInv, Written, Contained, Answered, Up, Denied, env
<1>7. Left'
  BY <1>1 DEF IInv, Left, Up, env
<1>8. DiedExplained' /\ ReadyMeansUsable'
  BY <1>1 DEF IInv, DiedExplained, ReadyMeansUsable, Applicable, env
<1> QED
  BY <1>2, <1>3, <1>5, <1>6, <1>7, <1>8 DEF IInv

\* The checks are started.
LEMMA RunStep == ASSUME IInv, RunChecks PROVE IInv'
<1> USE CheckIs
<1>1. /\ run = "new" /\ run' = IF runtime = "invalid" THEN "died" ELSE "running"
      /\ at' = [c \in Check |-> IF runtime # "invalid" /\ Applicable(c) THEN "run" ELSE "done"]
      /\ UNCHANGED <<env, manager, status, results, testbox, folder, faults>>
  BY DEF RunChecks
<1>2. \A c \in Check : at[c] = "done" /\ status[c] = "none" /\ at'[c] \in {"run", "done"}
  BY <1>1 DEF IInv, Progress
<1>3. TypeOK'
  BY <1>1, <1>2 DEF IInv, TypeOK, env, Steps, Returned
<1>4. Progress'
  <2>1. \A d \in Check : Applicable(d)' <=> Applicable(d)
    BY <1>1 DEF Applicable, env
  <2> QED
    BY <1>1, <1>2, <2>1 DEF IInv, Progress, env, Returned
<1>5. Managed'
  BY <1>1, <1>2 DEF IInv, Managed, env, Returned
<1>6. Written'
  BY <1>1, <1>2 DEF IInv, Written, Contained, Answered, Up, Denied, env
<1>7. Left'
  BY <1>1 DEF IInv, Left, Up, env
<1>8. DiedExplained' /\ ReadyMeansUsable'
  BY <1>1 DEF IInv, DiedExplained, ReadyMeansUsable, env
<1> QED
  BY <1>3, <1>4, <1>5, <1>6, <1>7, <1>8 DEF IInv

\* The report: every check that applies is in it, and "ready" says that none
\* of them has failed.
LEMMA ReportStep == ASSUME IInv, Report PROVE IInv'
<1> USE CheckIs
<1>1. /\ run = "running" /\ run' = Verdict /\ \A c \in Check : at[c] = "done"
      /\ UNCHANGED <<env, manager, at, status, testbox, folder, faults>>
  BY DEF Report
<1>2. Verdict \in Over
  BY DEF Verdict, Over
<1>3. TypeOK'
  BY <1>1, <1>2 DEF IInv, TypeOK, env
<1>4. run' \notin {"new", "running", "died"}
  BY <1>1, <1>2 DEF Over
<1>5. \A d \in Check : Applicable(d)' <=> Applicable(d)
  BY <1>1 DEF Applicable, env
<1>6. Progress'
  BY <1>1, <1>4, <1>5 DEF IInv, Progress, env
<1>7. Managed' /\ Left'
  BY <1>1 DEF IInv, Managed, Left, Up, env
<1>8. Written'
  <2>1. UNCHANGED <<runtime, daemon, mount, manager, at, status, testbox, folder>>
        /\ run' \notin {"new", "running"}
    BY <1>1, <1>4 DEF env
  <2>2. Written
    BY DEF IInv
  <2> QED
    BY <2>1, <2>2 DEF Written, Up, Denied
<1>9. DiedExplained'
  BY <1>4 DEF DiedExplained
<1>10. ReadyMeansUsable'
  <2>1. SUFFICES ASSUME run' = "ready" PROVE ReadyMeansUsable'
    BY DEF ReadyMeansUsable
  <2>2. {c \in {results[i] : i \in DOMAIN results} : status[c] = "fail"} = {}
    BY <1>1, <2>1 DEF Verdict
  <2>3. \A c \in Check : Applicable(c) => InResults(c) /\ status[c] \notin {"none", "fail"}
    BY <1>1, <2>2 DEF IInv, Progress, InResults, Returned
  <2>4. /\ status["write"] \in CheckStatus \cup {"none"} /\ status["api"] \in CheckStatus \cup {"none"}
        /\ runtime \in {"docker", "podman", "host", "test", "unknown"} /\ daemon \in {"up", "down"}
    BY <1>1, DoctorAssumption DEF IInv, TypeOK, Progress
  <2>5. Applicable("write") => runtime \in {"host", "test"} \/ (daemon = "up" /\ mount = "works")
    <3>1. SUFFICES ASSUME Applicable("write") PROVE runtime \in {"host", "test"} \/ (daemon = "up" /\ mount = "works")
      OBVIOUS
    <3>2. runtime # "unknown" /\ status["write"] \in {"pass", "skipped", "warning"}
      BY <2>3, <2>4, <3>1 DEF Applicable, CheckStatus
    <3> QED
      BY <2>4, <3>2 DEF IInv, Left, Up
  <2>6. Applicable("detection") => runtime # "unknown"
    BY <2>3 DEF IInv, Managed
  <2>7. Applicable("api") /\ runtime = "podman" => daemon = "up"
    BY <2>3, <2>4 DEF IInv, Managed, CheckStatus
  <2> QED
    BY <1>1, <1>5, <2>5, <2>6, <2>7 DEF ReadyMeansUsable, env
<1> QED
  BY <1>3, <1>6, <1>7, <1>8, <1>9, <1>10 DEF IInv

LEMMA InitInv == Init => IInv
<1> USE CheckIs DEF Init
<1>1. SUFFICES ASSUME Init PROVE IInv
  OBVIOUS
<1>2. results = <<>> /\ <<>> \in Seq(Check)
  BY <1>1, EmptySeq
<1>3. TypeOK
  BY <1>1 DEF TypeOK, Steps, Returned
<1>4. Progress
  BY <1>1, <1>2 DEF Progress, Returned
<1>5. Managed /\ Written /\ Left
  BY <1>1 DEF Managed, Written, Left, Contained, Answered, Returned
<1>6. DiedExplained /\ ReadyMeansUsable
  BY <1>1 DEF DiedExplained, ReadyMeansUsable
<1> QED
  BY <1>3, <1>4, <1>5, <1>6 DEF IInv

LEMMA Invariant == Spec => []IInv
<1>1. IInv /\ [Next]_vars => IInv'
  <2>1. SUFFICES ASSUME IInv, [Next]_vars PROVE IInv'
    OBVIOUS
  <2>2. CASE UNCHANGED vars
    <3>1. UNCHANGED <<runtime, daemon, mount, parallel, categories, manager, at, status, results,
                      testbox, folder, run, faults>>
      BY <2>2 DEF vars, env
    <3>2. TypeOK' /\ Progress' /\ Managed'
      BY <2>1, <3>1 DEF IInv, TypeOK, Progress, Managed, InResults, Applicable
    <3>3. Written' /\ Left' /\ DiedExplained' /\ ReadyMeansUsable'
      BY <2>1, <3>1 DEF IInv, Written, Left, DiedExplained, ReadyMeansUsable, Applicable, Up, Denied
    <3> QED
      BY <3>2, <3>3 DEF IInv
  <2>3. ASSUME NEW c \in Check, Step(c) PROVE IInv'
    <3>1. CASE AppendResult(c)
      BY <2>1, <3>1, AppendStep
    <3>2. CASE ~AppendResult(c)
      BY <2>1, <2>3, <3>2, TypesChecks, ProgressChecks, ManagedChecks, WrittenChecks, LeftChecks,
         DiedExplainedChecks, ReadyMeansUsableChecks DEF IInv
    <3> QED
      BY <3>1, <3>2
  <2> QED
    BY <2>1, <2>2, <2>3, RunStep, ReportStep DEF Next
<1> QED
  BY InitInv, <1>1, PTL DEF Spec

------------------------------------------------------------------------------
(* The properties *)

\* "Environment is ready" is printed only where the checks that were asked for
\* have found a runtime, a manager and a mount that work.
THEOREM ReadyIsUsable == Spec => []ReadyMeansUsable
<1>1. IInv => ReadyMeansUsable
  BY DEF IInv
<1> QED
  BY <1>1, Invariant, PTL

\* A process that ends without a report has met a failing call, or a runtime
\* nobody knows.
THEOREM EveryDeathIsExplained == Spec => []DiedExplained
<1>1. IInv => DiedExplained
  BY DEF IInv
<1> QED
  BY <1>1, Invariant, PTL

\* A manager that cannot be made is made by neither check.
THEOREM ManagerIsShared == Spec => []OneManager
<1>1. IInv => OneManager
  BY DEF IInv, Managed, Written, OneManager
<1> QED
  BY <1>1, Invariant, PTL

\* What a write test leaves, in every report.
THEOREM WriteTestLeaves == Spec => []LeftForInvestigation
<1>1. IInv => LeftForInvestigation
  BY CheckIs DEF IInv, TypeOK, CheckStatus, Left, LeftForInvestigation
<1> QED
  BY <1>1, Invariant, PTL

\* Types, for every value of the bound on faults: no call returns a manager, a
\* step or a status that the checks do not know.
THEOREM DoctorTypes == Spec => []TypeOK
<1>1. IInv => TypeOK
  BY DEF IInv
<1> QED
  BY <1>1, Invariant, PTL

------------------------------------------------------------------------------
(* The report.  A check is in the results when it is done, and once: results *)
(* appended in turn are in the order of the registration, the others are     *)
(* sorted when all have ended.                                               *)

Reports ==
  /\ run = "new" => results = <<>>
  /\ run \in {"new", "running"} =>
       /\ \A c \in Check : InResults(c) => run = "running" /\ Applicable(c) /\ at[c] = "done"
       /\ \A i, j \in DOMAIN results : results[i] = results[j] => i = j
       /\ ~parallel => \A i, j \in DOMAIN results : i < j => Before(results[i], results[j])
       /\ ~parallel => \A c, d \in Check : InResults(c) /\ Before(d, c) => at[d] = "done"
  /\ ReportComplete

\* The order of the registration.
LEMMA TotalOrder ==
  /\ \A c, d \in Check : c = d \/ Before(c, d) \/ Before(d, c)
  /\ \A c \in Check : ~Before(c, c) /\ Ranked[c] \in Nat
  /\ \A c, d \in Check : Ranked[c] = Ranked[d] => c = d
<1>1. /\ DOMAIN Registered = 1..5
      /\ Registered[1] = "detection" /\ Registered[2] = "api" /\ Registered[3] = "version"
      /\ Registered[4] = "config" /\ Registered[5] = "write"
  BY DEF Registered
<1>2. \A c \in Check : \E i \in 1..5 : Registered[i] = c
  BY <1>1, CheckIs
<1>3. \A i, j \in 1..5 : Registered[i] = Registered[j] => i = j
  BY <1>1
<1>4. \A i, j \in 1..5 : i < j \/ j < i \/ i = j
  OBVIOUS
<1>5. \A c, d \in Check : c = d \/ Before(c, d) \/ Before(d, c)
  BY <1>1, <1>2, <1>4 DEF Before
<1>6. \A c \in Check : ~Before(c, c)
  BY <1>1, <1>3 DEF Before
<1>7. \A c \in Check : Ranked[c] \in Nat
  BY CheckIs DEF Ranked
<1>8. \A c, d \in Check : Ranked[c] = Ranked[d] => c = d
  BY CheckIs DEF Ranked
<1> QED
  BY <1>5, <1>6, <1>7, <1>8

\* A step of a check that returns nothing yet to the report.
LEMMA ChecksReport ==
  ASSUME IInv, \E c \in Check : Step(c) /\ ~AppendResult(c)
  PROVE  /\ run = "running" /\ run' \in {"running", "died"}
         /\ UNCHANGED <<runtime, parallel, categories, results>>
         /\ \A d \in Check : at'[d] = "done" <=> at[d] = "done"
<1> USE CheckIs DEF IInv, Turn, Goto, Return, env, TypeOK
<1>1. CASE Detection
  BY <1>1 DEF Detection
<1>2. CASE Version
  BY <1>2 DEF Version
<1>3. CASE Config
  BY <1>3 DEF Config
<1>4. CASE InitContainerRuntime("api", "run", "list")
  BY <1>4 DEF InitContainerRuntime, Use
<1>5. CASE ContainerList
  BY <1>5 DEF ContainerList
<1>6. CASE MkdirTemp
  BY <1>6 DEF MkdirTemp
<1>7. CASE InitContainerRuntime("write", "connect", "pull")
  BY <1>7 DEF InitContainerRuntime, Use
<1>8. CASE Pull
  BY <1>8 DEF Pull
<1>9. CASE Create
  BY <1>9 DEF Create, Dies
<1>10. CASE StartContainer
  BY <1>10 DEF StartContainer, Dies
<1>11. CASE Inspect
  BY <1>11 DEF Inspect, Dies
<1>12. CASE Wait
  BY <1>12 DEF Wait, Dies
<1>13. CASE Verify
  BY <1>13 DEF Verify
<1>14. CASE Cleanup
  BY <1>14 DEF Cleanup
<1> QED
  BY <1>1, <1>2, <1>3, <1>4, <1>5, <1>6, <1>7, <1>8, <1>9, <1>10, <1>11, <1>12, <1>13, <1>14 DEF Step

LEMMA ReportsAppend ==
  ASSUME IInv, Reports, NEW c \in Check, AppendResult(c)
  PROVE  Reports'
<1> DEFINE n == Len(results)
<1>1. /\ run = "running" /\ at[c] = "report" /\ results' = Append(results, c) /\ run' = "running"
      /\ at' = [at EXCEPT ![c] = "done"] /\ UNCHANGED <<runtime, parallel, categories>>
      /\ ~parallel => \A d \in Check : Before(d, c) => at[d] = "done"
  BY DEF AppendResult, Turn, env
<1>2. results \in Seq(Check) /\ n \in Nat
  BY <1>1, LenProperties DEF IInv, Progress
<1>3. /\ results' \in Seq(Check) /\ Len(results') = n + 1 /\ results'[n + 1] = c
      /\ \A i \in 1..n : results'[i] = results[i]
  BY <1>1, <1>2, AppendProperties
<1>4. DOMAIN results = 1..n /\ DOMAIN results' = 1..(n + 1) /\ \A i \in 1..n : results[i] \in Check
  BY <1>2, <1>3, LenProperties, ElementOfSeq
<1>5. /\ \A i \in 1..n : InResults(results[i]) /\ results[i] # c
      /\ \A d \in Check : InResults(d)' <=> d = c \/ InResults(d)
  <2>1. ~InResults(c)
    BY <1>1 DEF Reports
  <2>2. \A i \in 1..n : InResults(results[i])
    BY <1>4 DEF InResults
  <2>3. \A d \in Check : InResults(d)' <=> \E i \in 1..(n + 1) : results'[i] = d
    BY <1>4 DEF InResults
  <2>4. \A i \in 1..(n + 1) : i \in 1..n \/ i = n + 1
    BY <1>2
  <2>5. n + 1 \in 1..(n + 1) /\ \A i \in 1..n : i \in 1..(n + 1)
    BY <1>2
  <2>6. \A d \in Check : InResults(d) <=> \E i \in 1..n : results[i] = d
    BY <1>4 DEF InResults
  <2> HIDE DEF n
  <2> QED
    BY <1>3, <2>1, <2>2, <2>3, <2>4, <2>5, <2>6
<1>6. /\ \A d \in Check : (Applicable(d)' <=> Applicable(d)) /\ (at[d] = "done" => at'[d] = "done")
      /\ at'[c] = "done" /\ Applicable(c)
  BY <1>1 DEF IInv, TypeOK, Progress, Applicable
<1>7. \A d \in Check : InResults(d)' => Applicable(d)' /\ at'[d] = "done"
  BY <1>1, <1>5, <1>6 DEF Reports
<1>8. ASSUME NEW i \in 1..(n + 1), NEW j \in 1..(n + 1), i < j
      PROVE  /\ results'[i] # results'[j]
             /\ ~parallel => Before(results'[i], results'[j])
  <2>1. i \in 1..n /\ i # j
    BY <1>2, <1>8
  <2>2. CASE j \in 1..n
    BY <1>1, <1>3, <1>4, <1>8, <2>1, <2>2 DEF Reports
  <2>3. CASE j = n + 1
    <3>1. results'[i] = results[i] /\ results'[j] = c /\ results[i] # c /\ results[i] \in Check /\ InResults(results[i])
      BY <1>3, <1>4, <1>5, <2>1, <2>3
    <3>2. ~parallel => ~Before(c, results[i])
      BY <1>1, <3>1 DEF Reports
    <3> QED
      BY <3>1, <3>2, TotalOrder
  <2>4. j \in 1..n \/ j = n + 1
    BY <1>2
  <2> QED
    BY <2>2, <2>3, <2>4
<1>9. \A i, j \in 1..(n + 1) : results'[i] = results'[j] => i = j
  <2>1. \A i, j \in 1..(n + 1) : i < j \/ j < i \/ i = j
    BY <1>2
  <2> QED
    BY <1>8, <2>1
<1>10. ~parallel => \A e, d \in Check : InResults(e)' /\ Before(d, e) => at'[d] = "done"
  BY <1>1, <1>5, <1>6 DEF Reports
<1>11. ReportComplete'
  BY <1>1 DEF ReportComplete, Over
<1>12. \A i, j \in DOMAIN results' : results'[i] = results'[j] => i = j
  BY <1>4, <1>9
<1>13. ~parallel => \A i, j \in DOMAIN results' : i < j => Before(results'[i], results'[j])
  BY <1>4, <1>8
<1> HIDE DEF n
<1> QED
  BY ONLY <1>1, <1>7, <1>10, <1>11, <1>12, <1>13 DEF Reports

\* What the sort leaves is in order, and has what it was given.
LEMMA SortedResults ==
  ASSUME NEW s \in Seq(Check), \A i, j \in DOMAIN s : s[i] = s[j] => i = j
  PROVE  /\ DOMAIN Sorted(s) = DOMAIN s
         /\ \A c \in Check : (\E i \in DOMAIN s : Sorted(s)[i] = c) <=> (\E i \in DOMAIN s : s[i] = c)
         /\ \A i, j \in DOMAIN s : i < j => Ranked[Sorted(s)[i]] < Ranked[Sorted(s)[j]]
<1> DEFINE n == Len(s)
           R == Range(s)
           Place(c) == Cardinality(Earlier(c, s)) + 1
           place == [c \in R |-> Place(c)]
           t == Sorted(s)
<1>1. n \in Nat /\ DOMAIN s = 1..n /\ \A i \in 1..n : s[i] \in Check
  BY LenProperties, ElementOfSeq
<1>2. R \subseteq Check /\ \A c : c \in R <=> \E i \in 1..n : s[i] = c
  BY <1>1 DEF Range
<1>3. \A c \in R : Ranked[c] \in Nat
  BY <1>2, TotalOrder
\* There are as many places as results.
<1>4. IsFiniteSet(R) /\ Cardinality(R) = n /\ IsFiniteSet(1..n) /\ Cardinality(1..n) = n
  <2>1. IsFiniteSet(1..n) /\ Cardinality(1..n) = n
    BY <1>1, FS_Interval
  <2>2. s \in Surjection(1..n, R)
    BY <1>1, <1>2 DEF Surjection
  <2>3. IsFiniteSet(R)
    BY <2>1, <2>2, FS_Surjection
  <2>4. s \in Injection(1..n, R)
    BY <1>1, <1>2 DEF Injection, IsInjective
  <2>5. Cardinality(1..n) = Cardinality(R)
    BY <2>2, <2>3, <2>4, FS_Injection
  <2> QED
    BY <2>1, <2>3, <2>5
<1>5. ASSUME NEW c \in R
      PROVE  /\ IsFiniteSet(Earlier(c, s)) /\ Place(c) \in 1..n
             /\ \A d \in R : Ranked[c] <= Ranked[d] => Earlier(c, s) \subseteq Earlier(d, s)
             /\ \A d \in R : Ranked[c] < Ranked[d] => c \in Earlier(d, s)
             /\ c \notin Earlier(c, s)
  <2>1. Earlier(c, s) \subseteq R /\ c \notin Earlier(c, s)
    BY <1>3 DEF Earlier
  <2>2. Earlier(c, s) # R
    BY <2>1
  <2>3. /\ IsFiniteSet(Earlier(c, s)) /\ Cardinality(Earlier(c, s)) \in Nat
        /\ Cardinality(Earlier(c, s)) < n
    BY <1>4, <2>1, <2>2, FS_Subset, FS_CardinalityType
  <2>4. Place(c) \in 1..n
    BY <1>1, <2>3
  <2>5. \A d \in R : Ranked[c] <= Ranked[d] => Earlier(c, s) \subseteq Earlier(d, s)
    BY <1>3 DEF Earlier
  <2>6. \A d \in R : Ranked[c] < Ranked[d] => c \in Earlier(d, s)
    BY DEF Earlier
  <2> QED
    BY <2>1, <2>3, <2>4, <2>5, <2>6
\* The places are in the order of the ranks.
<1>6. ASSUME NEW c \in R, NEW d \in R
      PROVE  Place(c) < Place(d) <=> Ranked[c] < Ranked[d]
  <2>1. ASSUME NEW x \in R, NEW y \in R, Ranked[x] < Ranked[y] PROVE Place(x) < Place(y)
    <3>1. Earlier(x, s) \subseteq Earlier(y, s) /\ x \in Earlier(y, s) /\ x \notin Earlier(x, s)
      BY <1>3, <1>5, <2>1
    <3>2. Earlier(x, s) # Earlier(y, s) /\ IsFiniteSet(Earlier(y, s))
      BY <1>5, <3>1
    <3>3. Cardinality(Earlier(x, s)) < Cardinality(Earlier(y, s))
      <4>1. Earlier(x, s) \in SUBSET Earlier(y, s)
        BY <3>1
      <4>2. /\ Cardinality(Earlier(x, s)) <= Cardinality(Earlier(y, s))
            /\ Cardinality(Earlier(x, s)) # Cardinality(Earlier(y, s))
        BY <3>2, <4>1, FS_Subset
      <4>3. Cardinality(Earlier(x, s)) \in Nat /\ Cardinality(Earlier(y, s)) \in Nat
        BY <1>5, FS_CardinalityType
      <4> QED
        BY <4>2, <4>3
    <3>4. Place(x) \in Nat /\ Place(y) \in Nat /\ Cardinality(Earlier(x, s)) \in Nat /\ Cardinality(Earlier(y, s)) \in Nat
      BY <1>5, FS_CardinalityType
    <3> QED
      BY <3>3, <3>4
  <2>2. c = d \/ Ranked[c] < Ranked[d] \/ Ranked[d] < Ranked[c]
    BY <1>2, <1>3, TotalOrder
  <2>3. Place(c) \in Nat /\ Place(d) \in Nat
    BY <1>5
  <2>4. Ranked[c] \in Nat /\ Ranked[d] \in Nat
    BY <1>3
  <2> HIDE DEF Place
  <2> QED
    BY <2>1, <2>2, <2>3, <2>4
<1>7. \A i \in 1..n : \E c \in R : Place(c) = i
  <2>1. \A c, d \in R : Place(c) = Place(d) => c = d
    <3> SUFFICES ASSUME NEW c \in R, NEW d \in R, c # d PROVE Place(c) # Place(d)
      OBVIOUS
    <3>1. Ranked[c] < Ranked[d] \/ Ranked[d] < Ranked[c]
      BY <1>2, <1>3, TotalOrder
    <3>2. Place(c) \in Nat /\ Place(d) \in Nat
      BY <1>5
    <3> HIDE DEF Place
    <3> QED
      BY <1>6, <3>1, <3>2
  <2>2. place \in [R -> 1..n] /\ \A c \in R : place[c] = Place(c)
    BY <1>5
  <2> HIDE DEF place, Place, R, n
  <2>3. place \in Injection(R, 1..n)
    BY <2>1, <2>2 DEF Injection, IsInjective
  <2>4. place \in Surjection(R, 1..n)
    BY <1>4, <2>3, FS_Injection
  <2> QED
    BY <2>2, <2>4 DEF Surjection
<1>8. ASSUME NEW i \in 1..n
      PROVE  t[i] \in R /\ Place(t[i]) = i
  <2>1. t[i] = CHOOSE c \in R : Cardinality(Earlier(c, s)) = i - 1
    BY <1>1 DEF Sorted
  <2>2. PICK c \in R : Place(c) = i
    BY <1>7
  <2>3. Cardinality(Earlier(c, s)) \in Nat
    BY <1>5, FS_CardinalityType
  <2>4. Cardinality(Earlier(c, s)) = i - 1
    BY <2>2, <2>3
  <2>5. t[i] \in R /\ Cardinality(Earlier(t[i], s)) = i - 1
    BY <2>1, <2>4
  <2> QED
    BY <2>5
<1>9. DOMAIN t = 1..n
  BY <1>1 DEF Sorted
<1> HIDE DEF t, Place, R, place, n
<1>10. ASSUME NEW c \in R PROVE \E i \in 1..n : t[i] = c
  <2>1. Place(c) \in 1..n
    BY <1>5
  <2>2. t[Place(c)] \in R /\ Place(t[Place(c)]) = Place(c)
    BY <1>8, <2>1
  <2>3. /\ ~(Ranked[c] < Ranked[t[Place(c)]]) /\ ~(Ranked[t[Place(c)]] < Ranked[c])
    <3>1. Place(c) \in Nat
      BY <2>1, <1>1
    <3> QED
      BY <1>6, <2>2, <3>1
  <2>4. t[Place(c)] = c
    BY <1>2, <1>3, <2>2, <2>3, TotalOrder
  <2> QED
    BY <2>1, <2>4
<1>11. ASSUME NEW i \in 1..n, NEW j \in 1..n, i < j PROVE Ranked[t[i]] < Ranked[t[j]]
  BY <1>6, <1>8, <1>11
<1> QED
  BY <1>1, <1>2, <1>8, <1>9, <1>10, <1>11 DEF t

LEMMA ReportsReport ==
  ASSUME IInv, Reports, Report
  PROVE  Reports'
<1>1. /\ run = "running" /\ run' = Verdict /\ \A c \in Check : at[c] = "done"
      /\ UNCHANGED <<runtime, parallel, categories>>
      /\ results' = IF parallel THEN Sorted(results) ELSE results
  BY DEF Report, env
<1>2. run' \in Over
  BY <1>1 DEF Verdict, Over
<1>3. results \in Seq(Check) /\ \A c \in Check : Applicable(c) <=> InResults(c)
  BY <1>1 DEF IInv, Progress, Reports
<1>4. \A c \in Check : Applicable(c)' <=> Applicable(c)
  BY <1>1 DEF Applicable
<1>5. ReportComplete'
  <2>1. CASE parallel
    <3>1. /\ DOMAIN results' = DOMAIN results
          /\ \A c \in Check : (\E i \in DOMAIN results' : results'[i] = c) <=> (\E i \in DOMAIN results : results[i] = c)
          /\ \A i, j \in DOMAIN results' : i < j => Ranked[results'[i]] < Ranked[results'[j]]
      BY <1>1, <1>3, <2>1, SortedResults DEF Reports
    <3> QED
      BY <1>1, <1>3, <1>4, <2>1, <3>1 DEF ReportComplete, InResults
  <2>2. CASE ~parallel
    <3>1. \A i, j \in DOMAIN results : i < j => Before(results[i], results[j])
      BY <1>1, <2>2 DEF Reports
    <3> QED
      BY <1>1, <1>3, <1>4, <2>2, <3>1 DEF ReportComplete, InResults, Before
  <2> QED
    BY <2>1, <2>2
<1> QED
  BY <1>2, <1>5 DEF Reports, Over

\* Whatever the order in which the checks end, the report has the result of every
\* check that applies, once, and in the same order (RunChecks, sort.Slice).
THEOREM ReportIsComplete == Spec => []ReportComplete
<1>1. Init => Reports
  <2> SUFFICES ASSUME Init PROVE Reports
    OBVIOUS
  <2>1. results = <<>> /\ DOMAIN <<>> = {} /\ run = "new"
    BY DEF Init
  <2>2. ReportComplete
    BY <2>1 DEF ReportComplete, Over
  <2> QED
    BY <2>1, <2>2 DEF Reports, InResults
<1>2. IInv /\ Reports /\ [Next]_vars => Reports'
  <2> SUFFICES ASSUME IInv, Reports, [Next]_vars PROVE Reports'
    OBVIOUS
  <2>1. CASE UNCHANGED vars
    BY <2>1 DEF vars, env, Reports, ReportComplete, InResults, Applicable, Before
  <2>2. CASE RunChecks
    <3>1. /\ run = "new" /\ run' \in {"died", "running"} /\ UNCHANGED <<runtime, parallel, categories, results>>
      BY <2>2 DEF RunChecks, env
    <3>2. results = <<>> /\ DOMAIN <<>> = {}
      BY <3>1 DEF Reports
    <3>3. ReportComplete'
      BY <3>1 DEF ReportComplete, Over
    <3> QED
      BY <3>1, <3>2, <3>3 DEF Reports, InResults
  <2>3. CASE Report
    BY <2>3, ReportsReport
  <2>4. ASSUME NEW c \in Check, AppendResult(c) PROVE Reports'
    BY <2>4, ReportsAppend
  <2>5. CASE \E c \in Check : Step(c) /\ ~AppendResult(c)
    <3>1. /\ run = "running" /\ run' \in {"running", "died"}
          /\ UNCHANGED <<runtime, parallel, categories, results>>
          /\ \A d \in Check : at'[d] = "done" <=> at[d] = "done"
      BY <2>5, ChecksReport
    <3>2. \A d \in Check : (Applicable(d)' <=> Applicable(d)) /\ (InResults(d)' <=> InResults(d))
      BY <3>1 DEF Applicable, InResults
    <3>3. ReportComplete'
      BY <3>1 DEF ReportComplete, Over
    <3> QED
      BY <3>1, <3>2, <3>3 DEF Reports, Before
  <2> QED
    BY <2>1, <2>2, <2>3, <2>4, <2>5 DEF Next
<1>3. Reports => ReportComplete
  BY DEF Reports
<1> QED
  BY <1>1, <1>2, <1>3, Invariant, PTL DEF Spec
================================================================================
