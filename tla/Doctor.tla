--------------------------------- MODULE Doctor ---------------------------------
(***************************************************************************)
(* The doctor command (pkg/doctor, cmd/doctor.go): five checks of the      *)
(* container runtime, in parallel or one after the other, then a report, a *)
(* verdict and an exit status.  The environment is drawn at the start: the *)
(* runtime that is detected, whether its daemon answers, and what a bind   *)
(* mount does.  KeepTestContainers is never set by the command.            *)
(***************************************************************************)
EXTENDS Integers, Sequences, FiniteSets, Functions

CONSTANTS
  Runtime,     \* what may be detected: "docker", "podman", "host", "test",
               \* "unknown", or "invalid" (CONTAINER_RUNTIME names none of them)
  MaxFaults    \* bound on the calls that fail on their own

ASSUME DoctorAssumption ==
  /\ Runtime \subseteq {"docker", "podman", "host", "test", "unknown", "invalid"}
  /\ MaxFaults \in Nat

\* registerChecks, and the order of the report: by category, then name.
Registered == <<"detection", "api", "version", "config", "write">>
Ranked == [detection |-> 1, version |-> 2, api |-> 3, config |-> 4, write |-> 5]
Check == DOMAIN Ranked
Category == [detection |-> "Container Runtime", version |-> "Container Runtime",
             api |-> "Runtime Connectivity",
             config |-> "User Permissions", write |-> "User Permissions"]
\* The last has no check.
CheckCategory == {Category[c] : c \in Check} \cup {"Build Tools"}
SeverityCritical == {"detection", "api", "write"}
CheckStatus == {"pass", "fail", "warning", "skipped"}

VARIABLES
  runtime, daemon, mount,   \* the environment
  parallel, categories,     \* the options; no category stands for all
  manager,     \* cri.lazyValue: "none" before once.Do, then "made" or "error"
  at,          \* the step of each check, "report" when it has its result
  status,      \* CheckResult.Status
  results,     \* the checks in results, in order
  testbox,     \* the test container: "none", "created", "running", "exited"
  folder,      \* the temporary directory: "none", "made", or what the host
               \* runtime leaves, the "outer" of two
  run,         \* "new", "running", "died", or the verdict that is printed
  faults

env == <<runtime, daemon, mount, parallel, categories>>
vars == <<env, manager, at, status, results, testbox, folder, run, faults>>

Init ==
  /\ runtime \in Runtime /\ daemon \in {"up", "down"}
  /\ mount \in {"works", "denied", "elsewhere"}
  /\ parallel \in BOOLEAN /\ categories \in SUBSET CheckCategory
  /\ manager = "none" /\ results = <<>> /\ testbox = "none" /\ folder = "none"
  /\ at = [c \in Check |-> "done"] /\ status = [c \in Check |-> "none"]
  /\ run = "new" /\ faults = 0

\* filterChecks; ShouldRun.
Applicable(c) ==
  /\ categories = {} \/ Category[c] \in categories
  /\ runtime # "unknown" \/ c \in {"detection", "config"}

\* RunChecks, once NewDoctor has asked for the runtime.
RunChecks ==
  /\ run = "new" /\ run' = IF runtime = "invalid" THEN "died" ELSE "running"
  /\ at' = [c \in Check |-> IF runtime # "invalid" /\ Applicable(c) THEN "run" ELSE "done"]
  /\ UNCHANGED <<env, manager, status, results, testbox, folder, faults>>

\* runSequential takes the checks in turn; runParallel starts them all.
Before(c, d) == \E i, j \in DOMAIN Registered : i < j /\ Registered[i] = c /\ Registered[j] = d
Turn(c, step) ==
  /\ run = "running" /\ at[c] = step
  /\ parallel \/ \A d \in Check : Before(d, c) => at[d] = "done"
Goto(c, step) == at' = [at EXCEPT ![c] = step] /\ UNCHANGED <<status, run>>
Return(c, s) ==
  /\ at' = [at EXCEPT ![c] = "report"] /\ status' = [status EXCEPT ![c] = s] /\ UNCHANGED run
Dies == run' = "died" /\ UNCHANGED <<at, status>>

\* Whether a call of a step can be answered, and whether it may fail all the
\* same: the host and test runtimes have no daemon, and few steps of theirs fail.
Up == runtime \in {"docker", "podman"} => daemon = "up"
Fallible(call) ==
  \/ runtime \in {"docker", "podman"} \/ call \in {"temp", "read"}
  \/ runtime = "host" /\ call \in {"create", "start", "wait"}
Good(call) == (call \in {"temp", "read"} \/ Up) /\ UNCHANGED faults
Bad(call) ==
  IF call \in {"temp", "read"} \/ Up
  THEN Fallible(call) /\ faults < MaxFaults /\ faults' = faults + 1
  ELSE UNCHANGED faults

------------------------------------------------------------------------------
(* The checks of the runtime *)

Detection ==
  /\ Turn("detection", "run")
  /\ Return("detection", IF runtime = "unknown" THEN "fail" ELSE "pass")
  /\ UNCHANGED <<env, manager, results, testbox, folder, faults>>

\* "docker version" asks the daemon, "podman version" does not.
Version ==
  /\ Turn("version", "run")
  /\ \/ runtime \in {"host", "test"} /\ Return("version", "skipped") /\ UNCHANGED faults
     \/ /\ runtime \in {"docker", "podman"}
        /\ \/ (runtime = "podman" \/ Up) /\ Return("version", "pass") /\ UNCHANGED faults
           \/ Bad("version") /\ Return("version", "warning")
  /\ UNCHANGED <<env, manager, results, testbox, folder>>

\* It only gathers details.
Config ==
  /\ Turn("config", "run") /\ Return("config", "pass")
  /\ UNCHANGED <<env, manager, results, testbox, folder, faults>>

\* InitContainerRuntime: the first of the two checks makes the manager, the
\* other is given the same.  Docker's client talks to nobody yet, Podman's does.
Making(m) ==
  \/ m = "made" /\ (runtime = "podman" => daemon = "up") /\ UNCHANGED faults
  \/ m = "error" /\ runtime = "podman" /\ Bad("connect")
  \/ m = "error" /\ runtime = "docker" /\ faults < MaxFaults /\ faults' = faults + 1
Use(c, step, next) ==
  IF manager' = "made" THEN Goto(c, next) ELSE Return(c, "fail")
InitContainerRuntime(c, step, next) ==
  /\ Turn(c, step)
  /\ IF manager = "none" THEN \E m \in {"made", "error"} : Making(m) /\ manager' = m
     ELSE UNCHANGED <<manager, faults>>
  /\ Use(c, step, next) /\ UNCHANGED <<env, results, testbox, folder>>

ContainerList ==
  /\ Turn("api", "list")
  /\ \/ Good("list") /\ Return("api", "pass")
     \/ Bad("list") /\ Return("api", "warning")
  /\ UNCHANGED <<env, manager, results, testbox, folder>>

------------------------------------------------------------------------------
(* The volume write test *)

MkdirTemp ==
  /\ Turn("write", "run")
  /\ \/ Good("temp") /\ folder' = "made" /\ Goto("write", "connect")
     \/ Bad("temp") /\ Return("write", "fail") /\ UNCHANGED folder
  /\ UNCHANGED <<env, manager, results, testbox>>

\* Mutant: the container is made whether or not its image could be pulled.
PullIgnored ==
  /\ Turn("write", "pull") /\ (Good("pull") \/ Bad("pull")) /\ Goto("write", "create")
  /\ UNCHANGED <<env, manager, results, testbox, folder>>
Pull ==
  /\ Turn("write", "pull")
  /\ \/ Good("pull") /\ Goto("write", "create")
     \/ Bad("pull") /\ Return("write", "fail")
  /\ UNCHANGED <<env, manager, results, testbox, folder>>
\* Container.Create ends the process where a call of its fails, before or
\* after the container is made.
Create ==
  /\ Turn("write", "create")
  /\ \/ Good("create") /\ Goto("write", "start") /\ testbox' = "created"
     \/ Bad("create") /\ Dies /\ testbox' \in {"none", "created"}
  /\ UNCHANGED <<env, manager, results, folder>>
\* The host's start makes a directory first, and ends the process where it cannot.
StartContainer ==
  /\ Turn("write", "start")
  /\ \/ Good("start") /\ Goto("write", "inspect") /\ testbox' = "running"
     \/ Bad("start") /\ (Return("write", "fail") \/ (runtime = "host" /\ Dies)) /\ UNCHANGED testbox
  /\ UNCHANGED <<env, manager, results, folder>>
\* So does the check itself where it cannot inspect the container.
Inspect ==
  /\ Turn("write", "inspect")
  /\ \/ Good("inspect") /\ Goto("write", "wait")
     \/ Bad("inspect") /\ Dies
  /\ UNCHANGED <<env, manager, results, testbox, folder>>

\* A mount the container may not write to makes it exit with another status
\* than 0; Wait then inspects it and, when that fails, uses the nil answer.
Denied == runtime \in {"docker", "podman"} /\ mount = "denied"
Wait ==
  /\ Turn("write", "wait")
  /\ \/ ~Denied /\ Good("wait") /\ Goto("write", "verify") /\ testbox' = "exited"
     \/ Denied /\ Good("wait") /\ Return("write", "fail") /\ testbox' = "exited"
     \/ Denied /\ Bad("wait") /\ Dies /\ testbox' = "exited"
     \/ Bad("wait") /\ Return("write", "fail") /\ testbox' \in {"running", "exited"}
  /\ UNCHANGED <<env, manager, results, folder>>

\* Mutant: the file is not read.
VerifyNot ==
  /\ Turn("write", "verify") /\ Goto("write", "cleanup")
  /\ UNCHANGED <<env, manager, results, testbox, folder, faults>>
\* The file on this side of the mount.
Verify ==
  /\ Turn("write", "verify")
  /\ \/ runtime = "test" /\ Return("write", "skipped") /\ UNCHANGED faults
     \/ /\ runtime # "test"
        /\ \/ runtime = "host" \/ mount = "works"
        /\ \/ Good("read") /\ Goto("write", "cleanup")
           \/ Bad("read") /\ Return("write", "fail")
     \/ /\ runtime \notin {"test", "host"} /\ mount # "works"
        /\ Return("write", "fail") /\ UNCHANGED faults
  /\ UNCHANGED <<env, manager, results, testbox, folder>>
\* Mutant: testPassed is still false when the deferred clean-up reads it.
CleanupNot ==
  /\ Turn("write", "cleanup") /\ Return("write", "pass")
  /\ UNCHANGED <<env, manager, results, testbox, folder, faults>>
\* The deferred clean-up of a test that has passed.  The error of
\* RemoveContainer is dropped; on the host only the inner directory goes.
Cleanup ==
  /\ Turn("write", "cleanup") /\ Return("write", "pass")
  /\ folder' = IF runtime = "host" THEN "outer" ELSE "none"
  /\ \/ Good("remove") /\ testbox' = "none"
     \/ Bad("remove") /\ UNCHANGED testbox
  /\ UNCHANGED <<env, manager, results>>

------------------------------------------------------------------------------
(* The report *)

\* Mutant: results is not locked, and of two appends one is lost.
AppendUnlocked(c) ==
  /\ Turn(c, "report") /\ results' = Append(results, c)
  /\ \E d \in Check : at[d] = "report" /\ at' = [at EXCEPT ![c] = "done", ![d] = "done"]
  /\ UNCHANGED <<env, manager, status, testbox, folder, run, faults>>
AppendResult(c) ==
  /\ Turn(c, "report") /\ results' = Append(results, c) /\ at' = [at EXCEPT ![c] = "done"]
  /\ UNCHANGED <<env, manager, status, testbox, folder, run, faults>>

\* printSummary's last line; runDoctor's error is that of the first verdict.
Verdict ==
  LET failed == {c \in {results[i] : i \in DOMAIN results} : status[c] = "fail"}
  IN IF failed \cap SeverityCritical # {} THEN "critical"
     ELSE IF failed # {} THEN "review" ELSE "ready"
\* What sort.Slice leaves: each result is behind those that come before it.
Earlier(c, s) == {d \in Range(s) : Ranked[d] < Ranked[c]}
Sorted(s) == [i \in DOMAIN s |-> CHOOSE c \in Range(s) : Cardinality(Earlier(c, s)) = i - 1]
\* wg.Wait, the sort of runParallel, FormatResults.
Report ==
  /\ run = "running" /\ \A c \in Check : at[c] = "done"
  /\ results' = IF parallel THEN Sorted(results) ELSE results
  /\ run' = Verdict
  /\ UNCHANGED <<env, manager, at, status, testbox, folder, faults>>

Step(c) ==
  \/ c = "detection" /\ Detection
  \/ c = "version" /\ Version
  \/ c = "config" /\ Config
  \/ c = "api" /\ (InitContainerRuntime("api", "run", "list") \/ ContainerList)
  \/ c = "write" /\ \/ MkdirTemp \/ InitContainerRuntime("write", "connect", "pull")
                    \/ Pull \/ Create \/ StartContainer \/ Inspect \/ Wait \/ Verify \/ Cleanup
  \/ AppendResult(c)
Next == RunChecks \/ Report \/ \E c \in Check : Step(c)

Spec == Init /\ [][Next]_vars

------------------------------------------------------------------------------
(* Properties *)

Over == {"ready", "review", "critical"}

\* Types: Doctor, CheckResult.
TypeOK ==
  /\ runtime \in Runtime /\ daemon \in {"up", "down"}
  /\ manager \in {"none", "made", "error"}
  /\ at \in [Check -> {"run", "list", "connect", "pull", "create", "start", "inspect",
                       "wait", "verify", "cleanup", "report", "done"}]
  /\ status \in [Check -> CheckStatus \cup {"none"}]
  /\ run \in Over \cup {"new", "running", "died"} /\ faults \in Nat

\* Whatever the order in which the goroutines end, the report holds every
\* applicable check once, in the same order (RunChecks).
ReportComplete ==
  run \in Over =>
    /\ \A c \in Check : Applicable(c) <=> \E i \in DOMAIN results : results[i] = c
    /\ \A i, j \in DOMAIN results : i < j =>
         IF parallel THEN Ranked[results[i]] < Ranked[results[j]] ELSE Before(results[i], results[j])

\* "Environment is ready" is printed only where the write test got its file, or
\* was not asked for, or there is no container to run it in; and a missing
\* runtime is seen by whoever asks for the runtime (result.go, printSummary).
\* A daemon that does not answer only earns the other checks' warnings.
ReadyMeansUsable ==
  run = "ready" =>
    /\ Applicable("write") => runtime \in {"host", "test"} \/ (daemon = "up" /\ mount = "works")
    /\ Applicable("detection") => runtime # "unknown"
    /\ Applicable("api") /\ runtime = "podman" => daemon = "up"

\* Both checks that need the runtime are given the same manager: where the
\* first says that it cannot be made the second does not run a container.
OneManager ==
  status["api"] = "fail" => testbox = "none" /\ status["write"] \in {"none", "fail"}

\* A doctor that meets a bad environment says so in its report: only a call
\* that fails on its own, or a runtime nobody knows, ends the process first.
DiedExplained == run = "died" => runtime = "invalid" \/ faults > 0

\* A write test that has passed leaves no container, unless it could not be
\* removed, and no directory but the host runtime's outer one; one that has
\* not keeps both for whoever looks into it (the comment on the clean-up).
LeftForInvestigation ==
  run \in Over /\ status["write"] # "none" =>
    IF status["write"] = "pass"
    THEN (testbox = "none" \/ faults > 0) /\ folder = (IF runtime = "host" THEN "outer" ELSE "none")
    ELSE folder = "made" \/ (faults > 0 /\ testbox = "none")
=============================================================================
