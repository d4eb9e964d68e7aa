# A verification of engine-ci

engine-ci runs the build pipelines of a repository in containers. A plugin (or
auto-discovery) says which builds there are; the engine runs them group by group,
each build through an ordered list of steps (compile, package, lint, scan,
publish), every step being a container run. This directory holds TLA+ modules of
the parts of the engine that carry its control logic, TLC configurations that
check them on small instances, and TLAPS proofs of what holds for every instance.

Contents: [parts](#the-parts-of-the-system), [modules](#the-modules),
[runs](#what-the-runs-check), [bounds](#bounds), [fairness](#fairness),
[proofs](#what-is-proved), [findings](#where-the-code-and-its-words-disagree),
[left out](#what-is-not-modelled).

## The parts of the system

| Part | Source | State | Operations | Correct when |
|---|---|---|---|---|
| Step registry | `pkg/build/build.go`, `cmd/engine.go` (`InitBuildSteps`) | ordered list of steps with category and async flag, `init` flag | `Add*`, `AddBefore/After*`, `Replace`, `AddToCategory*`, default registration | no step is lost or doubled; no hook puts a later category before an earlier one |
| Target table | `cmd/build.go`, `pkg/build/wrapper.go` | map from target name to function, filled per build | `AddTarget`, `Command.Run` | a target runs the steps it names, whoever else has that name or alias |
| Default registry | `cmd/engine.go`, `Matches` of each step | none | `Matches` | each build is compiled once (not at all where its `from` names no variant) and packaged by the variant that compiled it |
| Engine and pipeline | `cmd/engine.go`, `pkg/build/build.go`, `pkg/utils/idstore.go` | groups, goroutines of builds and asynchronous steps, error channel, `IDStore`, exit code | `Engine`, `executeBuildGroup`, `executeBuild`, `runAllMatchingBuilds` | groups are barriers, no failure is masked, the exit code is true, the run ends |
| Containers and images | `pkg/container/container.go` | the container of a step; local and remote images with platforms | `Pull`, `Create`, `Start`, `Wait`, `Stop`, `Exec`, copies, `Commit`, `Tag`, `Push`, `BuildingContainer`, `BuildIntermidiateContainer` | what may go on running fails the build, nothing stale is published, no failure is unexplained |
| Container managers | `pkg/cri/docker`, `podman`, `host`, `manager.go` | the daemons' (external) | the operations above, three times | the steps may use any of them |
| Language and tool steps | `pkg/golang`, `maven`, `python`, `zig`, `protobuf`, `trivy`, `goreleaser`, `packer`, `pulumi`, `github`, `gcloud`, `copier` | goreleaser's file in `/tmp` | one program of container operations each | images before containers; production images from this run's result |
| SonarQube | `cmd/engine.go` (`LeaderElection`), `pkg/sonarcloud` | a mutex shared by the builds, a server with a password, a token and a file | `Leader`, `Start`, `Setup`, `Analyze` | one server, set up once, with every build given its token; usable after a crash |
| Key value server | `pkg/kv`, `pkg/gcloud/src`, `pkg/utils/environment.go` | map under a lock, bearer token with an age | post, get, `mem:` reads | the map is not raced; a build reads its own group's token; the engine comes to the close of the server, or one failing build ends it for all |
| Log aggregator | `pkg/logger/terminal.go` | log channel, batch and timer, batch channel, log map, display order | `logMessage`, batch loop, workers, display loop, `Flush` | no line lost or doubled, progress without a shutdown, `Flush` returns unless a container still streams |
| Tar | `pkg/container/container.go` | goroutines reading files | `TarDir`, `TarDirConcurrent`, `TarDirSequential` | the archive is complete and ordered, or there is a cause |
| Doctor | `pkg/doctor`, `cmd/doctor.go` | results, the shared manager, a test container and directory | five checks, report | the report is complete, its verdict earned |
| Discovery and plugins | `cmd/engine.go`, `pkg/autodiscovery` | a plugin process | `GetBuild`, `CallPlugin` | the groups the engine gets |
| Cache command, git info, command line | `cmd/cache.go`, `pkg/svc/git.go`, `cmd/root.go` | archives; a global; flags | save/load; read once; wiring | - |

**How they interact.** `Engine` calls `GetBuild`, then for each group starts one
goroutine per build. Each runs a fresh `Command`: it registers the targets from
the step registry (shared and read-only by then) and runs the requested one,
normally `BuildSteps.Run`, which walks the list. A step is a program of calls of
`pkg/container`, which makes calls of the manager; some of its containers call the
key value server of the engine. The builds of a group share the manager, the image
stores, one file in `/tmp`, the SonarQube server and the key value store. Every
goroutine logs through the aggregator; at the end the root command calls `Flush`.
An error of any build exits the process at once.

**What is hard here.** Builds of a group and asynchronous steps interleave freely
and share an exit; errors arrive on two paths (a variable and a channel) and must
not mask each other; steps share names and aliases on purpose; every container
call may fail and each step has its own way of dealing with that (exit, return,
log, go on); what a killed or failed run leaves in images, folders and on the
SonarQube server is what the next run finds; the builds overwrite each other's
keys; the log pipeline has five kinds of goroutines, two channels, a timer and a
shutdown that races with all of them. `PROJECT.json` lists the hazards at their
lines with the properties that would catch them.

## The modules

**BuildSteps** (registry). `Steps` is `bs.Steps`, `init` is `bs.init`, `err`
whether the last call returned an error; `next` is the progress of
`InitBuildSteps` through the default steps. There is one action per operation of
the interface. `InsertAtCategoryEnd` and `InsertRelativeToStep` are the helpers of
the same name: an unknown category or step name is an error and changes nothing.
`Init` is `NewBuildSteps` with any list of up to two steps. `HookSpec` is the
registry without `Add`/`AddAsync`, which file a step under Build wherever the list
ends; `Spec` is the whole interface. `DefaultSteps` is a constant here.

**Command, Targets** (target table). `Command` defines what a target name *means*
from the step list alone. `Targets` is the loop of `Command.Run`: one step per
registered alias, then the built-in targets, then the lookup and the steps the
found function runs. `AddTarget` keeps the first registration of a name. The
built-ins that run no steps (`docker_load`, `list`, ...) leave `ran` empty.

**DefaultRegistry, DefaultTargets, MCDefaultTargets**. `DefaultRegistry` holds the
22 steps of `InitBuildSteps` in list order (`EngineSteps`), with `Name`, `Alias`,
`BuildType`, `IsAsync` and `Matches`. A build is its type, `Custom["from"]` (any
value: nothing checks it; `Variant` holds those that a Go step looks for) and a set
of switches, each standing for a custom option, environment variable, file or field
that a `Matches` function looks at. `DefaultTargets` is `Targets` over this registry
followed by whatever steps hooks have appended.

**Pipeline** (engine). Per build: `pc` (where its goroutine is), `pos` (index of
the loop in `runAllMatchingBuilds`), `async` (the goroutines of its asynchronous
steps), `buildErr`, `errCh`, `ids` and `result`; globally `group`, `spawned`,
`idStore` and `exit`. An error is represented by the index of the step it comes
from, so that masking is visible. What a step does is a choice: it returns with or
without an error, or calls `os.Exit` itself (`StepExits`). `failed` is a history
variable. The dispatch of `Command.Run` is taken from `Command`, which `Targets`
is shown to agree with. Once `exit` is set nothing moves. The one-second sleep before
a build is the interval in pc "sleep".

**EngineOutcome**. The engine's promise: per build a phase (waiting, running, ok,
failed) and an exit code; a build starts only when every earlier group is ok, a
failure is never taken back, 0 is returned only when everything is ok. `Pipeline`
maps to it by `Phase` and `exit`.

**Managers, DockerManager, PodmanManager, HostManager** (`pkg/cri`). A world is a local
image store (one platform under a name), registries (any number of platforms), the
folder `src` of the working directory and goreleaser's file. An operation of a manager
is the set of its outcomes: the answer, whether the call failed on its own, and the
world it leaves. The managers differ where the code does: Docker answers a pull, a push
and a build with a stream. `LogAggregator.Copy` reads that of a pull or a push and
returns the error that it reports, but a stream that breaks off ends like a complete one
(`Lost`); that of a build is printed and nobody looks for an error. Podman pulls before
each create with a platform and decodes credentials with another alphabet than they were
encoded with, the host manager ignores images.

**StepPrograms** (`pkg/golang` to `pkg/copier`). Each step as a sequence of operations
with, for each, what the step's code does if it fails (exit, return the error, log it,
go on behind a mark, return it after the deferred clean-up). Early returns depend on the
fields of the build that the code looks at; `secrets` adds the second copy of
`BuildingContainer`, and a missing image name lets `python-prod` fail at its commit. A
tool's work inside its container is one outcome of `Wait`.

**Container, MCContainer** (`pkg/container`). The builds of a group walk their
programs on one manager. Every manager call is a step of its own, so the builds
interleave between any two. `local`, `remote`, `workdir`, `config` are the world;
`ctr` is the container of the build's step, "adrift" when the call that waits for it
failed and its command goes on; `disk` is whose application the folder holds that a
build compiles in, which is the same `zig-out` for all zig builds (`SharesFolder`).
Image bodies are "base", "tool", "fresh" (what its build compiled in this run),
"foreign" (what another zig build did) and "stale" (of an earlier run).
`Kill` ends the process anywhere; `Rerun` begins the next one on what is left.
`skipped` and `claimed` are history variables.

**Sonar** (`LeaderElection`, `pkg/sonarcloud`). The builds enter `Leader` by
`TryLock` or `Lock`; in the critical section each finds or creates the container,
starts it, waits for it and either reads the token's file or changes the password,
generates the token and saves it. The server is external: it issues one token of a
name. Calls fail, the process exits or is killed, the container stays, the next run
finds it running, stopped or half set up.

**KeyValue, MCKeyValue** (`pkg/kv`). A call of a build is sent, admitted
(`ValidateToken`, the checks of the handler), waits for the lock, and is answered
between lock and unlock. Values are the build they come from. `clock` is the age
of the bearer token. "mem:" reads in the engine take the lock, but no bearer token.
`ExecuteBuildFails` is the exit of the engine at a build that fails, at any time: the
server is gone, with whoever held its lock, and the calls of all containers are lost.

**Doctor** (`pkg/doctor`). Five checks, in turn or as goroutines, each with its
steps; `manager` is the `lazyValue` behind `sync.Once`. The environment (runtime,
daemon, effect of a bind mount) and the options are drawn at the start. `Sorted` is
what `sort.Slice` leaves of the results of a parallel run: each one behind as many as
come before it.

**LogAggregator, MCLogAggregator** (log pipeline). A message is `[r, n]`, the n-th of
routine r; one of them (`Ending`) is its `SuccessMessage` or `FailedMessage`, sent by
the step, and those behind it are lines that the container's stream still has. The batch
loop, each worker, the display loop and `Flush` are processes. The unlocked
`routineOrder = append(routineOrder, id)` of the workers is a read and a write. The two
passes of `updateDisplay` are two steps, since workers run between them; `addMessage`
and the setting of `isDone`/`isFailed` are one step, as no property tells their interval
apart. Torn reads of the slice header of `routineOrder`, which the same data race also
allows, are not modelled: the lost append is already reachable. The engine has joined
its steps when `Flush` is called, so that every routine has had its ending; the
goroutine that streams a container's lines is joined by nobody, and a line that meets
the closed channel is a panic (`LateLine`). The process ends by that, by an `os.Exit`
before `Flush` or after it (`EndOfProcess`), and nothing happens then.

**TarDir** (tar). Files are numbers in the order of the walk. `pc` and `next` are the
calling goroutine, `g` the goroutine of each file, `token` who holds a slot of the
semaphore, `resultChan` and `chanClosed` the channel, `results` the slice it is
collected into, by index. A file has a kind: with data, empty, one that cannot be
read, one that has grown since the walk (the tar writer refuses it). `Acquire` does
what the `select` does: with the semaphore full the goroutine goes on without a
slot. The buffer pool of `pkg/memory` is left out; a buffer is used by one file
at a time and its contents are copied before it goes back.

The modules named `*_proofs` hold the proofs (`Channels_proofs` those of the log
aggregator and of the tar, `Failures_proofs` the last theorem about the containers),
those named `MC*` the small instances.

Definitions marked "Mutant" are altered forms of the definition that follows them.
They are not used by any specification; substituting one for its original shows
that the property it is paired with in `PROJECT.json` can fail.

## What the runs check

| Run | Instance | Checks | Shows |
|---|---|---|---|
| `registry` | 3 steps (two share a name), lists up to 3 by calls, defaults on top | `StepsKept`, `HooksKeepOrder`, `AtCategoryEnd` | every operation inserts one entry or exchanges one within its category, the rest untouched and in order; only `Add`, `AddAsync` break the order of categories; in a sorted list a category insertion lands behind its category |
| `targets_default` | the 22 default steps and three hooks that clash with them, every build type and variant, a `from` that names none, switches all on or off, 7 targets | `TargetMeaning`, `OneCompiler`, `ProdAfterItsCompiler` | the table built by the loop means what `Command` says; the Go variants, told apart by `Matches` only, do not overlap, and leave a gap only for a `from` that none of them knows |
| `targets_maven` | the same | `MavenIsPackaged` is violated | finding 1 |
| `pipeline` | 2 groups (two builds, one build), 4 steps of which 2 asynchronous, 5 targets | `ResultTruthful`, `NothingOutlivesResult`, `GroupBarrier`, `ExitCodeTruthful`, `OutcomeSafe`, `OutcomeLive`, `Terminates` | no interleaving masks a failure, leaks a goroutine past its join, starts a group early or falsifies the exit code; the run ends, and a failure ends it with 1 (`OutcomeLive`) |
| `steps` | 20 jobs of one or two builds over every step program, 3 image stores, 3 managers, 2 failing calls, 2 runs | `TypeOK`, `NothingLeftRunning`, `StaleIsReported`, `PushedIsRemote`, `FailuresExplained`, `OwnConfiguration` | which failures a step has and that there are no others; nothing runs on after a step unless the wait itself failed; what is published is this run's and is in the registry; whose goreleaser defaults a release starts with |
| `sonar` | 3 builds, Docker and Podman, 1 failing call, 3 runs | `ScansWithItsToken`, `LostOnlyByCrash`, `ExitExplained`, `EveryRunEnds` | the set-up is single, every scan has the server's token, a token is lost by a crash only, no build waits for ever |
| `key_value` | 3 builds in 2 groups, a token of age 1, 1 lost call | `MapNotRaced`, `OwnTokenRead`, `EmptyExplained`, `ServerCloses` | the map is not raced, whose token a build reads, why it may read none, and that the engine comes to its end, whatever fails |
| `doctor` | every environment, mode and selection, 1 failing call | `ReportComplete`, `ReadyMeansUsable`, `DiedExplained`, `LeftForInvestigation` | the report is complete in any order of the checks, "ready" means usable, a death has its cause, what the write test leaves |
| `log` | 2 routines (one and two messages), 2 workers, channel capacities 2 and 1, batches of 2 | `TypeOK`, `Conserved`, `Delivered`, `FlushReturns` | every message is in exactly one place; an incomplete batch is delivered; only a line streamed after the close keeps `Flush` from returning |
| `log_flush` | the same | `FlushWaitsForAll` is violated | finding 2 |
| `log_order` | batches of 1 | `EveryRoutineShown` is violated | finding 3 |
| `tar` | up to 3 files of each kind, threshold 1, one slot | `ArchiveComplete`, `FailureHasCause`, `NothingLeftBehind` | a returned archive is complete and in order whatever order the goroutines end in; a failure has a cause; after an early error every goroutine still ends |

The type invariants of the modules with proofs are proved, for every instance, instead
of being checked; `log` and `steps` check theirs, which are proved as well.

No run checks for deadlock: the engine ends, the registry is complete and the log
aggregator is flushed, the builds are analysed, the listener is closed, `TarDir`
returns, each of them a state without successors. That they get there, and do not
stop before, is what the liveness properties say; in `steps`, which has none, every
operation has an outcome in every state, so that a program always goes on. The
doctor's goroutines wait for nothing but each other's end.

### Bounds

- `registry`: `MaxSteps = 3` bounds the calls of `Add*` operations, not the list:
  the three default steps are added on top. Three entries are enough for an
  insertion between two entries, and categories before, between and after the ones
  in use are among the arguments. The theorems hold for every length.
- `MCPipeline`: two parallel builds and a later group for barriers and exits; two
  asynchronous steps in one build for two errors in the channel; a synchronous
  step before and one behind an asynchronous step. The targets are "all", one step
  of one type, one step of any type, a built-in that can fail, and an unknown name.
- `MCContainer`: the jobs put every step program somewhere, behind the steps whose
  images it uses, and every early return is taken by some job. The four jobs of two
  builds are those whose builds share something: the base images, a tool image that has
  to be built, the folder of zig, the goreleaser file. The stores are an empty one, one
  with tool images of this platform and one with images of another. `MaxFaults = 2` is a
  failure and another one while the first is dealt with (a clean-up that fails);
  `MaxRuns = 2` is a run on what a first run left, whole, failed or killed.
- `Sonar`: three builds are a leader, one that waits and one that comes later;
  `MaxRuns = 3` is a token that is lost, found lost, and lost again after
  the container was made anew. One failing call per process.
- `KeyValue`: two builds of one group, which overwrite each other's values, and
  one of the next, which finds what they left. The clock and the age are enough for
  a token that expires before, between and after the calls of a build. One call is
  lost. The theorems have no bounds.
- `Doctor`: one call fails on its own, besides the daemon that is down and the mount
  that does not work; the theorems have no bound on failures.
- `MCDefaultTargets`: "ubuntu" stands for every `from` that names no variant.
- `MCLogAggregator`: one routine with one message and one with a line that its
  container streams behind its ending (`MCMaxMsg`, `MCEnding`), and batches of
  two, give a batch that is full, one that is timed out, one that mixes routines
  and one that is cut off by the shutdown; two workers give the races;
  `ProcCap = 1` and `ChanCap = 2` block the senders; `MaxLogLines = 1` makes
  room for every line.
- `TarDir`: three files give two results behind an error and every order of three
  results; threshold 1 (20 in the code) reaches both variants with few files, and
  one slot (up to 4 in the code) makes goroutines go on without one. The theorems
  have no bound.

### Fairness

- `Pipeline!FairSpec`: weak fairness of the engine's loop, of each build's
  goroutine and of each asynchronous goroutine. The Go scheduler is fair to
  runnable goroutines; that `RunWithBuild` returns is an assumption on the
  containers (nothing in the engine bounds how long a container may run). Neither
  failing nor exiting is ever required to happen: `StepExits` has no fairness, and
  both results of a step satisfy the fairness of its return.
- `Sonar!FairSpec`: weak fairness of each build's step and of `Boots`, the server
  that comes up. One that never does is covered by the failing call of the wait,
  which gives up after its attempts. Weak fairness is enough for the mutex: a
  build that waits for it is let in once it stays free, and builds that left it do
  not come back. Killing and running again are not fair.
- `KeyValue!FairSpec`: weak fairness of each build, of its handler and of the end of
  the engine, strong fairness of `Lock`: an `RWMutex` that readers keep taking and
  giving back lets a waiting writer in. The clock need not move, no call is lost by
  necessity.
- `LogAggregator!FairSpec`: weak fairness of the batch loop (`BpStep`), each worker,
  the second display pass (`Display`) and the rest of `Flush` (`FlushStep`), all of
  them only while the process runs. `FinalUpdate` has strong fairness:
  while `shutdown` is closed the display loop's `select` may have the ticker ready
  as well, and Go chooses among ready cases at random, so that the shutdown case
  is not passed over for ever. Within the batch loop one fairness condition covers
  all cases of the `select`; no property needs more. Writing, calling `Flush` and
  the end of the process are not fair: nobody has to do them. Nothing is said of the
  workers after `Flush`, since the process may end at once.
- `TarDir!TarFairSpec`: weak fairness of the caller, of each file's goroutine and of
  the closing goroutine; that reading a file ends is an assumption on the file
  system. The caller may fail on a walk at any time or never.
- `Container`, `Doctor`, `BuildSteps`, `Targets`: none, and no liveness.

## What is proved

TLAPS checks these for every value of the constants that satisfies the named assumptions
(`RegistryAssumption`, `CommandAssumption`, `TargetsAssumption`, `PipelineAssumption`,
`TarAssumption`, `LogAssumption`, `SonarAssumption`, `KeyValueAssumption`,
`DoctorAssumption`, `DefaultTargetsAssumption`, `ContainerAssumption`,
`ServedAssumption`). They type the constants. Four say more: `PipelineAssumption` puts
each build into one place of one group (the groups come from a list of distinct
`BuildArguments`); `DefaultTargetsAssumption` has the engine's own steps first in the
list, with hooks behind them of which none took the alias "all"; `ContainerAssumption`
has builds with images of their own, and with folders of their own but for the zig
builds, at most one production step in a job, behind the steps that compile (the order
and the `Matches` functions of the registry), and nothing but tool images under the
names of tool images, which are checksums. `ServedAssumption`, which only
`StepFailuresHaveCauses` rests on, is about what the program is served: all builds of a
group run on one machine (they are goroutines of one process), every base image is
published for its platform, and a tool image that the *first* run finds for that
platform has been published. The last does not hide a killed run that built an image and
did not push it: later runs of the model meet such a store, and `BuiltNotPushed` names
it.

- **Registry** (`BuildSteps_proofs`): `RegistryTyped`, `RegistryKeepsSteps` (no
  operation loses, doubles or reorders a step), `RegistryKeepsOrder` (only `Add`
  and `AddAsync` break the order of the categories), `RegistrySorted` (without them
  the list is sorted), `RegistryAddsAtTheEnd`. The core is a lemma that inserting an
  entry at a position where everything before it has no later and everything behind
  it no earlier rank keeps a list sorted, and that `InsertPos` is such a position:
  the entries before the first entry of the *least* later rank in use have a rank
  up to the new one's, since the list was sorted.
- **Targets** (`BuildSteps_proofs`): `TargetsMeanWhatTheySay`. The invariant says what
  the loop has done after i steps: a name is absent if no registered step before i has
  it as alias, else it holds the *first* such step. Over the engine's registry it gives
  `OneCompilerRuns` and `OnlyCompiledIsPackaged` for every build and any hooks: "all"
  and "build" run exactly one compile step of a build that has a language, none of a Go
  build whose `from` names no variant, and no production step without its own compile
  step. Hooks may share the alias "build": the first to have registered it is a step of
  the engine.
- **Engine** (`Pipeline_proofs`): `PipelineTyped`, `ResultsAreTruthful`,
  `GroupsAreBarriers`, `EngineImplementsOutcome`, `NothingIsLeftBehind`,
  `ExitCodeIsTruthful`. The inductive invariant `IInv` says which builds may be where
  (`Placed`: builds of earlier groups are done without failures, builds of later
  ones untouched), that exit "1" has a failure and exit "0" is behind the last group
  (`Exits`), and per build how errors are accounted for while it runs (`PerBuild`):
  a goroutine exists only for an asynchronous step behind the loop's index,
  `buildErr` is the last synchronous failure, the channel holds only failures of
  asynchronous steps, and everything failed is either in `buildErr`'s past, in the
  channel or about to be reported. `ResultTruthful` alone is not inductive: a
  result that is nil is true only because everything that failed before the join
  is still on its way to it. For `NothingOutlivesResult` the invariant is carried
  further by the ids: each one collected is of a step that ran (`Collected`), and
  after the join they are in the store (`Delivered`). The refinement theorem shows
  that the initial state maps to an initial state and each action to a step or a
  stutter of `EngineOutcome`.
- **Tar** (`Channels_proofs`): `ArchiveIsComplete`, `FailuresHaveCauses`,
  `TarDirTypes`. `ArchiveComplete` speaks of the end only; the invariant carries it
  there: a result in the channel or stored is of the file at its own index
  (`ChanReadable`, `StoredOwn`), a result that was sent is stored or still in the
  channel (`Accounted`), the channel is closed after the last goroutine
  (`ClosedLast`), so that an empty closed channel means a full slice (`AllStored`),
  which is written in order (`Prefix`). `Cause` and `Bounds` add why a caller is on
  its way to an error, and that indices are of files and slots are not over-filled.
- **Log aggregator** (`Channels_proofs`): `LogAggregatorTypes`,
  `MessagesAreConserved`. `At(a, i, k, m)` says that m is at index k of the container
  (a, i); `Once`, that a message is somewhere exactly if it is written, and in one
  place only. Five actions move messages; for each, every place after the step is
  one before it, by a correspondence that is one to one. The move of a batch into
  a worker's hands needs that a waiting worker holds none (`EmptyHanded`), the
  length of a batch that it has room while messages are received (`Room`).
- **SonarQube** (`Sonar_proofs`): `SonarTypes`, `LocalBuildsHaveTheToken`,
  `TokenLostOnlyByCrash`, `EveryExitHasItsCause`. A lock argument: a build between
  the acquisition and the release is the holder (`Exclusive`), what such a build
  has seen of the server is still so because nobody else changes it (`Knows`), and
  the file's token was issued (`MetadataIssued`).
- **Key value server** (`KeyValue_proofs`): `KeyValueTypes`, `MapIsNotRaced`,
  `TokensStayInTheGroup`, `MissingTokensExplained`. The first invariant is about the
  lock (`Locked`: readers and writers are exactly the calls between lock and unlock, a
  writer alone) and the calls left (`Calls`, `UnderWay`); the exit of the engine ends
  the calls and frees nothing but them. The second one, `TInv`, follows a build's calls
  as the rest of a fixed program: its posts come before its read, so that what it reads
  was written by itself or by a peer; a build of a later group begins only when nothing
  is left of the earlier ones (`Ordered`), so that nobody outside the group writes in
  between; and a read that finds nothing has, at every point before, a lost or refused
  post or an empty store to account for it (`Accounted`).
- **Doctor** (`Doctor_proofs`): `DoctorTypes`, `ReadyIsUsable`,
  `EveryDeathIsExplained`, `ManagerIsShared`, `WriteTestLeaves`. Each step of the
  write test that is reached says what the steps before it have established
  (`Written`), whoever made the manager (`Managed`); what was created and not
  removed is accounted for by the step it got to (`Left`). For `ReportIsComplete`
  the unsorted results are exactly the checks that are done, each once. The ranks
  order them strictly, so that the number of earlier results is a one to one map
  from the n results into n places, which therefore reaches each place: the sort
  neither loses nor doubles a result.
- **Containers** (`Container_proofs`): `ContainerTypes`, `StepsStopWhatTheyStart`,
  `NoStaleImageUnreported`, `PushesArrive`, `ReleasesUseTheirOwn`, all from
  `ContainerInvariant`; and `StepFailuresHaveCauses` (`Failures_proofs`). The
  invariant speaks of the operations a build has yet to do, since what a step will do
  is all that tells its state from a bad one:
  - `TodoTyped`: they are operations of the step the build is in (`StepOps`).
  - `StartsWillEnd`, `RunningWillEnd`: behind each start comes a wait or a stop, and on
    the way there only an exit can end the step. `AdriftReported`: a wait that fails
    itself leaves an error behind. This gives `NothingLeftRunning`.
  - `Compiled`: behind a compile step the folder holds what this run compiled
    (`OfThisRun`: this build or, of two zig builds, the other), or the build has an
    error, or the container that makes it is still ahead. `Sourced`: what a production
    step commits it has copied from the folder, and what it pushes it has tagged with
    what it committed. `Created` has a container to commit. This gives
    `StaleIsReported`.
  - `OfferedOnce`, `ToolsAreTools`, `ClaimsKept`: an application image is offered to the
    registry by one operation of one build, and a tool image always has the same
    body, so that nothing overwrites what a push was given, unless it never arrived
    because Docker's stream broke off. This gives `PushedIsRemote`.
  - `ConfigsWillClean`, `BindsOwn`, `MarksArePlain`: whoever writes goreleaser's file
    removes it on every way out but an exit, so that a file of another language
    that is there when a build binds is that of a build which is still releasing. This
    gives `OwnConfiguration`.

  The proof has four layers. Facts about what is left of a sequence, and about two in
  a row, are lifted to each of these conjuncts. From them every program of every
  step satisfies all that a step must when it begins. An operation then either is
  taken off, or ends the step in one of the ways of `Disposes`, or is replaced by
  operations of the same kinds; the outcomes of the three managers are bounded once,
  and each action is an instance. At last each conjunct is shown to be kept by
  such a step, for the build that moves and for the others, and by the beginning of
  a step, a kill and a new run.

  `StepFailuresHaveCauses` says that the causes `FailuresExplained` lists are all. Its
  invariant is `Explains`: while none of them is there (`Calm`) no build has an error,
  and every build is `Fine`. That is a statement about the operations ahead again: each
  finds the images it needs, or an operation before it provides them (`ForwardAt`, with
  `Fits`); so it is for the committed container, the running one and goreleaser's
  file; the images a step relies on its preparation for were left by that (`LeftAt`); an
  image that was looked for and not missed is there (`AskedAt`); and a tool image that
  Podman has built is pushed next (`ChainedAt`), so that Podman can pull what it finds,
  or somebody is about to push it (`ToolsPullable`). Every program runs through from
  what its preparation leaves (`ProgramTakes`, one lemma for each part of a program);
  while no call fails on its own each manager's answer is determined by the state
  (`PullOnly`, `CreateOnly`, ...), and each operation then goes on with a `Fine` rest,
  for itself and for the other builds, or ends the process at an image that is not
  published (`EveryFares`).

Only model-checked: all liveness (`OutcomeLive`, `Terminates`, `Delivered`,
`FlushReturns`, `NothingLeftBehind`, `EveryRunEnds`, `ServerCloses`), which needs
fairness and ENABLED. Every invariant and every action property that a passing run
checks is also proved.

## Where the code and its words disagree

1. `targets_maven`: `maven.NewProd` sets no `MatchedFn`, and a step without one
   matches nothing. The Maven production step, registered under "Production
   artifacts, packaging" (`cmd/engine.go:353`), never runs; the target "push"
   succeeds for a Maven build without doing anything.
2. `log_flush`: on shutdown the batch loop leaves what is in `logChannel`, and the
   display loop announces the end without waiting for the workers. `Flush` returns
   before "all messages" are processed (`pkg/logger/terminal.go:222`).
3. `log_order`: two workers append to `routineOrder` at once and one append is
   lost. The routine is never displayed although its lines are filed, unless a
   later batch names it. The comment at `terminal.go:364` says that "this needs to
   be synchronized".

Also met, without a run of their own:

- Above 20 files or 10 MB a directory with an empty file cannot be archived:
  `TarDirConcurrent` takes content that is nil for a failed read
  (`pkg/container/container.go:947`), and the content of an empty file is nil
  (`:930`). `TarDirSequential` writes such a file. `FailureHasCause` names the case.
- The semaphore of `TarDirConcurrent` limits nothing: its `select` has a default
  branch that goes on without a slot (`pkg/container/container.go:916`), where the
  comment at `:891` says "Limit to 4 workers max".
- `packer.Matches` asks for the Generic build type where its comment
  (`pkg/packer/packer.go:28`) says "packer only runs for golang builds"
  (`DefaultRegistry!Matched` follows the code).
- `insertAtCategoryEnd` inserts before the first entry of the next category in
  use. After `Add` has appended a Build step behind that entry, the new step is not
  at the end of its category, as the comment at `pkg/build/build.go:159` says.
  `AtCategoryEnd` therefore asks for a list that is sorted before the call.
- A custom production Dockerfile is built under a tag that is looked up first
  (`pkg/container/container.go:801`): the image of an earlier run is published
  again. `StaleIsReported` leaves this one case out.
- With Podman two builds of a group that want the same tool image may end the run:
  one has built it and is about to push it, the other finds it by name
  (`pkg/container/container.go:724`), does not build it, and Podman pulls it before the
  container is created from a registry that does not have it yet. `BuiltNotPushed`
  names this case besides that of a run killed between the two calls.
- `LogAggregator.Copy` (`pkg/logger/terminal.go:198`) does not ask its scanner for an
  error: when the stream that answers a Docker push breaks off, `Push` returns nil
  and the step succeeds with nothing published. `PushedIsRemote` leaves this case out.
- A Go build whose `from` is a name that no variant knows is compiled by no step and
  succeeds (`pkg/golang/alpine/golang.go:372`); `OneCompiler` says so.
- All zig builds compile into `zig-out` of the working directory and their production
  steps copy it from there (`pkg/zig/zig.go:289`): of two in one group either may
  publish the other's binary. `StaleIsReported` promises no more than this run's.
- The production step of Python does not ask whether the build has an image name
  (`pkg/python/python.go:243`); without one the commit is refused and the process
  exits. `Nameless` names the case.
- A build with `secrets` cannot be compiled on the host: its manager exits at the copy
  of the secrets (`pkg/cri/host/host.go:187`), which is no script.
- A line that a container streams after its step has returned meets the channel that
  `Flush` has closed (`pkg/container/container.go:229`, `pkg/logger/terminal.go:184`)
  and panics. `FlushReturns` names the case.
- A container whose wait fails is neither stopped nor waited for again
  (`pkg/container/container.go:336`). `NothingLeftRunning` asks for an error of the
  build then; the comment on a pull request only logs it.
- The parallel builds of a group share one goreleaser file in `/tmp`
  (`pkg/goreleaser/goreleaser.go:155`): a release may start with the other build's
  defaults, or without any when the other build has removed them.
  `OwnConfiguration` says when it is a build's own.
- A build of a group reads the token of the peer that posted last, as the keys of
  the key value server do not name the build. `OwnTokenRead` promises no more than
  the group.

## What is not modelled

- What the tools do inside their containers, whether a container run ends, and the
  exit status of an `Exec`, which the code does not look at.
- The contents of the lines that containers stream, and the host manager's pipes; the
  bytes of what is copied, apart from `TarDir`.
- Failures before the first group (`GetBuild`, `NewCommand` of the run): the
  process ends before any state of `Pipeline` exists.
- `executeBuild` has a branch for the loop value `BuildStop` (`cmd/engine.go:120`);
  nothing returns that value, so there is no action for it.
- In the log aggregator: rendering, and what the root command itself logs after
  `Flush` (`cmd/root.go:111`), which panics whatever else happens.
- Discovery and plugins: an external plugin process and a walk of the file system
  that keep no state. What they return is the `Groups` constant of `Pipeline`.
- The image cache command (`save` and `load`, one archive after the other), the git
  information (read once) and the command line (flags and wiring): no state that a
  step could find in an unexpected order.
