------------------------------- MODULE Container -------------------------------
(***************************************************************************)
(* The builds of one group running their steps (StepPrograms) through      *)
(* pkg/container on a container runtime.  Every call of the manager is a   *)
(* step of its own, so the builds interleave between them.  Any call may   *)
(* fail, at most MaxFaults in a behaviour.  The process may be killed at   *)
(* any time and is then run again, up to MaxRuns runs, on what the last    *)
(* one left behind.                                                        *)
(***************************************************************************)
EXTENDS StepPrograms, Integers, FiniteSets, SequencesExt

CONSTANTS
  Image,      \* every image name in play
  Runtimes,   \* subset of {"docker", "podman", "host"}
  Jobs,       \* functions from builds to [cfg |-> build, steps |-> names]
  Stores,     \* local image stores the first run may find
  Registry,   \* what the registries offer then
  MaxFaults, MaxRuns

\* A build: the fields are those that StepPrograms describes.
Cfg ==
  [name : STRING \ {"base", "tool"}, image : BOOLEAN, local : BOOLEAN, custom : BOOLEAN, push : BOOLEAN,
   tagged : BOOLEAN, token : BOOLEAN, zig : BOOLEAN, pr : BOOLEAN, commit : BOOLEAN, host : STRING,
   auth : {"none", "plain", "urlsafe"}, links : BOOLEAN, own : BOOLEAN, secrets : BOOLEAN]

ASSUME ContainerAssumption ==
  /\ Host # Alien /\ None \notin Platform
  /\ BaseImage \cup ToolImage \subseteq Image
  /\ Runtimes \subseteq {"docker", "podman", "host"}
  /\ \A j \in Jobs : \A b \in DOMAIN j :
       /\ j[b].cfg \in Cfg /\ j[b].steps \in Seq(StepName)
       /\ {AppTag(j[b].cfg), AppURI(j[b].cfg)} \subseteq Image
       \* every build has images of its own; and a folder, but the zig builds, all
       \* of which compile in the working directory
       /\ \A c \in DOMAIN j : j[c].cfg.name = j[b].cfg.name => c = b
       /\ Range(j[b].steps) \cap {"zig", "zig-prod"} # {} => j[b].cfg.zig
       \* the order of the registry: one production step at most, behind what compiles
       /\ \A k, l \in DOMAIN j[b].steps : j[b].steps[k] \in ProdStep =>
            /\ j[b].steps[l] \in ProdStep => l = k
            /\ j[b].steps[l] \in CompileStep => l < k
  /\ Stores \subseteq [Image -> Stored]
  /\ Registry \in [Image -> [Platform -> Body \cup {None}]]
  \* nobody publishes anything else under the name of a tool image
  /\ \A i \in ToolImage :
       /\ \A s \in Stores : s[i].body \in {None, "tool"}
       /\ \A q \in Platform : Registry[i][q] \in {None, "tool"}
  /\ MaxFaults \in Nat /\ MaxRuns \in Nat \ {0}

\* What the explanation of a failure takes for granted: one machine runs all
\* the builds; its platform is among those every base image is published for;
\* and a tool image the first run finds for it has been published.
ASSUME ServedAssumption ==
  /\ \A j \in Jobs : \A b, c \in DOMAIN j : j[b].cfg.host = j[c].cfg.host
  /\ \A i \in BaseImage : Registry[i][Host] # None
  /\ \A s \in Stores : \A i \in ToolImage : s[i].plat = Host => Registry[i][Host] # None

VARIABLES
  runtime,   \* the manager in use
  job,       \* what each build is to do
  local,     \* local image store: name -> platform and body
  remote,    \* registries: name -> platform -> body
  workdir,   \* the working directory has a folder src
  config,    \* whose default the file in /tmp holds: "go", "zig" or None
  ctr,       \* per build the container of its current step
  disk,      \* per build whose application the folder it compiles in holds
  pos,       \* per build the number of steps begun
  todo,      \* per build the operations left in the current step
  err,       \* per build whether a step has returned an error
  exited,    \* "no", "exit" (os.Exit(1)), "panic" or "killed"
  run,       \* number of this run
  faults,    \* calls that failed on their own so far
  skipped,   \* images a Pull that returned nil in this run did not look at
  claimed    \* what the pushes that returned nil in this run were given, and
             \* whether the daemon's answer was cut off

vars == <<runtime, job, local, remote, workdir, config, ctr, disk, pos, todo, err, exited, run,
          faults, skipped, claimed>>
images == <<local, remote, workdir, config>>
history == <<skipped, claimed>>
place == <<runtime, job, pos, run>>

Builds == DOMAIN job
NoContainer == [state |-> "none", body |-> None, made |-> Absent, config |-> None]

D == INSTANCE DockerManager
P == INSTANCE PodmanManager
H == INSTANCE HostManager

Init ==
  /\ runtime \in Runtimes
  /\ job \in Jobs
  /\ local \in Stores
  /\ remote = Registry
  /\ workdir = FALSE /\ config = None
  /\ ctr = [b \in Builds |-> NoContainer]
  /\ disk = [b \in Builds |-> None]
  /\ pos = [b \in Builds |-> 0]
  /\ todo = [b \in Builds |-> <<>>]
  /\ err = [b \in Builds |-> FALSE]
  /\ exited = "no" /\ run = 1 /\ faults = 0
  /\ skipped = {} /\ claimed = {}

------------------------------------------------------------------------------
(* Walking a program *)

Op0(b) == Head(todo[b])
At(b, kind) == exited = "no" /\ todo[b] # <<>> /\ Op0(b).do = kind

Goes(b) == todo' = [todo EXCEPT ![b] = Tail(@)] /\ UNCHANGED <<err, exited>>
Instead(b, ops) == todo' = [todo EXCEPT ![b] = ops \o Tail(@)] /\ UNCHANGED <<err, exited>>

\* What is left after the next Mark.
AfterMark(s) == SubSeq(s, SelectInSeq(s, LAMBDA o : o.do = "mark") + 1, Len(s))

\* The operation fails, and the step does what its code does about it.
Disposes(b, fail) ==
  /\ exited' = IF fail = "exit" THEN "exit" ELSE exited
  /\ err' = [err EXCEPT ![b] = @ \/ fail \in {"err", "defer"}]
  /\ todo' = CASE fail = "log" -> [todo EXCEPT ![b] = Tail(@)]
               [] fail \in {"next", "defer"} -> [todo EXCEPT ![b] = AfterMark(@)]
               [] OTHER -> [todo EXCEPT ![b] = <<>>]

World == [local |-> local, remote |-> remote, workdir |-> workdir, config |-> config]
Becomes(w) == local' = w.local /\ remote' = w.remote /\ workdir' = w.workdir /\ config' = w.config

\* The manager in use, given what each would answer.
Answers(docker, podman, host) ==
  CASE runtime = "docker" -> docker [] runtime = "podman" -> podman [] runtime = "host" -> host

\* The call is answered; only MaxFaults calls fail on their own.
Answered(out) ==
  /\ faults' = IF out.fault THEN faults + 1 ELSE faults
  /\ faults' <= MaxFaults
  /\ Becomes(out.world)

FailsAs(b, out) == Disposes(b, IF out.res = "exit" THEN "exit" ELSE Op0(b).fail)

\* The next operation is a call with these outcomes; on success the container
\* of the build becomes c.
Calls(b, kind, outcomes, c) ==
  /\ At(b, kind)
  /\ \E out \in outcomes :
       /\ Answered(out)
       /\ IF out.res = "ok" THEN Goes(b) /\ ctr' = [ctr EXCEPT ![b] = c]
          ELSE FailsAs(b, out) /\ UNCHANGED ctr
  /\ UNCHANGED <<disk, place, history>>

Auth(b) == job[b].cfg.auth

------------------------------------------------------------------------------
(* Images *)

Pulled(b, i, p) ==
  Answers(D!PullImage(World, i, p, Auth(b)), P!PullImage(World, i, p, Auth(b)), H!PullImage(World))

\* ensureImagesExists, one image of the list per step.  An image found with
\* another platform is pulled, and the call returns without looking further.
EnsureImagesExists(b) ==
  LET o == Op0(b)
      i == Head(o.imgs)
      listed == Present(World, i) /\ runtime # "host"
      wrong == listed /\ local[i].plat # Host
      outcomes == IF listed /\ ~wrong THEN Call(World, World) ELSE Pulled(b, i, Host)
  IN  /\ At(b, "pull")
      /\ \E out \in outcomes :
           /\ Answered(out)
           /\ IF out.res # "ok" THEN FailsAs(b, out) /\ UNCHANGED skipped
              ELSE /\ skipped' = skipped \cup IF wrong THEN Range(Tail(o.imgs)) ELSE {}
                   /\ IF wrong \/ Len(o.imgs) = 1 THEN Goes(b)
                      ELSE Instead(b, <<[o EXCEPT !.imgs = Tail(@)]>>)
      /\ UNCHANGED <<ctr, disk, place, claimed>>

\* ImageExists, with at least one platform to look for.
ImageExists(i, plats) ==
  /\ i \in Answers(D!ListImage(World, i), P!ListImage(World, i), H!ListImage)
  /\ \A p \in Range(plats) : local[i].plat = p

\* BuildIntermidiateContainer up to the decision to build.
AskExists(b) ==
  LET o == Op0(b)
  IN  /\ At(b, "ensure") /\ ~o.asked
      /\ \E out \in Call(World, World) :
           /\ Answered(out)
           /\ IF out.res # "ok" THEN FailsAs(b, out)
              ELSE IF ImageExists(o.img, o.plats) THEN Goes(b)
              ELSE Instead(b, <<[o EXCEPT !.asked = TRUE, !.left = o.plats]>>)
      /\ UNCHANGED <<ctr, disk, place, history>>

\* PullByPlatform of one image.
PullByPlatform(b, i, p) ==
  IF Present(World, i) /\ local[i].plat = p /\ runtime # "host" THEN Call(World, World) ELSE Pulled(b, i, p)

\* Pull the image for the next platform; a failure only counts.
TryPull(b) ==
  LET o == Op0(b)
  IN  /\ At(b, "ensure") /\ o.asked /\ o.left # <<>>
      /\ \E out \in PullByPlatform(b, o.img, Head(o.left)) :
           /\ Answered(out)
           /\ Instead(b, <<[o EXCEPT !.left = Tail(@), !.missed = @ \/ out.res # "ok"]>>)
      /\ UNCHANGED <<ctr, disk, place, history>>

\* All pulled: done.  One platform: build and push.  More: one more pull for
\* the container's platform, and if that fails too a multi-platform build.
DecideBuild(b) ==
  LET o == Op0(b)
  IN  /\ At(b, "ensure") /\ o.asked /\ o.left = <<>>
      /\ \/ ~o.missed /\ Goes(b) /\ UNCHANGED <<images, faults>>
         \/ o.missed /\ Len(o.plats) = 1 /\ Instead(b, BuildAndPush(o)) /\ UNCHANGED <<images, faults>>
         \/ /\ o.missed /\ Len(o.plats) > 1
            /\ \E out \in PullByPlatform(b, o.img, Host) :
                 Answered(out) /\ IF out.res = "ok" THEN Goes(b) ELSE Instead(b, BuildMulti(o))
      /\ UNCHANGED <<ctr, disk, place, history>>

BuildImage(b) ==
  LET o == Op0(b)
  IN  Calls(b, "build", Answers(D!BuildImage(World, o.img, o.body), P!BuildImage(World, o.img, o.body),
                                H!BuildImage(World)), ctr[b])

BuildImageByPlatforms(b) ==
  LET o == Op0(b)
  IN  Calls(b, "buildMulti", Answers(D!BuildMultiArchImage(World, o.img, o.body),
                                     P!BuildMultiArchImage(World, o.img, o.body),
                                     H!BuildMultiArchImage(World)), ctr[b])

Tag(b) ==
  LET o == Op0(b)
      src == IF o.do = "tag" THEN local[o.src] ELSE ctr[b].made
      outcomes == Answers(D!TagImage(World, src, o.img), P!TagImage(World, src, o.img), H!TagImage(World))
  IN  Calls(b, "tag", outcomes, ctr[b]) \/ Calls(b, "tagCommit", outcomes, ctr[b])

Push(b) ==
  LET o == Op0(b)
      given(cut) == [img |-> o.img, plat |-> local[o.img].plat, body |-> local[o.img].body, cut |-> cut]
  IN  /\ At(b, "push")
      /\ \E out \in Answers(D!PushImage(World, o.img, Auth(b)), P!PushImage(World, o.img, Auth(b)), H!PushImage(World)) :
           /\ Answered(out)
           /\ IF out.res = "ok" THEN Goes(b) /\ claimed' = claimed \cup {given(out.fault)}
              ELSE FailsAs(b, out) /\ UNCHANGED claimed
      /\ UNCHANGED <<ctr, disk, place, skipped>>

InspectImage(b) ==
  LET o == Op0(b)
  IN  Calls(b, "inspect", Answers(D!InspectImage(World, o.img), P!InspectImage(World, o.img),
                                  H!InspectImage(World)), ctr[b])

------------------------------------------------------------------------------
(* Containers *)

\* Create without a name, which is how every step but SonarQube's calls it.
CreateContainer(b) ==
  LET o == Op0(b)
  IN  /\ At(b, "create")
      /\ \E out \in Answers(D!CreateContainer(World, o.img, o.auto, Auth(b)),
                            P!CreateContainer(World, o.img, o.auto, Auth(b)),
                            H!CreateContainer(World)) :
           /\ Answered(out)
           /\ IF out.res = "ok"
              THEN /\ ctr' = [ctr EXCEPT ![b] =
                                [state |-> "created", made |-> Absent, config |-> None,
                                 body |-> IF runtime = "host" THEN None ELSE out.world.local[o.img].body]]
                   /\ Goes(b)
              ELSE FailsAs(b, out) /\ UNCHANGED ctr
      /\ UNCHANGED <<disk, place, history>>

In(b, state) == [ctr[b] EXCEPT !.state = state]

StartContainer(b) ==
  /\ At(b, "start")
  /\ Calls(b, "start", Answers(D!StartContainer(World), P!StartContainer(World),
                               H!StartContainer(World, Op0(b).mounts)), In(b, "running"))
\* On the host the process goes on.
StopContainer(b) ==
  Calls(b, "stop", Answers(D!StopContainer(World), P!StopContainer(World), H!StopContainer(World)),
        IF runtime = "host" THEN ctr[b] ELSE In(b, "exited"))

ExecContainer(b) ==
  LET running == ctr[b].state = "running"
  IN  Calls(b, "exec", Answers(D!ExecContainer(World, running), P!ExecContainer(World, running),
                              H!ExecContainer(World)), ctr[b])

CopyContentTo(b) ==
  /\ At(b, "put")
  /\ Calls(b, "put", Answers(D!CopyContentToContainer(World), P!CopyContentToContainer(World),
                             H!CopyContentToContainer(World, Op0(b).script)), ctr[b])

\* The compiled application is copied from the build's folder: without one
\* the copy fails, with one of an earlier run that one is taken.
Holding(b) == [ctr[b] EXCEPT !.body = disk[b]]
\* Mutant: what is copied is not looked for first.
CopyFileToUnchecked(b) ==
  Calls(b, "copyFile", Answers(D!CopyToContainer(World, TRUE), P!CopyToContainer(World, TRUE),
                                  H!CopyToContainer(World)), Holding(b))
CopyFileTo(b) ==
  LET found == disk[b] # None
  IN  Calls(b, "copyFile", Answers(D!CopyToContainer(World, found), P!CopyToContainer(World, found),
                                  H!CopyToContainer(World)), Holding(b))
CopyDirectoryTo(b) ==
  LET found == disk[b] # None
      links == job[b].cfg.links
  IN  Calls(b, "copyDir", Answers(D!CopyDirectorToContainer(World, found, links),
                                  P!CopyDirectorToContainer(World, found, links),
                                  H!CopyDirectorToContainer(World)), Holding(b))

CommitContainer(b) ==
  LET o == Op0(b)
      body == ctr[b].body
  IN  Calls(b, "commit", Answers(D!CommitContainer(World, o.img, body), P!CommitContainer(World, o.img, body),
                                H!CommitContainer(World)),
            [ctr[b] EXCEPT !.made = IF runtime = "host" THEN Absent ELSE [plat |-> Host, body |-> body]])

\* What the folders hold once b has compiled: the zig builds share theirs.
SharesFolder(b, c) == b # c /\ job[b].cfg.zig /\ job[c].cfg.zig
CompiledBy(b) ==
  [c \in Builds |-> IF c = b THEN "fresh" ELSE IF SharesFolder(b, c) THEN "foreign" ELSE disk[c]]

\* The command of the container ends, and its exit status is known; or it is
\* not, as the call failed, and the command goes on (on the host it has ended).
WaitEnds(res) == IF res = "error" /\ runtime # "host" THEN "adrift" ELSE "exited"
\* After a status other than zero the container is inspected, and a failing
\* inspection is a nil pointer.
WaitContainer(b) ==
  LET o == Op0(b)
  IN  /\ At(b, "wait")
      /\ \E out \in Answers(D!WaitContainer(World), P!WaitContainer(World), H!WaitContainer(World)) :
           /\ ctr' = [ctr EXCEPT ![b].state = WaitEnds(out.res)]
           /\ \/ /\ Answered(out)
                 /\ IF out.res = "ok" THEN Goes(b) ELSE FailsAs(b, out)
                 /\ disk' = IF out.res = "ok" /\ o.makes THEN CompiledBy(b) ELSE disk
              \/ /\ out.res = "nonzero" /\ faults + 2 <= MaxFaults
                 /\ \E seen \in Answers(D!InspectContainer(World), P!InspectContainer(World),
                                          H!InspectContainer(World)) : seen.res = "error"
                 /\ faults' = faults + 2 /\ exited' = "panic"
                 /\ UNCHANGED <<images, disk, todo, err>>
      /\ UNCHANGED <<place, history>>

\* Mutant: a file that is there is not written again.
WriteConfigOnce(b) ==
  LET written == [World EXCEPT !.config = IF @ = None THEN Op0(b).language ELSE @]
  IN  Calls(b, "config", Call(written, World), ctr[b])
WriteConfig(b) ==
  Calls(b, "config", Call([World EXCEPT !.config = Op0(b).language], World), ctr[b])
\* A mount whose source is gone is refused.
BindConfig(b) ==
  Calls(b, "bind", IF config = None THEN {Refused(World)} ELSE {Ok(World)}, [ctr[b] EXCEPT !.config = config])
RemoveConfig(b) ==
  Calls(b, "unconfig", {Ok([World EXCEPT !.config = None])}, ctr[b])

Prepare(b) == Calls(b, "check", Call(World, World), ctr[b])
RefuseStep(b) == Calls(b, "refuse", {Refused(World)}, ctr[b])
PassMark(b) == Calls(b, "mark", {Ok(World)}, ctr[b])

------------------------------------------------------------------------------
(* The run *)

\* runAllMatchingBuilds goes on with the next step after an error.
NextStep(b) ==
  /\ exited = "no" /\ todo[b] = <<>> /\ pos[b] < Len(job[b].steps)
  /\ pos' = [pos EXCEPT ![b] = @ + 1]
  /\ todo' = [todo EXCEPT ![b] = Program(job[b].steps[pos[b] + 1], job[b].cfg, runtime)]
  /\ ctr' = [ctr EXCEPT ![b] = NoContainer]
  /\ UNCHANGED <<runtime, job, images, disk, err, exited, run, faults, history>>

ImageOp(b) ==
  \/ EnsureImagesExists(b) \/ AskExists(b) \/ TryPull(b) \/ DecideBuild(b)
  \/ BuildImage(b) \/ BuildImageByPlatforms(b) \/ Tag(b) \/ Push(b) \/ InspectImage(b)
ContainerOp(b) ==
  \/ CreateContainer(b) \/ StartContainer(b) \/ WaitContainer(b) \/ StopContainer(b) \/ ExecContainer(b)
  \/ CopyContentTo(b) \/ CopyFileTo(b) \/ CopyDirectoryTo(b) \/ CommitContainer(b)
ConfigOp(b) == WriteConfig(b) \/ BindConfig(b) \/ RemoveConfig(b)
StepOp(b) == NextStep(b) \/ Prepare(b) \/ RefuseStep(b) \/ PassMark(b) \/ ConfigOp(b)

Idle(b) == todo[b] = <<>>
Finished(b) == Idle(b) /\ pos[b] = Len(job[b].steps)
RunOver == exited # "no" \/ \A b \in Builds : Finished(b)

Kill ==
  /\ exited = "no" /\ run < MaxRuns
  /\ exited' = "killed"
  /\ UNCHANGED <<images, ctr, disk, todo, err, place, faults, history>>

\* A new process finds images, registries and folders as they were left.
Older(body) == IF body \in {"fresh", "foreign"} THEN "stale" ELSE body
Rerun ==
  /\ RunOver /\ run < MaxRuns
  /\ run' = run + 1
  /\ exited' = "no"
  /\ local' = [i \in Image |-> [local[i] EXCEPT !.body = Older(@)]]
  /\ remote' = [i \in Image |-> [p \in Platform |-> Older(remote[i][p])]]
  /\ disk' = [b \in Builds |-> Older(disk[b])]
  /\ ctr' = [b \in Builds |-> NoContainer]
  /\ pos' = [b \in Builds |-> 0]
  /\ todo' = [b \in Builds |-> <<>>]
  /\ err' = [b \in Builds |-> FALSE]
  /\ skipped' = {} /\ claimed' = {}
  /\ UNCHANGED <<runtime, job, workdir, config, faults>>

Next == (\E b \in Builds : ImageOp(b) \/ ContainerOp(b) \/ StepOp(b)) \/ Kill \/ Rerun

Spec == Init /\ [][Next]_vars

------------------------------------------------------------------------------
(* Properties *)

\* Types: container.go's handles and what the run leaves in the stores.
ContainerState ==
  [state : {"none", "created", "running", "exited", "adrift"}, body : Body \cup {None}, made : Stored,
   config : {"go", "zig", None}]
TypeOK ==
  /\ runtime \in Runtimes /\ job \in Jobs
  /\ local \in [Image -> Stored]
  /\ remote \in [Image -> [Platform -> Body \cup {None}]]
  /\ ctr \in [Builds -> ContainerState]
  /\ disk \in [Builds -> {None, "fresh", "stale", "foreign"}]
  /\ err \in [Builds -> BOOLEAN]
  /\ DOMAIN pos = Builds /\ DOMAIN todo = Builds
  /\ \A b \in Builds :
       /\ pos[b] \in 0..Len(job[b].steps)
       /\ \A k \in DOMAIN todo[b] : todo[b][k].fail \in {"exit", "err", "log", "next", "defer"}
  /\ exited \in {"no", "exit", "panic", "killed"}
  /\ run \in 1..MaxRuns /\ faults \in 0..MaxFaults
  /\ workdir \in BOOLEAN /\ config \in {"go", "zig", None} /\ skipped \subseteq Image
  /\ \A x \in claimed : x.img \in Image

\* A step that has returned has stopped its container or seen it end, whichever
\* of its calls failed (BuildingContainer, Prod, Wait); only where the wait itself
\* failed may the command still run, and then the build fails for it, unless the
\* container was the one that comments on a pull request.  (On the host Stop
\* does nothing and the process runs on.)
Commenting(b) == pos[b] > 0 /\ job[b].steps[pos[b]] = "github" /\ job[b].cfg.pr
NothingLeftRunning ==
  runtime # "host" => \A b \in Builds : exited = "no" /\ Idle(b) =>
    /\ ctr[b].state # "running"
    /\ ctr[b].state = "adrift" => err[b] \/ Commenting(b)

\* An application image that was pushed in a run that compiles it holds what
\* that run compiled, unless the build has already recorded an error (the
\* steps after a failed compilation still run) or the image comes from a
\* custom Dockerfile, which is never rebuilt under a tag that exists; a zig
\* build may publish what another zig build of its group compiled.  (On the
\* host nothing is pushed.)
Compiles(b) == \E k \in DOMAIN job[b].steps : job[b].steps[k] \in CompileStep
OfThisRun(b) == {"fresh"} \cup IF \E c \in Builds : SharesFolder(b, c) THEN {"foreign"} ELSE {}
StaleIsReported ==
  runtime # "host" => \A b \in Builds : \A x \in claimed :
    x.img = AppURI(job[b].cfg) /\ Compiles(b) /\ ~job[b].cfg.custom =>
      x.body \in OfThisRun(b) \/ err[b]

\* A push that returned no error is in the registry, unless the stream of the
\* Docker daemon broke off: Copy sees an error the daemon reports, but not that
\* it could not read on.  (On the host nothing is pushed.)
PushedIsRemote ==
  runtime # "host" => \A x \in claimed :
    remote[x.img][x.plat] = x.body \/ (runtime = "docker" /\ x.cut)

\* No step fails without a cause: a call that failed on its own, a missing
\* token, an image Pull did not look at, a step that is run without the one
\* that prepares it, and with Podman credentials it cannot decode, symbolic
\* links, the scan of an image that was not published, or a tool image that
\* was built and not pushed: Podman pulls again before every Create that names
\* a platform, and who finds the image does not build it.  Either the run that
\* built it was killed, or another build is about to push it.
\* Of two releases with a default configuration the first to end removes the
\* file of both.  On the host a second container finds the folder src of the
\* first one, and a file that is no script (gcloud, github, the secrets) has no
\* place.  The production step of Python runs without an image name as well.
Preparation ==
  {<<"golangci-lint", "golang">>, <<"golang-prod", "golang">>, <<"golang-debian-prod", "golang-debian">>,
   <<"python-prod", "python">>, <<"zig-prod", "zig">>}
Alone(b) ==
  \E k \in 1..pos[b] : \E p \in Preparation :
    job[b].steps[k] = p[1] /\ \A j \in 1..(k - 1) : job[b].steps[j] # p[2]
ScansUnpublished(b) ==
  /\ runtime = "podman" /\ ~Present(World, AppURI(job[b].cfg))
  /\ \E k \in 1..pos[b] : job[b].steps[k] = "trivy"
PushAhead(i) == \E b \in Builds : \E k \in DOMAIN todo[b] : todo[b][k].do = "push" /\ todo[b][k].img = i
BuiltNotPushed ==
  /\ runtime = "podman"
  /\ \E i \in ToolImage : Present(World, i) /\ remote[i][Host] = None /\ (run > 1 \/ PushAhead(i))
Releasing(b) == pos[b] > 0 /\ job[b].steps[pos[b]] = "gorelease" /\ ~Idle(b)
ReleasedTogether ==
  \E b, c \in Builds : b # c /\ \A d \in {b, c} :
    ~job[d].cfg.own /\ \E k \in 1..pos[d] : job[d].steps[k] = "gorelease"
HostRefuses(b) ==
  /\ runtime = "host"
  /\ \/ workdir
     \/ \E k \in 1..pos[b] :
          job[b].steps[k] \in {"gcloud", "github"} \cup IF job[b].cfg.secrets THEN ScriptStep ELSE {}
Nameless(b) ==
  /\ runtime # "host" /\ ~job[b].cfg.image
  /\ \E k \in 1..pos[b] : job[b].steps[k] = "python-prod"
FailuresExplained ==
  exited \in {"exit", "panic"} \/ (\E b \in Builds : err[b]) =>
    \/ faults > 0
    \/ skipped # {}
    \/ BuiltNotPushed
    \/ ReleasedTogether
    \/ \E b \in Builds :
         \/ ~job[b].cfg.token
         \/ Alone(b)
         \/ ScansUnpublished(b)
         \/ HostRefuses(b)
         \/ Nameless(b)
         \/ runtime = "podman" /\ (Auth(b) = "urlsafe" \/ job[b].cfg.links)

\* A release starts with the default configuration of its own language,
\* whatever an earlier run left in /tmp, unless a build of the other language
\* is releasing at the same time (writeDefaultConfigContent).
OwnConfiguration ==
  [][\A b \in Builds :
       ctr[b].config = None /\ ctr'[b].config \notin {None, Language(job[b].cfg)} =>
         \E c \in Builds : c # b /\ Releasing(c) /\ ctr'[b].config = Language(job[c].cfg)]_vars
=============================================================================
