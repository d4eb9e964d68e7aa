----------------------------- MODULE StepPrograms -----------------------------
(***************************************************************************)
(* The build steps of pkg/ as programs of container operations, in the     *)
(* order the code makes them, with what the code does when each fails:     *)
(*   "exit"  os.Exit(1)          "err"   the step returns the error        *)
(*   "log"   logged and ignored  "next"  go on after the next Mark         *)
(*   "defer" return the error after what comes behind the next Mark        *)
(* A program depends on the build: c has the fields name, image (an image  *)
(* name is given), local (LocalEnv), custom (a prod Dockerfile is given),  *)
(* push, tagged (git tag), token (the step's token is set), zig, pr (there *)
(* is a pull request to comment on), commit (auto commit), host (where the *)
(* engine runs), own (the project has a goreleaser configuration), secrets *)
(* (some are named for the container that compiles), auth (the registry    *)
(* credentials: "none", "plain" or "urlsafe" when their encoding needs the *)
(* letters in which the two base64 alphabets differ) and links (what is    *)
(* compiled has symbolic links).                                           *)
(***************************************************************************)
EXTENDS Managers, Sequences

\* GetPlatforms: the platform of the containers, and where the engine runs on
\* another system than they do (macOS) that of the other architecture too.
GetPlatforms(c) == IF c.host = "linux" THEN <<Host>> ELSE <<Host, Alien>>

Base(n) == <<"base", n>>         \* an image of a public registry
Tool(n) == <<"tool", n>>         \* an intermediate image, named by its checksum
\* Those the steps know.
BaseImage ==
  {Base(n) : n \in {"golang", "alpine", "python", "java", "trivy", "packer", "pulumi", "copier", "goreleaser"}}
ToolImage ==
  {Tool(n) : n \in {"go", "go-debian", "go-cgo", "zig", "python", "maven", "protobuf", "packer", "pulumi",
                    "gcloud", "goreleaser-zig", "gh"}}
AppTag(c) == <<c.name, "tag">>   \* Image:ImageTag, only local
AppURI(c) == <<c.name, "uri">>   \* the same in the build's registry

Op(kind, fail) == [do |-> kind, fail |-> fail]
Pull(imgs, fail) == [do |-> "pull", fail |-> fail, imgs |-> imgs]
Create(i, hasPlatform, fail) == [do |-> "create", fail |-> fail, img |-> i, auto |-> hasPlatform]
\* A container may have the working directory mounted at /src.
Start(fail) == [do |-> "start", fail |-> fail, mounts |-> FALSE]
StartIn(fail) == [do |-> "start", fail |-> fail, mounts |-> TRUE]
Put(fail) == [do |-> "put", fail |-> fail, script |-> TRUE]     \* CopyContentTo /tmp/script.sh
PutFile(fail) == [do |-> "put", fail |-> fail, script |-> FALSE] \* CopyContentTo another path
CopyFile(fail) == Op("copyFile", fail)  \* CopyFileTo: what was compiled
CopyDir(fail) == Op("copyDir", fail)    \* CopyDirectoryTo: what was compiled
Exec(fail) == Op("exec", fail)
Wait(makes, fail) == [do |-> "wait", fail |-> fail, makes |-> makes]
Commit(i, fail) == [do |-> "commit", fail |-> fail, img |-> i]
Stop(fail) == Op("stop", fail)
Check(fail) == Op("check", fail)        \* SSHForward, CacheFolder, reading files
Refuse(fail) == Op("refuse", fail)      \* something the step needs is not configured
Inspect(i, fail) == [do |-> "inspect", fail |-> fail, img |-> i]
Mark == Op("mark", "err")
\* goreleaser's default configuration, one file for all builds.
Language(c) == IF c.zig THEN "zig" ELSE "go"
Configure(c) == [do |-> "config", fail |-> "err", language |-> Language(c)]
Bind(fail) == Op("bind", fail)
Unconfigure == Op("unconfig", "err")

\* The source of a tag is an image, or the image id that Commit returned.
\* Every caller asks Push to keep the tag, so that it is Tag and PushImage.
PushCommitted(dst, fail) ==
  <<[do |-> "tagCommit", fail |-> fail, img |-> dst], [do |-> "push", fail |-> fail, img |-> dst]>>
PushImage(src, dst, fail) ==
  <<[do |-> "tag", fail |-> fail, src |-> src, img |-> dst], [do |-> "push", fail |-> fail, img |-> dst]>>
TagCommitted(dst, fail) == [do |-> "tagCommit", fail |-> fail, img |-> dst]

\* BuildIntermidiateContainer: unless the image is there, pull it for every
\* platform; when one of the pulls failed, build and push it.
BuildIntermidiateContainer(i, c, body) ==
  <<[do |-> "ensure", fail |-> "exit", img |-> i, plats |-> GetPlatforms(c), body |-> body,
     left |-> <<>>, missed |-> FALSE, asked |-> FALSE]>>
\* Mutant: the image that was built stays local.
BuildWithoutPush(o) == <<[do |-> "build", fail |-> "exit", img |-> o.img, body |-> o.body]>>
BuildAndPush(o) ==
  <<[do |-> "build", fail |-> "exit", img |-> o.img, body |-> o.body]>>
  \o PushImage(o.img, o.img, "exit")
BuildMulti(o) == <<[do |-> "buildMulti", fail |-> "exit", img |-> o.img, body |-> o.body]>>

\* The script, and the secrets if the build names any.
PutScripts(c) == <<Put("exit")>> \o IF c.secrets THEN <<PutFile("exit")>> ELSE <<>>
\* Mutant: the exit status of the script is only logged.
BuildingContainerLogging(i, c, hasPlatform, makes) ==
  <<Create(i, hasPlatform, "exit")>> \o PutScripts(c) \o <<StartIn("exit"), Wait(makes, "log")>>
BuildingContainer(i, c, hasPlatform, makes) ==
  <<Create(i, hasPlatform, "exit")>> \o PutScripts(c) \o <<StartIn("exit"), Wait(makes, "err")>>

BuildCustomProdImage(c) ==
  BuildIntermidiateContainer(AppTag(c), c, "fresh") \o PushImage(AppTag(c), AppURI(c), "err")

ScriptContainer(i, fail) ==
  <<Create(i, FALSE, "exit"), Put("exit"), Start(fail), Wait(FALSE, fail)>>

------------------------------------------------------------------------------
(* Go, on Alpine: the variant of every build that names none *)

GoPull == <<Pull(<<Base("golang"), Base("alpine")>>, "err")>>
BuildGoImage(c) == BuildIntermidiateContainer(Tool("go"), c, "tool")
GoBuild(c) == <<Check("exit")>> \o BuildingContainer(Tool("go"), c, TRUE, TRUE)
GoRun(c) == GoPull \o BuildGoImage(c) \o GoBuild(c)

\* Mutant: the container is left running.
GoProdContainerRunning(c) ==
  <<Create(Base("alpine"), TRUE, "exit"), Start("exit"), Exec("exit"), CopyFile("exit"),
    Commit(AppTag(c), "exit")>>

\* addgroup, adduser and the inspection of the container are one Exec here.
GoProdContainer(c) ==
  <<Create(Base("alpine"), TRUE, "exit"), Start("exit"), Exec("exit"), CopyFile("exit"),
    Commit(AppTag(c), "exit"), Stop("exit")>>
GoProd(c) ==
  IF c.local \/ ~c.image THEN <<>>
  ELSE IF c.custom THEN BuildCustomProdImage(c)
  ELSE GoProdContainer(c) \o IF c.push THEN PushCommitted(AppURI(c), "exit") ELSE <<>>

\* The linter pulls and builds nothing: it expects the image of GoRun.
GoLint(c) ==
  <<Check("exit"), Create(Tool("go"), FALSE, "exit"), Put("exit"), StartIn("exit"), Wait(FALSE, "err")>>

(* Go on Debian, and on Debian with cgo, which has no production step *)

DebianPull == <<Pull(<<Base("golang"), Base("alpine")>>, "err")>>
BuildDebianImage(c) == BuildIntermidiateContainer(Tool("go-debian"), c, "tool")
DebianBuild(c) == <<Check("exit")>> \o BuildingContainer(Tool("go-debian"), c, FALSE, TRUE)
DebianRun(c) == DebianPull \o BuildDebianImage(c) \o DebianBuild(c)
DebianProd(c) ==
  IF c.local \/ ~c.image THEN <<>>
  ELSE IF c.custom THEN BuildCustomProdImage(c)
  ELSE GoProdContainer(c) \o PushCommitted(AppURI(c), "exit")

CGOPull == <<Pull(<<Base("golang"), Base("alpine")>>, "err")>>
BuildCGOImage(c) == BuildIntermidiateContainer(Tool("go-cgo"), c, "tool")
CGOBuild(c) == <<Check("exit")>> \o BuildingContainer(Tool("go-cgo"), c, TRUE, TRUE)
CGORun(c) == CGOPull \o BuildCGOImage(c) \o CGOBuild(c)

------------------------------------------------------------------------------
(* Zig, Python, Maven *)

\* The container that compiled becomes a local image.
KeepBuilder(c) == IF c.image THEN <<Commit(AppTag(c), "exit"), TagCommitted(AppTag(c), "err")>> ELSE <<>>

\* Every zig build compiles in the working directory, into its zig-out.
BuildZigImage(c) == BuildIntermidiateContainer(Tool("zig"), c, "tool")
ZigBuild(c) == <<Check("exit")>> \o BuildingContainer(Tool("zig"), c, TRUE, TRUE) \o KeepBuilder(c)
ZigRun(c) == <<Pull(<<Base("alpine")>>, "err")>> \o BuildZigImage(c) \o ZigBuild(c)
ZigProd(c) ==
  IF ~c.image THEN <<>>
  ELSE IF c.custom THEN BuildCustomProdImage(c)
  ELSE <<Create(Base("alpine"), TRUE, "exit"), Start("exit"), Exec("exit"), CopyDir("exit"),
         Commit(AppTag(c), "exit"), Stop("exit")>> \o PushCommitted(AppURI(c), "exit")

BuildPythonImage(c) == BuildIntermidiateContainer(Tool("python"), c, "tool")
PythonBuild(c) == <<Check("exit")>> \o BuildingContainer(Tool("python"), c, TRUE, TRUE) \o KeepBuilder(c)
PythonRun(c) == <<Pull(<<Base("python")>>, "err")>> \o BuildPythonImage(c) \o PythonBuild(c)
\* The directory is made, the wheel copied, then the install commands run.
\* Nobody asks for an image name: without one no daemon takes the reference.
PythonProdImage ==
  <<Check("exit"), Create(Base("python"), TRUE, "exit"), Start("exit"), Exec("exit"), CopyDir("exit"),
    Check("exit"), Exec("exit")>>
PythonProd(c, runtime) ==
  LET named == IF c.image \/ runtime = "host" THEN <<>> ELSE <<Refuse("exit")>>
  IN  IF c.custom THEN named \o BuildCustomProdImage(c)
      ELSE PythonProdImage \o named \o <<Commit(AppTag(c), "exit"), Stop("exit")>>
           \o PushCommitted(AppURI(c), "exit")

\* The production step of Maven has no MatchedFn and never runs.
BuildMavenImage(c) == BuildIntermidiateContainer(Tool("maven"), c, "tool")
MavenBuild(c) == <<Check("exit")>> \o BuildingContainer(Tool("maven"), c, FALSE, TRUE)
MavenRun(c) == <<Pull(<<Base("java")>>, "err")>> \o BuildMavenImage(c) \o MavenBuild(c)

------------------------------------------------------------------------------
(* Steps around the compilation *)

\* With Podman the scanner is given the id of the image in the build's registry.
TrivyScan(c, runtime) ==
  <<Check("exit"), Create(Base("trivy"), FALSE, "exit")>>
  \o (IF runtime = "podman" THEN <<Inspect(AppURI(c), "exit")>> ELSE <<>>)
  \o <<Put("exit"), Start("exit"), Wait(FALSE, "exit")>>
TrivyRun(c, runtime) ==
  IF c.local \/ ~c.image THEN <<>>
  ELSE <<Pull(<<Base("trivy")>>, "exit")>> \o TrivyScan(c, runtime)

ProtobufGenerate ==
  <<Create(Tool("protobuf"), TRUE, "exit"), Put("exit"), StartIn("exit"), Wait(FALSE, "exit")>>
ProtobufRun(c) ==
  <<Pull(<<Tool("protobuf")>>, "log")>>
  \o BuildIntermidiateContainer(Tool("protobuf"), c, "tool") \o ProtobufGenerate

BuildPackerImage(c) == BuildIntermidiateContainer(Tool("packer"), c, "tool")
\* Without its token packer succeeds with nothing done.
PackerRelease(c) == IF c.token THEN ScriptContainer(Tool("packer"), "exit") ELSE <<>>
PackerRun(c) == <<Pull(<<Base("packer")>>, "exit")>> \o BuildPackerImage(c) \o PackerRelease(c)

BuildPulumiImage(c) == BuildIntermidiateContainer(Tool("pulumi"), c, "tool")
PulumiRelease == <<Check("exit")>> \o ScriptContainer(Tool("pulumi"), "exit")
PulumiRun(c) == <<Pull(<<Base("pulumi")>>, "exit")>> \o BuildPulumiImage(c) \o PulumiRelease

\* The copier mounts what it needs instead of copying it in.
CopierExecute == <<Check("err"), Create(Base("copier"), FALSE, "exit"), StartIn("err"), Wait(FALSE, "err")>>
CopierRun(c) == <<Pull(<<Base("copier")>>, "err")>> \o CopierExecute

BuildGCloudImage(c) == BuildIntermidiateContainer(Tool("gcloud"), c, "tool")
GCloudAuth ==
  <<Check("err"), Create(Tool("gcloud"), FALSE, "exit"), PutFile("exit"), StartIn("err"), Wait(FALSE, "err")>>
GCloudRun(c) == BuildGCloudImage(c) \o GCloudAuth

BuildReleaserImage(c) ==
  IF c.zig THEN BuildIntermidiateContainer(Tool("goreleaser-zig"), c, "tool") ELSE <<>>
\* Without a configuration of the project the default is written to a file that
\* the container mounts; Docker looks for it when it creates the container, and
\* it is there for the tool when the container starts.
GoReleaserRelease(c, runtime) ==
  LET container == Create(IF c.zig THEN Tool("goreleaser-zig") ELSE Base("goreleaser"), FALSE, "exit")
  IN  (IF c.token THEN <<>> ELSE <<Refuse("err")>>)
      \o <<Check("exit")>>
      \o IF c.own THEN <<container, Start("err"), Wait(FALSE, "err")>>
         ELSE <<Configure(c)>>
              \o (IF runtime = "docker" THEN <<Bind("exit")>> ELSE <<>>)
              \o <<container, Bind("defer"), Start("defer"), Wait(FALSE, "defer"), Mark, Unconfigure>>
GoReleaserRun(c, runtime) ==
  IF ~c.tagged THEN <<>>
  ELSE <<Pull(<<Base("goreleaser")>>, "err")>> \o BuildReleaserImage(c) \o GoReleaserRelease(c, runtime)

\* A failed comment is logged and the commit goes on.
GithubComment ==
  <<Check("exit"), Check("next"), Create(Tool("gh"), FALSE, "exit"), Put("exit"), StartIn("next"),
    Wait(FALSE, "next"), Mark>>
GithubCommit ==
  <<Check("exit"), Create(Tool("gh"), FALSE, "exit"), PutFile("err"), StartIn("err"), Wait(FALSE, "err")>>
BuildGithubImage(c) == BuildIntermidiateContainer(Tool("gh"), c, "tool")
GithubRun(c) ==
  IF ~c.pr /\ ~c.commit THEN <<>>
  ELSE BuildGithubImage(c)
       \o (IF c.pr THEN GithubComment ELSE <<>>)
       \o IF c.commit THEN GithubCommit ELSE <<>>

StepName ==
  {"gcloud", "copier", "protobuf", "packer", "golang", "golang-debian", "golang-debiancgo", "maven", "python",
   "zig", "golang-prod", "golang-debian-prod", "python-prod", "zig-prod", "golangci-lint", "trivy", "pulumi",
   "gorelease", "github"}
\* The steps that run a script in a container of their own (BuildingContainer).
ScriptStep == {"golang", "golang-debian", "golang-debiancgo", "zig", "python", "maven"}
\* The steps that compile what a production step packages.
CompileStep == {"golang", "golang-debian", "zig", "python"}
ProdStep == {"golang-prod", "golang-debian-prod", "python-prod", "zig-prod"}

Program(step, c, runtime) ==
  CASE step = "gcloud" -> GCloudRun(c)
    [] step = "copier" -> CopierRun(c)
    [] step = "protobuf" -> ProtobufRun(c)
    [] step = "packer" -> PackerRun(c)
    [] step = "golang" -> GoRun(c)
    [] step = "golang-debian" -> DebianRun(c)
    [] step = "golang-debiancgo" -> CGORun(c)
    [] step = "maven" -> MavenRun(c)
    [] step = "python" -> PythonRun(c)
    [] step = "zig" -> ZigRun(c)
    [] step = "golang-prod" -> GoProd(c)
    [] step = "golang-debian-prod" -> DebianProd(c)
    [] step = "python-prod" -> PythonProd(c, runtime)
    [] step = "zig-prod" -> ZigProd(c)
    [] step = "golangci-lint" -> GoLint(c)
    [] step = "trivy" -> TrivyRun(c, runtime)
    [] step = "pulumi" -> PulumiRun(c)
    [] step = "gorelease" -> GoReleaserRun(c, runtime)
    [] step = "github" -> GithubRun(c)
=============================================================================
