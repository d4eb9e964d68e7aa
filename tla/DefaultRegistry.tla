---------------------------- MODULE DefaultRegistry ----------------------------
(***************************************************************************)
(* The steps InitBuildSteps of cmd/engine.go registers, in list order,     *)
(* and when each of them matches a build (their Matches functions).        *)
(*                                                                         *)
(* A build is a record: its BuildType, the value of Custom["from"]         *)
(* ("unset" for none; nothing checks it), and the set of switches that are *)
(* on: custom options set to "true", environment variables, files and      *)
(* fields the steps look at.                                               *)
(***************************************************************************)
EXTENDS Integers, Sequences, FiniteSets

BuildType == {"GoLang", "Maven", "Python", "NodeJS", "Typescript", "Zig", "Rust", "AI", "Generic"}
Variant == {"unset", "alpine", "debian", "debiancgo"}   \* the values of "from" a step looks for
Switch == {"gcloud_oidc", "copier.yml", "sourceFiles", "packer", "SONAR_TOKEN",
           "remoteImage", "pulumi", "goreleaser"}

Entry(name, alias, type, async) == [name |-> name, alias |-> alias, type |-> type, async |-> async]

EngineSteps ==
  << Entry("gcloud_oidc", "oidc", "", FALSE),
     Entry("copier", "copier", "", FALSE),
     Entry("protobuf", "protobuf", "", FALSE),
     Entry("packer", "packer", "", FALSE),
     Entry("golang", "build", "GoLang", FALSE),        \* 5: alpine
     Entry("golang", "build", "GoLang", FALSE),        \* 6: debian
     Entry("golang", "build", "GoLang", FALSE),        \* 7: debiancgo
     Entry("maven", "build", "Maven", FALSE),
     Entry("python", "build", "Python", FALSE),
     Entry("zig", "build", "Zig", FALSE),
     Entry("golang-prod", "push", "GoLang", FALSE),    \* 11: alpine
     Entry("golang-prod", "push", "GoLang", FALSE),    \* 12: debian
     Entry("maven-prod", "push", "Maven", FALSE),
     Entry("python-prod", "push", "Python", FALSE),
     Entry("zig-prod", "push", "Zig", FALSE),
     Entry("golangci-lint", "lint", "GoLang", TRUE),
     Entry("sonarcloud", "sonar", "", TRUE),
     Entry("trivy", "trivy", "", FALSE),
     Entry("pulumi", "pulumi", "", FALSE),
     Entry("gorelease", "release", "", FALSE),
     Entry("github", "github", "", TRUE),
     Entry("dummy", "dummy", "Generic", FALSE) >>

\* Mutant: the alpine variant takes every Go build.
MatchesAlpineAll(b) == b.type = "GoLang"

\* The Go variants look at Custom["from"]; no value means alpine,
\* and with a value none of them knows no step compiles the build.
MatchesAlpine(b) == b.type = "GoLang" /\ b.from \in {"unset", "alpine"}
MatchesDebian(b) == b.type = "GoLang" /\ b.from = "debian"
MatchesDebianCGO(b) == b.type = "GoLang" /\ b.from = "debiancgo"

MatchesGoreleaser(b) == b.type \in {"GoLang", "Zig"} /\ "goreleaser" \in b.on

\* Mutant: the debian production step is given the alpine variant's Matches.
MatchedCopied(b) ==
  << "gcloud_oidc" \in b.on, "copier.yml" \in b.on,
     b.type = "GoLang" /\ "sourceFiles" \in b.on, b.type = "Generic" /\ "packer" \in b.on,
     MatchesAlpine(b), MatchesDebian(b), MatchesDebianCGO(b),
     b.type = "Maven", b.type = "Python", b.type = "Zig",
     MatchesAlpine(b), MatchesAlpine(b), FALSE, b.type = "Python", b.type = "Zig",
     MatchesAlpine(b), "SONAR_TOKEN" \in b.on, "remoteImage" \in b.on,
     b.type = "GoLang" /\ "pulumi" \in b.on, MatchesGoreleaser(b), TRUE, TRUE >>

\* Per step, whether it matches. The Maven production step sets no MatchedFn,
\* and Stepper.Matches is false without one.
Matched(b) ==
  << "gcloud_oidc" \in b.on, "copier.yml" \in b.on,
     b.type = "GoLang" /\ "sourceFiles" \in b.on, b.type = "Generic" /\ "packer" \in b.on,
     MatchesAlpine(b), MatchesDebian(b), MatchesDebianCGO(b),
     b.type = "Maven", b.type = "Python", b.type = "Zig",
     MatchesAlpine(b), MatchesDebian(b), FALSE, b.type = "Python", b.type = "Zig",
     MatchesAlpine(b), "SONAR_TOKEN" \in b.on, "remoteImage" \in b.on,
     b.type = "GoLang" /\ "pulumi" \in b.on, MatchesGoreleaser(b), TRUE, TRUE >>

MatchedSteps(b) == {k \in 1..Len(EngineSteps) : Matched(b)[k]}
=============================================================================
