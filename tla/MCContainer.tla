------------------------------ MODULE MCContainer ------------------------------
(* One or two builds, every step somewhere, fresh and used image stores.    *)
EXTENDS Container

MCCfg(n) ==
  [name |-> n, image |-> TRUE, local |-> FALSE, custom |-> FALSE, push |-> TRUE, tagged |-> TRUE,
   token |-> TRUE, zig |-> FALSE, pr |-> TRUE, commit |-> TRUE, host |-> "linux",
   auth |-> "plain", links |-> FALSE, own |-> FALSE, secrets |-> FALSE]
One(cfg, steps) == [b \in {"b1"} |-> [cfg |-> cfg, steps |-> steps]]
Both(cfg1, steps1, cfg2, steps2) ==
  [b \in {"b1", "b2"} |-> IF b = "b1" THEN [cfg |-> cfg1, steps |-> steps1] ELSE [cfg |-> cfg2, steps |-> steps2]]
B1 == MCCfg("b1")
B2 == MCCfg("b2")
Z1 == [B1 EXCEPT !.zig = TRUE]
Z2 == [B2 EXCEPT !.zig = TRUE]

MCJobs ==
  { One(B1, <<"gcloud", "copier", "protobuf", "golang", "golang-prod", "trivy", "gorelease", "github">>),
    One(B1, <<"golang", "golangci-lint", "pulumi">>),
    One([B1 EXCEPT !.push = FALSE], <<"golang", "golang-prod", "trivy">>),
    One([B1 EXCEPT !.host = "darwin"], <<"golang-debian", "golang-debian-prod">>),
    One([B1 EXCEPT !.token = FALSE], <<"golang-debiancgo", "gorelease">>),
    One([Z1 EXCEPT !.own = TRUE, !.host = "darwin"], <<"zig", "zig-prod", "gorelease">>),
    One([B1 EXCEPT !.custom = TRUE, !.host = "darwin"], <<"python", "python-prod">>),
    One([Z1 EXCEPT !.image = FALSE, !.pr = FALSE], <<"zig", "zig-prod", "github">>),
    One([B1 EXCEPT !.image = FALSE], <<"python", "python-prod">>),
    One([B1 EXCEPT !.image = FALSE, !.custom = TRUE, !.secrets = TRUE], <<"python", "python-prod">>),
    One([B1 EXCEPT !.local = TRUE], <<"golang", "golang-prod">>),
    One([B1 EXCEPT !.links = TRUE], <<"python", "python-prod">>),
    One([Z1 EXCEPT !.auth = "urlsafe"], <<"zig", "zig-prod">>),
    One([B1 EXCEPT !.secrets = TRUE, !.commit = FALSE], <<"maven", "github">>),
    One(B1, <<"golangci-lint">>),
    One(B1, <<"packer">>),
    Both(B1, <<"golang", "golang-prod">>, B2, <<"python", "python-prod">>),
    Both(Z1, <<"zig", "zig-prod">>, Z2, <<"zig", "zig-prod">>),
    Both(B1, <<"gorelease">>, Z2, <<"gorelease">>),
    Both(B1, <<"golang-debiancgo">>, B2, <<"golang-debiancgo">>) }

MCImage == BaseImage \cup ToolImage \cup {AppTag(B1), AppURI(B1), AppTag(B2), AppURI(B2)}

With(have) ==
  [i \in MCImage |-> IF i \in DOMAIN have THEN [plat |-> have[i], body |-> i[1]] ELSE Absent]
MCStores ==
  { With(<<>>),
    With([i \in {Base("golang"), Base("alpine"), Tool("go")} |-> Host]),
    With([i \in {Base("golang"), Tool("zig")} |-> Alien]) }

\* The base images are published for every platform, of the tool images the
\* one for Go on this platform.
MCRegistry ==
  [i \in MCImage |-> [p \in Platform |->
     IF i[1] = "base" THEN "base" ELSE IF i = Tool("go") /\ p = Host THEN "tool" ELSE None]]
=============================================================================
