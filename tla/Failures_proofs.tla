---------------------------- MODULE Failures_proofs ----------------------------
(***************************************************************************)
(* Proofs about the containers, continued: the causes that                 *)
(* FailuresExplained names for the failure of a step are all there are,    *)
(* for any builds, jobs, managers and stores, any number of failing calls, *)
(* of kills and of runs.  While none of them is there, what is ahead of    *)
(* each build finds whatever it needs.                                     *)
(***************************************************************************)
EXTENDS Container_proofs, TLAPS

-----------------------------------------------------------------------------
(* Why a step fails.  While nothing has gone wrong from outside, every      *)
(* operation finds what it needs: an image some operation before it, or a   *)
(* step before its step, has provided.                                      *)

\* Nothing of what explains a failure has happened, but that an image is not
\* published.
Calm ==
  /\ faults = 0 /\ skipped = {} /\ ~ReleasedTogether
  /\ \A b \in Builds :
       /\ job[b].cfg.token /\ ~Alone(b) /\ ~HostRefuses(b) /\ ~Nameless(b)
       /\ runtime = "podman" => Auth(b) # "urlsafe" /\ ~job[b].cfg.links
Unpublished == BuiltNotPushed \/ \E b \in Builds : ScansUnpublished(b)

Needs(o) == IF o.do \in {"create", "push"} THEN {o.img} ELSE IF o.do = "tag" THEN {o.src} ELSE {}
Gives(o) ==
  IF o.do = "pull" THEN Range(o.imgs) \cap BaseImage
  ELSE IF o.do \in {"ensure", "build", "buildMulti", "tag", "tagCommit"} THEN {o.img} ELSE {}
Coming(s, k, i) == \E j \in 1..(k - 1) : i \in Gives(s[j])

\* Before k something of the kinds K happens and then nothing of the kinds B.
Since(s, k, K, B) == \E j \in 1..(k - 1) : s[j].do \in K /\ \A m \in (j + 1)..(k - 1) : s[m].do \notin B
Clear(s, k, B) == \A m \in 1..(k - 1) : s[m].do \notin B
Holds(s, k, K, B, now) == Since(s, k, K, B) \/ (now /\ Clear(s, k, B))
Ended == {"create", "wait", "stop"}
\* The operation k of s finds what it needs, given the images G and what x
\* says of the build's container and of goreleaser's file.
Fits(s, k, G, x) ==
  /\ \A i \in Needs(s[k]) : i \in G \/ Coming(s, k, i)
  /\ s[k].do = "tagCommit" => Holds(s, k, {"commit"}, {"create"}, x.made)
  /\ s[k].do = "exec" => Holds(s, k, {"start"}, Ended, x.running)
  /\ s[k].do = "bind" => Holds(s, k, {"config"}, {"unconfig"}, x.configured)
RunsThrough(s, G, x) == \A k \in 1..Len(s) : Fits(s, k, G, x)

\* What can be said of an operation of a step by itself.
Sane(o, step, c, r) ==
  /\ o.do = "pull" => \/ o.fail = "log" /\ \A i \in Range(o.imgs) : i \notin BaseImage
                      \/ Range(o.imgs) \subseteq BaseImage
  /\ o.do = "ensure" => o.plats = GetPlatforms(c) /\ (c.host = "linux" => o.left \in Seq({Host}))
  /\ o.do = "build" => c.host = "linux"
  /\ o.do = "push" /\ o.img \in ToolImage => c.host = "linux"
  /\ o.do = "refuse" => ~c.token \/ (step = "python-prod" /\ ~c.image /\ r # "host")
  /\ o.do = "put" /\ ~o.script => step \in {"gcloud", "github"} \cup IF c.secrets THEN ScriptStep ELSE {}
  /\ o.do \in Copies => step \in ProdStep
  /\ o.do = "inspect" => step = "trivy" /\ r = "podman"
  /\ o.do \in {"bind", "config", "unconfig"} => step = "gorelease" /\ ~c.own
SaneAt(b) == \A k \in 1..Len(todo[b]) : Sane(todo[b][k], Current(b), job[b].cfg, runtime)

\* A tool image of this machine's platform that Podman finds is, or will be,
\* in the registry, unless a run was killed.
Pullable(i) ==
  \/ runtime = "docker" /\ local[i].plat = Host
  \/ runtime = "podman" /\ (remote[i][Host] # None \/ run > 1 \/ PushAhead(i))
Available(i) == runtime = "host" \/ (Present(World, i) /\ (i \in ToolImage => Pullable(i)))
Provided == {i \in Image : Available(i)}
Standing(b) ==
  [made |-> runtime = "host" \/ ctr[b].made # Absent,
   running |-> runtime = "host" \/ ctr[b].state = "running",
   configured |-> config # None]

BaseOffered == \A i \in BaseImage : remote[i][Host] # None
ToolsPullable == \A i \in ToolImage : runtime = "podman" /\ local[i].plat = Host => Pullable(i)
ForwardAt(b) == RunsThrough(todo[b], Provided, Standing(b))
\* While the pulls of an image succeed it is available.
AskedAt(b) ==
  \A k \in 1..Len(todo[b]) : LET o == todo[b][k] IN
    o.do = "ensure" =>
      IF o.asked THEN k = 1 /\ (o.left = o.plats \/ o.missed \/ Available(o.img)) ELSE ~o.missed
\* A tool image that was built is pushed next.
ChainedAt(b) ==
  runtime = "podman" => \A k \in 1..Len(todo[b]) : LET o == todo[b][k] IN
    o.do \in {"build", "push"} /\ o.img \in ToolImage =>
      /\ o.do = "build" => \E l \in (k + 1)..Len(todo[b]) : todo[b][l].do = "push" /\ todo[b][l].img = o.img
      /\ o.do = "push" =>
           /\ \A j \in 1..(k - 1) : todo[b][j].do \in {"build", "tag"}
           /\ local[o.img].plat = Host \/ (k > 1 /\ todo[b][1].do = "build" /\ todo[b][1].img = o.img)

\* What a step relies on its preparation for, and what it leaves.
Prepared(step) ==
  CASE step = "golangci-lint" -> {Tool("go")}
    [] step \in {"golang-prod", "golang-debian-prod", "zig-prod"} -> {Base("alpine")}
    [] step = "python-prod" -> {Base("python")}
    [] OTHER -> {}
Leaves(step) ==
  CASE step = "golang" -> {Tool("go"), Base("alpine")}
    [] step \in {"golang-debian", "zig"} -> {Base("alpine")}
    [] step = "python" -> {Base("python")}
    [] OTHER -> {}
LeftAt(b) ==
  \A k \in 1..pos[b] : \A i \in Leaves(job[b].steps[k]) :
    Available(i) \/ (k = pos[b] /\ \E j \in 1..Len(todo[b]) : i \in Gives(todo[b][j]))

FineAt(b) == SaneAt(b) /\ ForwardAt(b) /\ AskedAt(b) /\ ChainedAt(b) /\ LeftAt(b)
Fine == ToolsPullable /\ \A b \in Builds : FineAt(b)
Explains ==
  /\ BaseOffered
  /\ Calm => \A b \in Builds : ~err[b]
  /\ exited \in {"exit", "panic"} => ~Calm \/ Unpublished
  /\ Calm /\ exited = "no" => Fine

LEMMA HoldsJoined ==
  ASSUME NEW s, NEW t, NEW u, Len(s) \in Nat, Len(t) \in Nat, Joined(s, t, u), NEW K, NEW B, NEW x, NEW y
  PROVE  /\ \A k \in 1..(Len(s) + 1) : Holds(s, k, K, B, x) => Holds(u, k, K, B, x)
         /\ (y => Holds(s, Len(s) + 1, K, B, x)) =>
              \A k \in 1..(Len(t) + 1) : Holds(t, k, K, B, y) => Holds(u, Len(s) + k, K, B, x)
<1> DEFINE n == Len(s)
<1>1. /\ Len(u) = n + Len(t) /\ n \in Nat
      /\ \A k \in 1..n : u[k] = s[k]
      /\ \A k \in 1..Len(t) : u[k + n] = t[k]
  BY DEF Joined
<1> HIDE DEF n
<1>2. ASSUME NEW k \in 1..(n + 1)
      PROVE  /\ Since(s, k, K, B) => Since(u, k, K, B)
             /\ Clear(s, k, B) => Clear(u, k, B)
  <2>1. \A m \in 1..(k - 1) : u[m] = s[m]
    BY <1>1
  <2>2. ASSUME Since(s, k, K, B) PROVE Since(u, k, K, B)
    <3>1. PICK j \in 1..(k - 1) : s[j].do \in K /\ \A m \in (j + 1)..(k - 1) : s[m].do \notin B
      BY <2>2 DEF Since
    <3>2. \A m \in (j + 1)..(k - 1) : m \in 1..(k - 1)
      OBVIOUS
    <3>3. u[j].do \in K /\ \A m \in (j + 1)..(k - 1) : u[m].do \notin B
      BY <2>1, <3>1, <3>2
    <3> QED
      BY <3>3 DEF Since
  <2>3. Clear(s, k, B) => Clear(u, k, B)
    BY <2>1 DEF Clear
  <2> QED
    BY <2>2, <2>3
<1>3. ASSUME NEW k \in 1..(Len(t) + 1)
      PROVE  /\ Since(t, k, K, B) => Since(u, n + k, K, B)
             /\ Clear(t, k, B) /\ Since(u, n + 1, K, B) => Since(u, n + k, K, B)
             /\ Clear(t, k, B) /\ Clear(u, n + 1, B) => Clear(u, n + k, B)
  <2>1. \A m \in (n + 1)..((n + k) - 1) : m - n \in 1..(k - 1) /\ u[m] = t[m - n]
    <3> TAKE m \in (n + 1)..((n + k) - 1)
    <3>1. m - n \in 1..(k - 1) /\ m - n \in 1..Len(t) /\ (m - n) + n = m
      BY <1>1
    <3> QED
      BY <1>1, <3>1
  <2>2. ASSUME Since(t, k, K, B) PROVE Since(u, n + k, K, B)
    <3>1. PICK j \in 1..(k - 1) : t[j].do \in K /\ \A m \in (j + 1)..(k - 1) : t[m].do \notin B
      BY <2>2 DEF Since
    <3>2. j + n \in 1..((n + k) - 1) /\ j \in 1..Len(t)
      BY <1>1
    <3>3. u[j + n].do \in K
      BY <1>1, <3>1, <3>2
    <3>4. ASSUME NEW m \in ((j + n) + 1)..((n + k) - 1) PROVE u[m].do \notin B
      <4>1. m \in (n + 1)..((n + k) - 1) /\ m - n \in (j + 1)..(k - 1)
        BY <1>1
      <4> QED
        BY <2>1, <3>1, <4>1
    <3> QED
      BY <3>2, <3>3, <3>4 DEF Since
  <2>3. ASSUME Clear(t, k, B) PROVE \A m \in (n + 1)..((n + k) - 1) : u[m].do \notin B
    BY <2>1, <2>3 DEF Clear
  <2>4. ASSUME Clear(t, k, B), Since(u, n + 1, K, B) PROVE Since(u, n + k, K, B)
    <3>1. PICK j \in 1..((n + 1) - 1) : u[j].do \in K /\ \A m \in (j + 1)..((n + 1) - 1) : u[m].do \notin B
      BY <2>4 DEF Since
    <3>2. j \in 1..((n + k) - 1)
      BY <1>1
    <3>3. ASSUME NEW m \in (j + 1)..((n + k) - 1) PROVE u[m].do \notin B
      <4>1. m \in (j + 1)..((n + 1) - 1) \/ m \in (n + 1)..((n + k) - 1)
        BY <1>1
      <4> QED
        BY <2>3, <2>4, <3>1, <4>1
    <3> QED
      BY <3>1, <3>2, <3>3 DEF Since
  <2>5. ASSUME Clear(t, k, B), Clear(u, n + 1, B) PROVE Clear(u, n + k, B)
    <3>1. ASSUME NEW m \in 1..((n + k) - 1) PROVE u[m].do \notin B
      <4>1. m \in 1..((n + 1) - 1) \/ m \in (n + 1)..((n + k) - 1)
        BY <1>1
      <4> QED
        BY <2>3, <2>5, <4>1 DEF Clear
    <3> QED
      BY <3>1 DEF Clear
  <2> QED
    BY <2>2, <2>4, <2>5
<1>4. n + 1 \in 1..(n + 1)
  BY <1>1
<1> QED
  BY <1>2, <1>3, <1>4 DEF Holds, n

LEMMA HoldsRest ==
  ASSUME NEW s, NEW t, Len(s) \in Nat, Len(s) > 0, Rest(s, 1, t), NEW K, NEW B, NEW x, NEW k \in 1..(Len(t) + 1),
         Holds(s, k + 1, K, B, x)
  PROVE  Holds(t, k, K, B, s[1].do \in K \/ (x /\ s[1].do \notin B))
<1>1. \A m \in 1..(k - 1) : m + 1 \in 2..k /\ t[m] = s[m + 1]
  BY DEF Rest
<1>2. CASE Clear(s, k + 1, B) /\ x
  <2>1. \A m \in 1..((k + 1) - 1) : s[m].do \notin B
    BY <1>2 DEF Clear
  <2>2. Clear(t, k, B)
    BY <1>1, <2>1 DEF Clear
  <2>3. s[1].do \notin B
    BY <2>1
  <2> QED
    BY <1>2, <2>2, <2>3 DEF Holds
<1>3. CASE Since(s, k + 1, K, B)
  <2>1. PICK j \in 1..((k + 1) - 1) : s[j].do \in K /\ \A m \in (j + 1)..((k + 1) - 1) : s[m].do \notin B
    BY <1>3 DEF Since
  <2>2. CASE j = 1
    <3>1. \A m \in 1..(k - 1) : t[m].do \notin B
      BY <1>1, <2>1, <2>2
    <3> QED
      BY <2>1, <2>2, <3>1 DEF Holds, Clear
  <2>3. CASE j # 1
    <3>1. j - 1 \in 1..(k - 1) /\ t[j - 1] = s[j]
      BY <1>1, <2>3
    <3>2. \A m \in ((j - 1) + 1)..(k - 1) : t[m].do \notin B
      BY <1>1, <2>1, <2>3
    <3>3. Since(t, k, K, B)
      BY <2>1, <3>1, <3>2 DEF Since
    <3> QED
      BY <3>3 DEF Holds
  <2> QED
    BY <2>2, <2>3
<1> QED
  BY <1>2, <1>3 DEF Holds

LEMMA ComingJoined ==
  ASSUME NEW s, NEW t, NEW u, Len(s) \in Nat, Len(t) \in Nat, Joined(s, t, u), NEW i
  PROVE  /\ \A k \in 1..(Len(s) + 1) : Coming(s, k, i) => Coming(u, k, i)
         /\ \A k \in 1..(Len(t) + 1) :
              Coming(t, k, i) \/ Coming(s, Len(s) + 1, i) => Coming(u, Len(s) + k, i)
<1> DEFINE n == Len(s)
<1>1. /\ n \in Nat
      /\ \A k \in 1..n : u[k] = s[k]
      /\ \A k \in 1..Len(t) : u[k + n] = t[k]
  BY DEF Joined
<1> HIDE DEF n
<1>2. ASSUME NEW k \in 1..(n + 1), Coming(s, k, i) PROVE Coming(u, k, i)
  <2>1. \A j \in 1..(k - 1) : u[j] = s[j]
    BY <1>1
  <2> QED
    BY <1>2, <2>1 DEF Coming
<1>3. ASSUME NEW k \in 1..(Len(t) + 1), Coming(t, k, i) PROVE Coming(u, n + k, i)
  <2>1. \A j \in 1..(k - 1) : j + n \in 1..((n + k) - 1) /\ u[j + n] = t[j]
    BY <1>1
  <2> QED
    BY <1>3, <2>1 DEF Coming
<1>4. ASSUME NEW k \in 1..(Len(t) + 1), Coming(s, n + 1, i) PROVE Coming(u, n + k, i)
  <2>1. \A j \in 1..((n + 1) - 1) : j \in 1..((n + k) - 1) /\ u[j] = s[j]
    BY <1>1
  <2> QED
    BY <1>4, <2>1 DEF Coming
<1> QED
  BY <1>2, <1>3, <1>4 DEF n

\* The operations of a step that has not begun.
FitOps(step, c, r) ==
  {o \in AnyOps(c) \cup WaitOps(FailKind) :
     /\ Sane(o, step, c, r)
     /\ o.do \notin {"build", "buildMulti"} /\ (o.do = "push" => o.img \notin ToolImage)
     /\ o.do = "ensure" => ~o.asked /\ ~o.missed}
\* After s.
Then(s, x, y) ==
  LET k == Len(s) + 1 IN
  /\ y.made => Holds(s, k, {"commit"}, {"create"}, x.made)
  /\ y.running => Holds(s, k, {"start"}, Ended, x.running)
  /\ y.configured => Holds(s, k, {"config"}, {"unconfig"}, x.configured)
\* Given the images G the program s runs through, and then there are those of W.
Takes(s, G, x, W, y, F) ==
  /\ s \in Seq(F) /\ RunsThrough(s, G, x) /\ Then(s, x, y)
  /\ \A i \in W : i \in G \/ Coming(s, Len(s) + 1, i)

\* One program behind another one.
LEMMA RunsJoined ==
  ASSUME NEW s, NEW t, NEW u, Len(s) \in Nat, Len(t) \in Nat, Joined(s, t, u), NEW G, NEW W, NEW x, NEW y,
         RunsThrough(s, G, x), RunsThrough(t, W, y), Then(s, x, y),
         \A i \in W : i \in G \/ Coming(s, Len(s) + 1, i)
  PROVE  RunsThrough(u, G, x)
<1>1. /\ Len(u) = Len(s) + Len(t)
      /\ \A k \in 1..Len(s) : u[k] = s[k]
      /\ \A k \in 1..Len(t) : u[k + Len(s)] = t[k]
  BY DEF Joined
<1> DEFINE HJ(K, B, p, q) ==
             /\ \A k \in 1..(Len(s) + 1) : Holds(s, k, K, B, p) => Holds(u, k, K, B, p)
             /\ (q => Holds(s, Len(s) + 1, K, B, p)) =>
                  \A k \in 1..(Len(t) + 1) : Holds(t, k, K, B, q) => Holds(u, Len(s) + k, K, B, p)
<1>2. \A K, B, p, q : HJ(K, B, p, q)
  BY HoldsJoined
<1>3. /\ HJ({"commit"}, {"create"}, x.made, y.made)
      /\ HJ({"start"}, Ended, x.running, y.running)
      /\ HJ({"config"}, {"unconfig"}, x.configured, y.configured)
  BY <1>2
<1>4. \A i : /\ \A k \in 1..(Len(s) + 1) : Coming(s, k, i) => Coming(u, k, i)
             /\ \A k \in 1..(Len(t) + 1) :
                  Coming(t, k, i) \/ Coming(s, Len(s) + 1, i) => Coming(u, Len(s) + k, i)
  BY ComingJoined
<1>5. ASSUME NEW k \in 1..Len(s) PROVE Fits(u, k, G, x)
  <2>1. Fits(s, k, G, x) /\ u[k] = s[k] /\ k \in 1..(Len(s) + 1)
    BY <1>1 DEF RunsThrough
  <2> QED
    BY <1>3, <1>4, <2>1 DEF Fits
<1>6. ASSUME NEW k \in 1..Len(t) PROVE Fits(u, Len(s) + k, G, x)
  <2>1. Fits(t, k, W, y) /\ u[Len(s) + k] = t[k] /\ k \in 1..(Len(t) + 1)
    BY <1>1 DEF RunsThrough
  <2> QED
    BY <1>3, <1>4, <2>1 DEF Fits, Then
<1>7. ASSUME NEW k \in 1..Len(u) PROVE Fits(u, k, G, x)
  <2>1. k \in 1..Len(s) \/ (k - Len(s) \in 1..Len(t) /\ Len(s) + (k - Len(s)) = k)
    BY <1>1
  <2> QED
    BY <1>5, <1>6, <2>1
<1> QED
  BY <1>7 DEF RunsThrough

LEMMA TakesJoined ==
  ASSUME NEW s, NEW t, NEW G, NEW x, NEW W, NEW y, NEW J, NEW z, NEW F, Takes(s, G, x, W, y, F), Takes(t, W, y, J, z, F)
  PROVE  Takes(s \o t, G, x, J, z, F)
<1> DEFINE u == s \o t
<1>1. s \in Seq(F) /\ t \in Seq(F)
  BY DEF Takes
<1>2. u \in Seq(F) /\ Joined(s, t, u) /\ Len(s) \in Nat /\ Len(t) \in Nat
  BY <1>1, JoinedConcat
<1>3. Len(u) = Len(s) + Len(t)
  BY <1>2 DEF Joined
<1> HIDE DEF u
<1>4. RunsThrough(u, G, x)
  BY <1>2, RunsJoined DEF Takes
<1>5. Len(u) + 1 = Len(s) + (Len(t) + 1) /\ Len(t) + 1 \in 1..(Len(t) + 1)
  BY <1>2, <1>3
<1>6. \A i : Coming(t, Len(t) + 1, i) \/ Coming(s, Len(s) + 1, i) => Coming(u, Len(u) + 1, i)
  BY <1>2, <1>5, ComingJoined
<1>7. \A i \in J : i \in G \/ Coming(u, Len(u) + 1, i)
  BY <1>6 DEF Takes
<1>8. ASSUME NEW K, NEW B, NEW p, NEW q, q => Holds(s, Len(s) + 1, K, B, p), Holds(t, Len(t) + 1, K, B, q)
      PROVE  Holds(u, Len(u) + 1, K, B, p)
  <2>1. (q => Holds(s, Len(s) + 1, K, B, p)) =>
          \A k \in 1..(Len(t) + 1) : Holds(t, k, K, B, q) => Holds(u, Len(s) + k, K, B, p)
    BY <1>2, HoldsJoined
  <2>2. \A k \in 1..(Len(t) + 1) : Holds(t, k, K, B, q) => Holds(u, Len(s) + k, K, B, p)
    BY <1>8, <2>1
  <2> QED
    BY <1>5, <1>8, <2>2
<1>9. Then(u, x, z)
  <2>1. Then(s, x, y) /\ Then(t, y, z)
    BY DEF Takes
  <2>2. z.made => Holds(u, Len(u) + 1, {"commit"}, {"create"}, x.made)
    BY <1>8, <2>1 DEF Then
  <2>3. z.running => Holds(u, Len(u) + 1, {"start"}, Ended, x.running)
    BY <1>8, <2>1 DEF Then
  <2>4. z.configured => Holds(u, Len(u) + 1, {"config"}, {"unconfig"}, x.configured)
    BY <1>8, <2>1 DEF Then
  <2> QED
    BY <2>2, <2>3, <2>4 DEF Then
<1> QED
  BY <1>2, <1>4, <1>7, <1>9 DEF Takes, u

Nothing == [made |-> FALSE, running |-> FALSE, configured |-> FALSE]
\* Operations that need nothing from other operations, or a container of an
\* image of G.
Simple(G, step, c, r) ==
  {o \in FitOps(step, c, r) :
     o.do \notin {"push", "tag", "tagCommit", "exec", "bind"} /\ (o.do = "create" => o.img \in G)}

LEMMA SimpleTakes ==
  ASSUME NEW G, NEW step, NEW c, NEW r, NEW s \in Seq(Simple(G, step, c, r)), NEW x
  PROVE  \A W : (\A i \in W : i \in G \/ Coming(s, Len(s) + 1, i)) => Takes(s, G, x, W, Nothing, FitOps(step, c, r))
<1>1. Simple(G, step, c, r) \subseteq FitOps(step, c, r)
  BY DEF Simple
<1>2. s \in Seq(FitOps(step, c, r))
  BY <1>1
<1>3. ASSUME NEW k \in 1..Len(s) PROVE Fits(s, k, G, x)
  <2>1. s[k] \in Simple(G, step, c, r)
    BY ElementOfSeq
  <2>2. s[k].do \notin {"push", "tag", "tagCommit", "exec", "bind"} /\ (s[k].do = "create" => s[k].img \in G)
    BY <2>1 DEF Simple
  <2>3. \A i \in Needs(s[k]) : i \in G
    BY <2>2 DEF Needs
  <2> QED
    BY <2>2, <2>3 DEF Fits
<1>4. Then(s, x, Nothing)
  BY DEF Then, Nothing
<1> QED
  BY <1>2, <1>3, <1>4 DEF Takes, RunsThrough

LEMMA TakesLess ==
  ASSUME NEW s, NEW G, NEW x, NEW W, NEW y, NEW F, Takes(s, G, x, W, y, F), NEW J, J \subseteq W
  PROVE  Takes(s, G, x, J, y, F)
BY DEF Takes

LEMMA FitParts ==
  ASSUME NEW step, NEW c, NEW r, NEW o \in AnyOps(c) \cup WaitOps(FailKind), Sane(o, step, c, r),
         o.do \notin {"build", "buildMulti", "push", "ensure"}
  PROVE  o \in FitOps(step, c, r)
BY DEF FitOps

LEMMA QuietFit ==
  ASSUME NEW step, NEW c, NEW r, NEW o \in QuietOps(c) \cup WaitOps(FailKind),
         o.do \notin {"build", "buildMulti", "push", "ensure", "tag", "pull", "tagCommit", "exec", "bind", "config", "unconfig"},
         o.do = "refuse" => ~c.token \/ (step = "python-prod" /\ ~c.image /\ r # "host"),
         o.do = "put" /\ ~o.script => step \in {"gcloud", "github"} \cup IF c.secrets THEN ScriptStep ELSE {},
         o.do \in Copies => step \in ProdStep, o.do = "inspect" => step = "trivy" /\ r = "podman",
         NEW G, o.do = "create" => o.img \in G
  PROVE  o \in Simple(G, step, c, r)
<1>1. o \in AnyOps(c) \cup WaitOps(FailKind)
  BY DEF AnyOps, ReleaseOps, PlainOps
<1>2. Sane(o, step, c, r)
  BY DEF Sane
<1>3. o \in FitOps(step, c, r)
  BY <1>1, <1>2 DEF FitOps
<1> QED
  BY <1>3 DEF Simple

LEMMA SimpleElements ==
  ASSUME NEW step, NEW c, NEW r, NEW G
  PROVE  LET S == Simple(G, step, c, r) IN
         /\ \A f \in FailKind :
              /\ Check(f) \in S /\ Stop(f) \in S /\ Start(f) \in S /\ StartIn(f) \in S /\ Put(f) \in S
              /\ ~c.token => Refuse(f) \in S
              /\ step \in ProdStep => CopyFile(f) \in S /\ CopyDir(f) \in S
              /\ step \in {"gcloud", "github"} \/ (c.secrets /\ step \in ScriptStep) => PutFile(f) \in S
              /\ \A m \in BOOLEAN : Wait(m, f) \in S
         /\ \A i \in G \cap (BaseImage \cup ToolImage), a \in BOOLEAN : Create(i, a, "exit") \in S
         /\ Commit(AppTag(c), "exit") \in S
         /\ step = "trivy" /\ r = "podman" => Inspect(AppURI(c), "exit") \in S
<1> DEFINE S == Simple(G, step, c, r)
           Q == QuietOps(c)
<1>1. ASSUME NEW f \in FailKind
      PROVE  /\ Check(f) \in S /\ Stop(f) \in S /\ Start(f) \in S /\ StartIn(f) \in S /\ Put(f) \in S
             /\ ~c.token => Refuse(f) \in S
             /\ step \in ProdStep => CopyFile(f) \in S /\ CopyDir(f) \in S
             /\ step \in {"gcloud", "github"} \/ (c.secrets /\ step \in ScriptStep) => PutFile(f) \in S
             /\ \A m \in BOOLEAN : Wait(m, f) \in S
  <2>1. /\ Check(f) \in Q /\ Stop(f) \in Q /\ Start(f) \in Q /\ StartIn(f) \in Q /\ Put(f) \in Q /\ Refuse(f) \in Q
        /\ CopyFile(f) \in Q /\ CopyDir(f) \in Q /\ PutFile(f) \in Q
    BY QuietElements
  <2>2. \A m \in BOOLEAN : Wait(m, f) \in WaitOps(FailKind)
    BY DEF Wait, WaitOps
  <2>3. /\ Check(f).do = "check" /\ Stop(f).do = "stop" /\ Start(f).do = "start" /\ StartIn(f).do = "start"
        /\ Put(f).do = "put" /\ Put(f).script /\ Refuse(f).do = "refuse" /\ CopyFile(f).do = "copyFile"
        /\ CopyDir(f).do = "copyDir" /\ PutFile(f).do = "put" /\ \A m \in BOOLEAN : Wait(m, f).do = "wait"
    BY DEF Check, Stop, Start, StartIn, Put, Refuse, CopyFile, CopyDir, PutFile, Wait, Op
  <2>4. Check(f) \in S /\ Stop(f) \in S /\ Start(f) \in S /\ StartIn(f) \in S
    BY <2>1, <2>3, QuietFit DEF Copies
  <2>5. Put(f) \in S
    BY <2>1, <2>3, QuietFit DEF Copies
  <2>8. step \in {"gcloud", "github"} \/ (c.secrets /\ step \in ScriptStep) => PutFile(f) \in S
    BY <2>1, <2>3, QuietFit DEF Copies
  <2>6. (~c.token => Refuse(f) \in S) /\ (step \in ProdStep => CopyFile(f) \in S /\ CopyDir(f) \in S)
    BY <2>1, <2>3, QuietFit DEF Copies
  <2>7. \A m \in BOOLEAN : Wait(m, f) \in S
    BY <2>2, <2>3, QuietFit DEF Copies
  <2> QED
    BY <2>4, <2>5, <2>6, <2>7, <2>8
<1>2. ASSUME NEW i \in G \cap (BaseImage \cup ToolImage), NEW a \in BOOLEAN PROVE Create(i, a, "exit") \in S
  <2>1. Create(i, a, "exit") \in Q
    BY QuietElements DEF FailKind
  <2>2. Create(i, a, "exit").do = "create" /\ Create(i, a, "exit").img = i
    BY DEF Create
  <2> QED
    BY <2>1, <2>2, QuietFit DEF Copies
<1>3. Commit(AppTag(c), "exit") \in S
  <2>1. Commit(AppTag(c), "exit") \in Q /\ Commit(AppTag(c), "exit").do = "commit"
    BY QuietElements DEF Commit
  <2> QED
    BY <2>1, QuietFit DEF Copies
<1>4. step = "trivy" /\ r = "podman" => Inspect(AppURI(c), "exit") \in S
  <2>1. Inspect(AppURI(c), "exit") \in Q /\ Inspect(AppURI(c), "exit").do = "inspect"
    BY QuietElements DEF Inspect
  <2> QED
    BY <2>1, QuietFit DEF Copies
<1> QED
  BY <1>1, <1>2, <1>3, <1>4

LEMMA SingleGives ==
  ASSUME NEW step, NEW c, NEW r, NEW o \in Simple({}, step, c, r), NEW G
  PROVE  Takes(<<o>>, G, Nothing, G \cup Gives(o), Nothing, FitOps(step, c, r))
<1> DEFINE S == Simple(G, step, c, r)
<1>1. o \in S
  BY DEF Simple
<1> HIDE DEF S
<1>2. <<o>> \in Seq(S) /\ Len(<<o>>) + 1 = 2 /\ <<o>>[1] = o
  BY <1>1
<1>3. \A i \in Gives(o) : Coming(<<o>>, Len(<<o>>) + 1, i)
  <2>1. 1 \in 1..(2 - 1)
    OBVIOUS
  <2> QED
    BY <1>2, <2>1 DEF Coming
<1> QED
  BY <1>2, <1>3, SimpleTakes DEF S

LEMMA PullTakes ==
  ASSUME NEW step, NEW c, NEW r, NEW G
  PROVE  /\ \A f \in FailKind, imgs \in Seq(BaseImage) \ {<<>>} :
              Takes(<<Pull(imgs, f)>>, G, Nothing, G \cup Range(imgs), Nothing, FitOps(step, c, r))
         /\ \A i \in ToolImage : Takes(<<Pull(<<i>>, "log")>>, G, Nothing, G, Nothing, FitOps(step, c, r))
<1>1. ASSUME NEW f \in FailKind, NEW imgs \in Seq(BaseImage) \ {<<>>}
      PROVE  Takes(<<Pull(imgs, f)>>, G, Nothing, G \cup Range(imgs), Nothing, FitOps(step, c, r))
  <2> DEFINE o == Pull(imgs, f)
  <2>1. imgs \in Seq(BaseImage \cup ToolImage) \ {<<>>}
    OBVIOUS
  <2>2. o \in QuietOps(c)
    BY <2>1, QuietElements
  <2>3. o.do = "pull" /\ o.imgs = imgs
    BY DEF Pull
  <2>4. Range(imgs) \subseteq BaseImage
    BY DEF Range
  <2> HIDE DEF o
  <2>5. o \in AnyOps(c) \cup WaitOps(FailKind) /\ Sane(o, step, c, r)
    BY <2>2, <2>3, <2>4 DEF AnyOps, ReleaseOps, PlainOps, Sane, Copies
  <2>6. o \in Simple({}, step, c, r)
    BY <2>3, <2>5 DEF FitOps, Simple
  <2>7. Gives(o) = Range(imgs)
    BY <2>3, <2>4 DEF Gives
  <2> QED
    BY <2>6, <2>7, SingleGives DEF o
<1>2. ASSUME NEW i \in ToolImage
      PROVE  Takes(<<Pull(<<i>>, "log")>>, G, Nothing, G, Nothing, FitOps(step, c, r))
  <2> DEFINE o == Pull(<<i>>, "log")
  <2>1. <<i>> \in Seq(BaseImage \cup ToolImage) \ {<<>>} /\ "log" \in FailKind
    BY DEF FailKind
  <2>2. o \in QuietOps(c)
    BY <2>1, QuietElements
  <2>3. o.do = "pull" /\ o.fail = "log" /\ o.imgs = <<i>>
    BY DEF Pull
  <2>4. \A j \in Range(o.imgs) : j \notin BaseImage
    <3>1. Range(o.imgs) = {i}
      BY <2>3 DEF Range
    <3>2. i \notin BaseImage
      BY DEF BaseImage, ToolImage, Base, Tool
    <3> QED
      BY <3>1, <3>2
  <2> HIDE DEF o
  <2>5. o \in AnyOps(c) \cup WaitOps(FailKind) /\ Sane(o, step, c, r)
    BY <2>2, <2>3, <2>4 DEF AnyOps, ReleaseOps, PlainOps, Sane, Copies
  <2>6. o \in Simple({}, step, c, r)
    BY <2>3, <2>5 DEF FitOps, Simple
  <2>7. Takes(<<o>>, G, Nothing, G \cup Gives(o), Nothing, FitOps(step, c, r))
    BY <2>6, SingleGives
  <2> QED
    BY <2>7, TakesLess DEF o
<1> QED
  BY <1>1, <1>2

LEMMA EnsureTakes ==
  ASSUME NEW step, NEW c, NEW r, NEW G, NEW i, NEW body,
         EnsureOps({i}, body) \subseteq AnyOps(c)
  PROVE  Takes(BuildIntermidiateContainer(i, c, body), G, Nothing, G \cup {i}, Nothing, FitOps(step, c, r))
<1> DEFINE o == [do |-> "ensure", fail |-> "exit", img |-> i, plats |-> GetPlatforms(c), body |-> body,
                 left |-> <<>>, missed |-> FALSE, asked |-> FALSE]
<1>1. GetPlatforms(c) \in Seq(Platform)
  BY PlatformsTyped
<1>2. o \in EnsureOps({i}, body)
  BY <1>1 DEF EnsureOps
<1>3. /\ o.do = "ensure" /\ o.img = i /\ o.plats = GetPlatforms(c) /\ o.left = <<>> /\ ~o.missed /\ ~o.asked
      /\ BuildIntermidiateContainer(i, c, body) = <<o>>
  BY DEF BuildIntermidiateContainer
<1> HIDE DEF o
<1>4. <<>> \in Seq({Host})
  OBVIOUS
<1>5. Sane(o, step, c, r)
  BY <1>3, <1>4 DEF Sane, Copies
<1>6. o \in Simple({}, step, c, r)
  BY <1>2, <1>3, <1>5 DEF FitOps, Simple
<1>7. Gives(o) = {i}
  BY <1>3 DEF Gives
<1> QED
  BY <1>3, <1>6, <1>7, SingleGives

LEMMA ToolTakes ==
  ASSUME NEW step, NEW c, NEW r, NEW G, NEW i \in ToolImage
  PROVE  Takes(BuildIntermidiateContainer(i, c, "tool"), G, Nothing, G \cup {i}, Nothing, FitOps(step, c, r))
<1>1. EnsureOps({i}, "tool") \subseteq EnsureOps(ToolImage, "tool")
  BY DEF EnsureOps
<1>2. EnsureOps(ToolImage, "tool") \subseteq QuietOps(c)
  BY QuietParts
<1>3. EnsureOps({i}, "tool") \subseteq AnyOps(c)
  BY <1>1, <1>2 DEF AnyOps, ReleaseOps, PlainOps
<1> QED
  BY <1>3, EnsureTakes

\* A container of an image that is there, with a script or a file.
LEMMA ScriptTakes ==
  ASSUME NEW step, NEW c, NEW r, NEW G, NEW i \in G \cap (BaseImage \cup ToolImage), NEW a \in BOOLEAN, NEW m \in BOOLEAN,
         NEW f \in FailKind, NEW g \in FailKind, NEW h \in FailKind, NEW q \in {Start(f), StartIn(f)},
         NEW p \in {Put(h)} \cup (IF step \in {"gcloud", "github"} THEN {PutFile(h)} ELSE {})
  PROVE  LET s == <<Create(i, a, "exit"), p, q, Wait(m, g)>> IN
         /\ Takes(s, G, Nothing, G, Nothing, FitOps(step, c, r))
         /\ \A z \in FailKind : Takes(<<Check(z), Create(i, a, "exit"), p, q, Wait(m, g)>>, G, Nothing, G, Nothing, FitOps(step, c, r))
<1> DEFINE S == Simple(G, step, c, r)
           w == Create(i, a, "exit")
           y == Wait(m, g)
<1>1. w \in S /\ p \in S /\ q \in S /\ y \in S
  BY SimpleElements
<1>2. \A z \in FailKind : Check(z) \in S
  BY SimpleElements
<1> HIDE DEF S, w, y
<1>3. <<w, p, q, y>> \in Seq(S)
  BY <1>1
<1>4. ASSUME NEW z \in S PROVE <<z, w, p, q, y>> \in Seq(S)
  BY <1>1
<1>5. \A s \in Seq(S) : Takes(s, G, Nothing, G, Nothing, FitOps(step, c, r))
  BY SimpleTakes DEF S
<1> QED
  BY <1>2, <1>3, <1>4, <1>5 DEF w, y

LEMMA KeepTakes ==
  ASSUME NEW step, NEW c, NEW r, NEW G
  PROVE  Takes(KeepBuilder(c), G, Nothing, G, Nothing, FitOps(step, c, r))
<1> DEFINE F == FitOps(step, c, r)
           o == Commit(AppTag(c), "exit")
           q == TagCommitted(AppTag(c), "err")
<1>1. o \in QuietOps(c) /\ q \in QuietOps(c)
  BY QuietElements
<1>2. o.do = "commit" /\ q.do = "tagCommit"
  BY DEF Commit, TagCommitted
<1>3. o \in F /\ q \in F
  <2>1. Sane(o, step, c, r) /\ Sane(q, step, c, r)
    BY <1>2 DEF Sane, Copies
  <2> QED
    BY <1>1, <1>2, <2>1 DEF FitOps, AnyOps, ReleaseOps, PlainOps
<1> HIDE DEF F, o, q
<1> DEFINE s == <<o, q>>
<1>4. s \in Seq(F) /\ <<>> \in Seq(F) /\ Len(s) = 2 /\ s[1] = o /\ s[2] = q
  BY <1>3
<1> HIDE DEF s
<1>5. Since(s, 2, {"commit"}, {"create"})
  <2>1. 1 \in 1..(2 - 1) /\ \A m \in (1 + 1)..(2 - 1) : FALSE
    OBVIOUS
  <2> QED
    BY <1>2, <1>4, <2>1 DEF Since
<1>6. \A k \in 1..Len(s) : Fits(s, k, G, Nothing)
  <2>1. \A k \in 1..Len(s) : k = 1 \/ k = 2
    BY <1>4
  <2>2. Fits(s, 1, G, Nothing)
    BY <1>2, <1>4 DEF Fits, Needs
  <2>3. Fits(s, 2, G, Nothing)
    BY <1>2, <1>4, <1>5 DEF Fits, Needs, Holds
  <2> QED
    BY <2>1, <2>2, <2>3
<1>7. Takes(s, G, Nothing, G, Nothing, F)
  BY <1>4, <1>6 DEF Takes, RunsThrough, Then, Nothing
<1>8. Takes(<<>>, G, Nothing, G, Nothing, F)
  <2>1. Len(<<>>) = 0
    OBVIOUS
  <2> QED
    BY <1>4, <2>1 DEF Takes, RunsThrough, Then, Nothing
<1> QED
  BY <1>7, <1>8 DEF KeepBuilder, s, o, q, F

LEMMA BuildTakes ==
  ASSUME NEW step \in ScriptStep, NEW c, NEW r, NEW G, NEW i \in G \cap (BaseImage \cup ToolImage), NEW a \in BOOLEAN
  PROVE  LET s == <<Check("exit")>> \o BuildingContainer(i, c, a, TRUE) IN
         /\ Takes(s, G, Nothing, G, Nothing, FitOps(step, c, r))
         /\ Takes(s \o KeepBuilder(c), G, Nothing, G, Nothing, FitOps(step, c, r))
<1> DEFINE F == FitOps(step, c, r)
           h == <<Check("exit")>>
           t == BuildingContainer(i, c, a, TRUE)
<1>1. Takes(t, G, Nothing, G, Nothing, F)
  <2> DEFINE S == Simple(G, step, c, r)
             w == Create(i, a, "exit")
             p == Put("exit")
             k == PutFile("exit")
             q == StartIn("exit")
             y == Wait(TRUE, "err")
             l == IF c.secrets THEN <<k>> ELSE <<>>
  <2>1. w \in S /\ p \in S /\ q \in S /\ y \in S /\ (c.secrets => k \in S)
    BY SimpleElements DEF FailKind
  <2>2. t = <<w>> \o (<<p>> \o l) \o <<q, y>>
    BY DEF BuildingContainer, PutScripts
  <2>3. \A s \in Seq(S) : Takes(s, G, Nothing, G, Nothing, F)
    BY SimpleTakes
  <2> HIDE DEF S, w, p, k, q, y, t, F
  <2>4. <<w>> \in Seq(S) /\ <<p>> \in Seq(S) /\ l \in Seq(S) /\ <<q, y>> \in Seq(S)
    BY <2>1
  <2> HIDE DEF l
  <2>5. \A u, v \in Seq(S) : u \o v \in Seq(S)
    OBVIOUS
  <2>6. <<w>> \o (<<p>> \o l) \o <<q, y>> \in Seq(S)
    BY <2>4, <2>5
  <2> QED
    BY <2>2, <2>3, <2>6
<1>2. Takes(h, G, Nothing, G, Nothing, F)
  <2>1. Check("exit") \in Simple(G, step, c, r)
    BY SimpleElements DEF FailKind
  <2>2. h \in Seq(Simple(G, step, c, r))
    BY <2>1
  <2> QED
    BY <2>2, SimpleTakes
<1>3. Takes(KeepBuilder(c), G, Nothing, G, Nothing, F)
  BY KeepTakes
<1> HIDE DEF F, h, t
<1>4. Takes(h \o t, G, Nothing, G, Nothing, F)
  BY <1>1, <1>2, TakesJoined
<1>5. Takes((h \o t) \o KeepBuilder(c), G, Nothing, G, Nothing, F)
  BY <1>3, <1>4, TakesJoined
<1> QED
  BY <1>4, <1>5 DEF F, h, t

\* A step that pulls, makes its image and runs a container of it.
LEMMA MadeTakes ==
  ASSUME NEW step, NEW c, NEW r, NEW imgs \in Seq(BaseImage) \ {<<>>}, NEW f \in FailKind, NEW i \in ToolImage, NEW t,
         NEW G, G = {} \cup Range(imgs) \cup {i}, Takes(t, G, Nothing, G, Nothing, FitOps(step, c, r))
  PROVE  Takes(<<Pull(imgs, f)>> \o BuildIntermidiateContainer(i, c, "tool") \o t, {}, Nothing, G, Nothing, FitOps(step, c, r))
<1> DEFINE F == FitOps(step, c, r)
           p == <<Pull(imgs, f)>>
           e == BuildIntermidiateContainer(i, c, "tool")
<1>1. Takes(p, {}, Nothing, {} \cup Range(imgs), Nothing, F)
  BY PullTakes
<1>2. Takes(e, {} \cup Range(imgs), Nothing, G, Nothing, F)
  BY ToolTakes
<1> HIDE DEF F, p, e
<1>3. Takes(p \o e, {}, Nothing, G, Nothing, F)
  BY <1>1, <1>2, TakesJoined
<1>4. Takes(t, G, Nothing, G, Nothing, F)
  BY DEF F
<1>5. Takes((p \o e) \o t, {}, Nothing, G, Nothing, F)
  BY <1>3, <1>4, TakesJoined
<1> QED
  BY <1>5 DEF F, p, e

LEMMA BaseLists ==
  /\ <<Base("golang"), Base("alpine")>> \in Seq(BaseImage) \ {<<>>}
  /\ Range(<<Base("golang"), Base("alpine")>>) = {Base("golang"), Base("alpine")}
  /\ \A i \in BaseImage : <<i>> \in Seq(BaseImage) \ {<<>>} /\ Range(<<i>>) = {i}
<1>1. Base("golang") \in BaseImage /\ Base("alpine") \in BaseImage
  BY StepImages
<1>2. <<Base("golang"), Base("alpine")>> \in Seq(BaseImage) \ {<<>>}
  BY <1>1
<1>3. ASSUME NEW x, NEW y PROVE Range(<<x, y>>) = {x, y}
  <2>1. DOMAIN <<x, y>> = {1, 2} /\ <<x, y>>[1] = x /\ <<x, y>>[2] = y
    OBVIOUS
  <2> QED
    BY <2>1 DEF Range
<1>4. ASSUME NEW x PROVE Range(<<x>>) = {x}
  <2>1. DOMAIN <<x>> = {1} /\ <<x>>[1] = x
    OBVIOUS
  <2> QED
    BY <2>1 DEF Range
<1>5. \A i \in BaseImage : <<i>> \in Seq(BaseImage) \ {<<>>}
  OBVIOUS
<1> QED
  BY <1>2, <1>3, <1>4, <1>5

LEMMA CompileTakes ==
  ASSUME NEW step \in ScriptStep, NEW c, NEW r
  PROVE  LET F == FitOps(step, c, r) IN
         /\ Takes(GoRun(c), {}, Nothing, {Tool("go"), Base("alpine")}, Nothing, F)
         /\ Takes(DebianRun(c), {}, Nothing, {Base("alpine")}, Nothing, F)
         /\ Takes(CGORun(c), {}, Nothing, {}, Nothing, F)
         /\ Takes(MavenRun(c), {}, Nothing, {}, Nothing, F)
         /\ Takes(ZigRun(c), {}, Nothing, {Base("alpine")}, Nothing, F)
         /\ Takes(PythonRun(c), {}, Nothing, {Base("python")}, Nothing, F)
<1> DEFINE F == FitOps(step, c, r)
           two == <<Base("golang"), Base("alpine")>>
<1>1. "err" \in FailKind /\ two \in Seq(BaseImage) \ {<<>>} /\ Range(two) = {Base("golang"), Base("alpine")}
  BY BaseLists DEF FailKind
<1>2. ASSUME NEW i \in ToolImage, NEW a \in BOOLEAN, NEW G, i \in G
      PROVE  LET s == <<Check("exit")>> \o BuildingContainer(i, c, a, TRUE) IN
             Takes(s, G, Nothing, G, Nothing, F) /\ Takes(s \o KeepBuilder(c), G, Nothing, G, Nothing, F)
  BY <1>2, BuildTakes
<1>3. ASSUME NEW i \in ToolImage, NEW imgs \in Seq(BaseImage) \ {<<>>}, NEW t,
             Takes(t, {} \cup Range(imgs) \cup {i}, Nothing, {} \cup Range(imgs) \cup {i}, Nothing, F)
      PROVE  \A J : J \subseteq Range(imgs) \cup {i} =>
               Takes(<<Pull(imgs, "err")>> \o BuildIntermidiateContainer(i, c, "tool") \o t, {}, Nothing, J, Nothing, F)
  <2>1. Takes(<<Pull(imgs, "err")>> \o BuildIntermidiateContainer(i, c, "tool") \o t, {}, Nothing,
              {} \cup Range(imgs) \cup {i}, Nothing, F)
    BY <1>1, <1>3, MadeTakes
  <2> QED
    BY <2>1, TakesLess
<1> HIDE DEF F, two
<1>4. Takes(GoRun(c), {}, Nothing, {Tool("go"), Base("alpine")}, Nothing, F)
  BY <1>1, <1>2, <1>3, StepImages DEF GoRun, GoPull, BuildGoImage, GoBuild, two
<1>5. Takes(DebianRun(c), {}, Nothing, {Base("alpine")}, Nothing, F)
  BY <1>1, <1>2, <1>3, StepImages DEF DebianRun, DebianPull, BuildDebianImage, DebianBuild, two
<1>6. Takes(CGORun(c), {}, Nothing, {}, Nothing, F)
  BY <1>1, <1>2, <1>3, StepImages DEF CGORun, CGOPull, BuildCGOImage, CGOBuild, two
<1>7. Takes(MavenRun(c), {}, Nothing, {}, Nothing, F)
  BY <1>2, <1>3, StepImages, BaseLists DEF MavenRun, BuildMavenImage, MavenBuild
<1>8. Takes(ZigRun(c), {}, Nothing, {Base("alpine")}, Nothing, F)
  BY <1>2, <1>3, StepImages, BaseLists DEF ZigRun, BuildZigImage, ZigBuild
<1>9. Takes(PythonRun(c), {}, Nothing, {Base("python")}, Nothing, F)
  BY <1>2, <1>3, StepImages, BaseLists DEF PythonRun, BuildPythonImage, PythonBuild
<1> QED
  BY <1>4, <1>5, <1>6, <1>7, <1>8, <1>9 DEF F

LEMMA EmptyTakes ==
  ASSUME NEW G, NEW W, W \subseteq G, NEW x, NEW F
  PROVE  Takes(<<>>, G, x, W, Nothing, F)
<1>1. <<>> \in Seq(F) /\ Len(<<>>) = 0
  OBVIOUS
<1> QED
  BY <1>1 DEF Takes, RunsThrough, Then, Nothing

LEMMA ScriptTakesFor ==
  ASSUME NEW step, NEW c, NEW r, NEW G, NEW i \in G \cap (BaseImage \cup ToolImage), NEW a \in BOOLEAN,
         NEW f \in FailKind, NEW g \in FailKind, NEW z \in FailKind, NEW h \in FailKind,
         NEW q \in {Start(f), StartIn(f)}
  PROVE  /\ Takes(<<Create(i, a, "exit"), Put(h), q, Wait(FALSE, g)>>, G, Nothing, G, Nothing, FitOps(step, c, r))
         /\ Takes(<<Check(z), Create(i, a, "exit"), Put(h), q, Wait(FALSE, g)>>, G, Nothing, G, Nothing, FitOps(step, c, r))
<1>1. Put(h) \in {Put(h)} \cup (IF step \in {"gcloud", "github"} THEN {PutFile(h)} ELSE {})
  OBVIOUS
<1> QED
  BY <1>1, ScriptTakes

LEMMA FileTakes ==
  ASSUME NEW step \in {"gcloud", "github"}, NEW c, NEW r, NEW G, NEW i \in G \cap (BaseImage \cup ToolImage),
         NEW a \in BOOLEAN, NEW f \in FailKind, NEW g \in FailKind, NEW z \in FailKind, NEW h \in FailKind
  PROVE  Takes(<<Check(z), Create(i, a, "exit"), PutFile(h), StartIn(f), Wait(FALSE, g)>>, G, Nothing, G, Nothing,
               FitOps(step, c, r))
<1>1. PutFile(h) \in {Put(h)} \cup (IF step \in {"gcloud", "github"} THEN {PutFile(h)} ELSE {})
  OBVIOUS
<1> QED
  BY <1>1, ScriptTakes

LEMMA ToolStepsTake ==
  ASSUME NEW step, NEW c, NEW r
  PROVE  LET F == FitOps(step, c, r) IN
         /\ step = "gcloud" => Takes(GCloudRun(c), {}, Nothing, {}, Nothing, F)
         /\ Takes(CopierRun(c), {}, Nothing, {}, Nothing, F)
         /\ Takes(ProtobufRun(c), {}, Nothing, {}, Nothing, F)
         /\ Takes(PackerRun(c), {}, Nothing, {}, Nothing, F)
         /\ Takes(PulumiRun(c), {}, Nothing, {}, Nothing, F)
         /\ Takes(GoLint(c), {Tool("go")}, Nothing, {}, Nothing, F)
<1> DEFINE F == FitOps(step, c, r)
           Runs(t, G) == Takes(t, G, Nothing, G, Nothing, F)
<1>1. "err" \in FailKind /\ "exit" \in FailKind
  BY DEF FailKind
<1>2. ASSUME NEW G, NEW i \in G \cap (BaseImage \cup ToolImage), NEW a \in BOOLEAN,
             NEW f \in {"err", "exit"}, NEW g \in {"err", "exit"}, NEW z \in {"err", "exit"}, NEW q \in {Start(f), StartIn(f)}
      PROVE  /\ Runs(<<Create(i, a, "exit"), Put("exit"), q, Wait(FALSE, g)>>, G)
             /\ Runs(<<Check(z), Create(i, a, "exit"), Put("exit"), q, Wait(FALSE, g)>>, G)
  <2>1. f \in FailKind /\ g \in FailKind /\ z \in FailKind /\ "exit" \in FailKind
    BY <1>1
  <2>2. Takes(<<Create(i, a, "exit"), Put("exit"), q, Wait(FALSE, g)>>, G, Nothing, G, Nothing, FitOps(step, c, r))
    BY <2>1, ScriptTakesFor
  <2>3. Takes(<<Check(z), Create(i, a, "exit"), Put("exit"), q, Wait(FALSE, g)>>, G, Nothing, G, Nothing, FitOps(step, c, r))
    BY <2>1, ScriptTakesFor
  <2> QED
    BY <2>2, <2>3
<1>3. ASSUME NEW i \in ToolImage, NEW t, Runs(t, {i})
      PROVE  Takes(BuildIntermidiateContainer(i, c, "tool") \o t, {}, Nothing, {}, Nothing, F)
  <2>1. Takes(BuildIntermidiateContainer(i, c, "tool"), {}, Nothing, {} \cup {i}, Nothing, F)
    BY ToolTakes
  <2>2. {} \cup {i} = {i}
    OBVIOUS
  <2>3. Takes(BuildIntermidiateContainer(i, c, "tool") \o t, {}, Nothing, {i}, Nothing, F)
    BY <1>3, <2>1, <2>2, TakesJoined
  <2> QED
    BY <2>3, TakesLess
<1>4. ASSUME NEW i \in ToolImage, NEW p \in BaseImage, NEW f \in {"err", "exit"}, NEW t, Runs(t, {p, i})
      PROVE  Takes(<<Pull(<<p>>, f)>> \o BuildIntermidiateContainer(i, c, "tool") \o t, {}, Nothing, {}, Nothing, F)
  <2>1. <<p>> \in Seq(BaseImage) \ {<<>>} /\ Range(<<p>>) = {p} /\ f \in FailKind
    BY <1>1, BaseLists
  <2>2. {} \cup Range(<<p>>) \cup {i} = {p, i}
    BY <2>1
  <2>3. Takes(<<Pull(<<p>>, f)>> \o BuildIntermidiateContainer(i, c, "tool") \o t, {}, Nothing, {p, i}, Nothing, F)
    BY <1>4, <2>1, <2>2, MadeTakes
  <2> QED
    BY <2>3, TakesLess
<1>5. step = "gcloud" => Takes(GCloudRun(c), {}, Nothing, {}, Nothing, F)
  <2> SUFFICES ASSUME step = "gcloud" PROVE Takes(GCloudRun(c), {}, Nothing, {}, Nothing, F)
    OBVIOUS
  <2>1. Tool("gcloud") \in ToolImage
    BY StepImages
  <2>2. Runs(GCloudAuth, {Tool("gcloud")})
    BY <1>1, <2>1, FileTakes DEF GCloudAuth
  <2> QED
    BY <1>3, <2>1, <2>2 DEF GCloudRun, BuildGCloudImage
<1>6. Takes(CopierRun(c), {}, Nothing, {}, Nothing, F)
  <2> DEFINE G == {Base("copier")}
             S == Simple(G, step, c, r)
             w == Create(Base("copier"), FALSE, "exit")
             h == Check("err")
             q == StartIn("err")
             y == Wait(FALSE, "err")
  <2>1. Base("copier") \in BaseImage
    BY StepImages
  <2>2. h \in S /\ w \in S /\ q \in S /\ y \in S
    BY <1>1, <2>1, SimpleElements
  <2> HIDE DEF S, w, h, q, y
  <2>3. <<h, w, q, y>> \in Seq(S)
    BY <2>2
  <2>4. Runs(<<h, w, q, y>>, G)
    BY <2>3, SimpleTakes DEF S
  <2>5. Takes(<<Pull(<<Base("copier")>>, "err")>>, {}, Nothing, {} \cup Range(<<Base("copier")>>), Nothing, F)
    BY <1>1, <2>1, BaseLists, PullTakes
  <2>6. {} \cup Range(<<Base("copier")>>) = G
    BY <2>1, BaseLists
  <2>7. Takes(CopierRun(c), {}, Nothing, G, Nothing, F)
    BY <2>4, <2>5, <2>6, TakesJoined DEF CopierRun, CopierExecute, w, h, q, y
  <2> QED
    BY <2>7, TakesLess
<1>7. Takes(ProtobufRun(c), {}, Nothing, {}, Nothing, F)
  <2> DEFINE i == Tool("protobuf")
             e == BuildIntermidiateContainer(i, c, "tool")
  <2>1. i \in ToolImage
    BY StepImages
  <2>2. Runs(ProtobufGenerate, {i})
    BY <1>2, <2>1 DEF ProtobufGenerate
  <2>3. Takes(<<Pull(<<i>>, "log")>>, {}, Nothing, {}, Nothing, F)
    BY <2>1, PullTakes
  <2>4. Takes(e, {}, Nothing, {} \cup {i}, Nothing, F) /\ {} \cup {i} = {i}
    BY <2>1, ToolTakes
  <2> HIDE DEF i, e
  <2>5. Takes(<<Pull(<<i>>, "log")>> \o e, {}, Nothing, {i}, Nothing, F)
    BY <2>3, <2>4, TakesJoined
  <2>6. Takes((<<Pull(<<i>>, "log")>> \o e) \o ProtobufGenerate, {}, Nothing, {i}, Nothing, F)
    BY <2>2, <2>5, TakesJoined
  <2>7. Takes((<<Pull(<<i>>, "log")>> \o e) \o ProtobufGenerate, {}, Nothing, {}, Nothing, F)
    BY <2>6, TakesLess
  <2> QED
    BY <2>7 DEF ProtobufRun, i, e
<1>8. Takes(PackerRun(c), {}, Nothing, {}, Nothing, F)
  <2>1. Tool("packer") \in ToolImage /\ Base("packer") \in BaseImage
    BY StepImages
  <2>2. Runs(ScriptContainer(Tool("packer"), "exit"), {Base("packer"), Tool("packer")})
    BY <1>2, <2>1 DEF ScriptContainer
  <2>3. Runs(<<>>, {Base("packer"), Tool("packer")})
    BY EmptyTakes
  <2>4. Runs(PackerRelease(c), {Base("packer"), Tool("packer")})
    BY <2>2, <2>3 DEF PackerRelease
  <2> QED
    BY <1>4, <2>1, <2>4 DEF PackerRun, BuildPackerImage
<1>9. Takes(PulumiRun(c), {}, Nothing, {}, Nothing, F)
  <2> DEFINE G == {Base("pulumi"), Tool("pulumi")}
             t == ScriptContainer(Tool("pulumi"), "exit")
  <2>1. Tool("pulumi") \in ToolImage /\ Base("pulumi") \in BaseImage
    BY StepImages
  <2>2. Runs(t, G)
    BY <1>2, <2>1 DEF ScriptContainer
  <2>3. Runs(<<Check("exit")>>, G)
    <3> DEFINE S == Simple(G, step, c, r)
    <3>1. Check("exit") \in S
      BY <1>1, SimpleElements
    <3> HIDE DEF S
    <3>2. <<Check("exit")>> \in Seq(S)
      BY <3>1
    <3> QED
      BY <3>2, SimpleTakes DEF S
  <2> HIDE DEF t, G
  <2>4. Runs(<<Check("exit")>> \o t, G)
    BY <2>2, <2>3, TakesJoined
  <2> QED
    BY <1>4, <2>1, <2>4 DEF PulumiRun, BuildPulumiImage, PulumiRelease, t, G
<1>10. Takes(GoLint(c), {Tool("go")}, Nothing, {}, Nothing, F)
  <2>1. Tool("go") \in ToolImage
    BY StepImages
  <2>2. Runs(GoLint(c), {Tool("go")})
    BY <1>2, <2>1 DEF GoLint
  <2> QED
    BY <2>2, TakesLess
<1> QED
  BY <1>5, <1>6, <1>7, <1>8, <1>9, <1>10

LEMMA TrivyTakes ==
  ASSUME NEW c, NEW r
  PROVE  Takes(TrivyRun(c, r), {}, Nothing, {}, Nothing, FitOps("trivy", c, r))
<1> DEFINE F == FitOps("trivy", c, r)
           G == {Base("trivy")}
           S == Simple(G, "trivy", c, r)
           h == Check("exit")
           w == Create(Base("trivy"), FALSE, "exit")
           n == Inspect(AppURI(c), "exit")
           p == Put("exit")
           q == Start("exit")
           y == Wait(FALSE, "exit")
<1>1. "exit" \in FailKind /\ Base("trivy") \in BaseImage
  BY StepImages DEF FailKind
<1>2. h \in S /\ w \in S /\ p \in S /\ q \in S /\ y \in S /\ (r = "podman" => n \in S)
  BY <1>1, SimpleElements
<1>3. /\ Takes(<<Pull(<<Base("trivy")>>, "exit")>>, {}, Nothing, {} \cup Range(<<Base("trivy")>>), Nothing, F)
      /\ {} \cup Range(<<Base("trivy")>>) = G
  BY <1>1, BaseLists, PullTakes
<1>4. Takes(<<>>, {}, Nothing, {}, Nothing, F)
  BY EmptyTakes
<1>5. \A s \in Seq(S) : Takes(s, G, Nothing, {}, Nothing, F)
  BY SimpleTakes
<1> HIDE DEF F, S, h, w, n, p, q, y
<1>6. <<h, w>> \in Seq(S) /\ <<p, q, y>> \in Seq(S) /\ <<>> \in Seq(S) /\ (r = "podman" => <<n>> \in Seq(S))
  BY <1>2
<1>7. \A s, t, u \in Seq(S) : s \o t \o u \in Seq(S)
  OBVIOUS
<1>8. TrivyScan(c, r) \in Seq(S)
  BY <1>6, <1>7 DEF TrivyScan, h, w, n, p, q, y
<1>9. Takes(<<Pull(<<Base("trivy")>>, "exit")>> \o TrivyScan(c, r), {}, Nothing, {}, Nothing, F)
  BY <1>3, <1>5, <1>8, TakesJoined
<1> QED
  BY <1>4, <1>9 DEF TrivyRun, F

LEMMA GithubTakes ==
  ASSUME NEW c, NEW r
  PROVE  Takes(GithubRun(c), {}, Nothing, {}, Nothing, FitOps("github", c, r))
<1> DEFINE F == FitOps("github", c, r)
           i == Tool("gh")
           G == {i}
           S == Simple(G, "github", c, r)
           e == BuildIntermidiateContainer(i, c, "tool")
           h == Check("exit")
           hn == Check("next")
           w == Create(i, FALSE, "exit")
           p == Put("exit")
           pf == PutFile("err")
           qn == StartIn("next")
           qe == StartIn("err")
           yn == Wait(FALSE, "next")
           ye == Wait(FALSE, "err")
<1>1. "exit" \in FailKind /\ "next" \in FailKind /\ "err" \in FailKind /\ i \in ToolImage
  BY StepImages DEF FailKind
<1>2. /\ h \in S /\ hn \in S /\ p \in S /\ pf \in S /\ qn \in S /\ qe \in S /\ yn \in S /\ ye \in S
      /\ w \in S
  BY <1>1, SimpleElements
<1>3. Mark \in S
  <2>1. Mark.do = "mark" /\ Mark \in MarkOps
    BY <1>1 DEF Mark, Op, MarkOps
  <2>2. Mark \in AnyOps(c) /\ Sane(Mark, "github", c, r)
    BY <2>1 DEF AnyOps, ReleaseOps, PlainOps, Sane, Copies
  <2> QED
    BY <2>1, <2>2 DEF Simple, FitOps
<1>4. Takes(e, {}, Nothing, {} \cup {i}, Nothing, F) /\ {} \cup {i} = G
  BY <1>1, ToolTakes
<1>5. Takes(<<>>, {}, Nothing, {}, Nothing, F)
  BY EmptyTakes
<1>6. \A s \in Seq(S) : Takes(s, G, Nothing, {}, Nothing, F)
  BY SimpleTakes
<1> HIDE DEF F, S, e, h, hn, w, p, pf, qn, qe, yn, ye
<1>7. <<h, hn, w, p, qn, yn, Mark>> \in Seq(S) /\ <<h, w, pf, qe, ye>> \in Seq(S) /\ <<>> \in Seq(S)
  BY <1>2, <1>3
<1>8. GithubComment \in Seq(S) /\ GithubCommit \in Seq(S)
  BY <1>7 DEF GithubComment, GithubCommit, h, hn, w, p, pf, qn, qe, yn, ye
<1>9. \A s, t \in Seq(S) : s \o t \in Seq(S)
  OBVIOUS
<1>10. ASSUME NEW s \in Seq(S), NEW t \in Seq(S) PROVE Takes(e \o s \o t, {}, Nothing, {}, Nothing, F)
  <2>1. \A z \in Seq(S) : Takes(z, G, Nothing, G, Nothing, F)
    BY SimpleTakes DEF S, F
  <2>2. Takes(e \o s, {}, Nothing, G, Nothing, F)
    BY <1>4, <2>1, TakesJoined
  <2> QED
    BY <1>6, <2>2, TakesJoined
<1>11. (IF c.pr THEN GithubComment ELSE <<>>) \in Seq(S) /\ (IF c.commit THEN GithubCommit ELSE <<>>) \in Seq(S)
  BY <1>7, <1>8
<1>12. Takes(e \o (IF c.pr THEN GithubComment ELSE <<>>) \o IF c.commit THEN GithubCommit ELSE <<>>,
             {}, Nothing, {}, Nothing, F)
  BY <1>10, <1>11
<1> QED
  BY <1>5, <1>12 DEF GithubRun, BuildGithubImage, e, F

\* goreleaser's file is written before it is bound.
LEMMA DefaultReleaseTakes ==
  ASSUME NEW c, NEW r, NEW G, NEW i \in G \cap (BaseImage \cup ToolImage), ~c.own, NEW docker \in BOOLEAN
  PROVE  Takes(<<Configure(c)>>
               \o (IF docker THEN <<Bind("exit")>> ELSE <<>>)
               \o <<Create(i, FALSE, "exit"), Bind("defer"), Start("defer"), Wait(FALSE, "defer"), Mark, Unconfigure>>,
               G, Nothing, {}, Nothing, FitOps("gorelease", c, r))
<1> DEFINE F == FitOps("gorelease", c, r)
           Written == [made |-> FALSE, running |-> FALSE, configured |-> TRUE]
           S == Simple(G, "gorelease", c, r)
           f == Configure(c)
           bx == Bind("exit")
           bd == Bind("defer")
           w == Create(i, FALSE, "exit")
           q == Start("defer")
           y == Wait(FALSE, "defer")
           u == Unconfigure
<1>1. "exit" \in FailKind /\ "defer" \in FailKind /\ "err" \in FailKind
  BY DEF FailKind
<1>2. w \in S /\ q \in S /\ y \in S
  BY <1>1, SimpleElements
<1>3. /\ f.do = "config" /\ bx.do = "bind" /\ bd.do = "bind" /\ u.do = "unconfig" /\ Mark.do = "mark"
      /\ w.do = "create" /\ w.img = i /\ q.do = "start" /\ y.do = "wait"
  BY DEF Configure, Bind, Unconfigure, Mark, Op, Create, Start, Wait
<1>4. f \in F /\ bx \in F /\ bd \in F /\ u \in F /\ Mark \in F
  <2>1. f \in ReleaseOps(c) /\ bx \in ReleaseOps(c) /\ bd \in ReleaseOps(c) /\ u \in ReleaseOps(c) /\ Mark \in ReleaseOps(c)
    BY <1>1 DEF ReleaseOps, PlainOps, ConfigOps, BindOps, MarkOps, Configure, Bind, Unconfigure, Mark, Op
  <2>2. \A o \in {f, bx, bd, u, Mark} : Sane(o, "gorelease", c, r)
    BY <1>3 DEF Sane, Copies
  <2> QED
    BY <1>3, <2>1, <2>2, FitParts DEF AnyOps
<1>5. w \in F /\ q \in F /\ y \in F
  BY <1>2 DEF Simple
<1> HIDE DEF F, S, f, bx, bd, w, q, y, u
<1>6. Takes(<<f>>, G, Nothing, G, Written, F)
  <2>1. <<f>> \in Seq(F) /\ Len(<<f>>) = 1 /\ <<f>>[1] = f
    BY <1>4
  <2>2. Fits(<<f>>, 1, G, Nothing)
    BY <1>3, <2>1 DEF Fits, Needs
  <2>3. Since(<<f>>, 2, {"config"}, {"unconfig"})
    <3>1. 1 \in 1..(2 - 1) /\ \A m \in (1 + 1)..(2 - 1) : FALSE
      OBVIOUS
    <3> QED
      BY <1>3, <2>1, <3>1 DEF Since
  <2> QED
    BY <2>1, <2>2, <2>3 DEF Takes, RunsThrough, Then, Written, Holds
<1>7. Takes(<<bx>>, G, Written, G, Written, F)
  <2>1. <<bx>> \in Seq(F) /\ Len(<<bx>>) = 1 /\ <<bx>>[1] = bx
    BY <1>4
  <2>2. Clear(<<bx>>, 1, {"unconfig"}) /\ Clear(<<bx>>, 2, {"unconfig"})
    <3>1. (\A m \in 1..(1 - 1) : FALSE) /\ \A m \in 1..(2 - 1) : m = 1
      OBVIOUS
    <3> QED
      BY <1>3, <2>1, <3>1 DEF Clear
  <2>3. Fits(<<bx>>, 1, G, Written)
    BY <1>3, <2>1, <2>2 DEF Fits, Needs, Holds, Written
  <2> QED
    BY <2>1, <2>2, <2>3 DEF Takes, RunsThrough, Then, Written, Holds
<1>8. Takes(<<>>, G, Written, G, Written, F)
  <2>1. <<>> \in Seq(F) /\ Len(<<>>) = 0 /\ \A m \in 1..((0 + 1) - 1) : FALSE
    OBVIOUS
  <2> QED
    BY <2>1 DEF Takes, RunsThrough, Then, Written, Holds, Clear
<1>9. Takes(<<w, bd, q, y, Mark, u>>, G, Written, {}, Nothing, F)
  <2> DEFINE s == <<w, bd, q, y, Mark, u>>
  <2>1. s \in Seq(F) /\ Len(s) = 6 /\ s[1] = w /\ s[2] = bd /\ s[3] = q /\ s[4] = y /\ s[5] = Mark /\ s[6] = u
    BY <1>4, <1>5
  <2> HIDE DEF s
  <2>2. \A k \in 1..6 : k = 1 \/ k = 2 \/ k = 3 \/ k = 4 \/ k = 5 \/ k = 6
    OBVIOUS
  <2>3. Clear(s, 2, {"unconfig"})
    <3>1. \A m \in 1..(2 - 1) : m = 1
      OBVIOUS
    <3> QED
      BY <1>3, <2>1, <3>1 DEF Clear
  <2>4. Fits(s, 1, G, Written) /\ Fits(s, 2, G, Written)
    BY <1>3, <2>1, <2>3 DEF Fits, Needs, Holds, Written
  <2>5. \A k \in {3, 4, 5, 6} : Fits(s, k, G, Written)
    BY <1>3, <2>1 DEF Fits, Needs
  <2> QED
    BY <2>1, <2>2, <2>4, <2>5 DEF Takes, RunsThrough, Then, Nothing, s
<1>10. ASSUME NEW t, Takes(t, G, Written, G, Written, F)
       PROVE  Takes(<<f>> \o t \o <<w, bd, q, y, Mark, u>>, G, Nothing, {}, Nothing, F)
  <2>1. Takes(<<f>> \o t, G, Nothing, G, Written, F)
    BY <1>6, <1>10, TakesJoined
  <2> QED
    BY <1>9, <2>1, TakesJoined
<1>11. Takes(IF docker THEN <<bx>> ELSE <<>>, G, Written, G, Written, F)
  BY <1>7, <1>8
<1>12. Takes(<<f>> \o (IF docker THEN <<bx>> ELSE <<>>) \o <<w, bd, q, y, Mark, u>>, G, Nothing, {}, Nothing, F)
  BY <1>10, <1>11
<1> QED
  BY <1>12 DEF f, bx, bd, w, q, y, u, F

LEMMA ReleaseTakes ==
  ASSUME NEW c, NEW r
  PROVE  Takes(GoReleaserRun(c, r), {}, Nothing, {}, Nothing, FitOps("gorelease", c, r))
<1> DEFINE F == FitOps("gorelease", c, r)
           i == IF c.zig THEN Tool("goreleaser-zig") ELSE Base("goreleaser")
           G == {Base("goreleaser"), i}
           S == Simple(G, "gorelease", c, r)
           p == <<Pull(<<Base("goreleaser")>>, "err")>>
           e == BuildReleaserImage(c)
           k == IF c.token THEN <<>> ELSE <<Refuse("err")>>
           h == <<Check("exit")>>
           own == <<Create(i, FALSE, "exit"), Start("err"), Wait(FALSE, "err")>>
           default == <<Configure(c)>>
                      \o (IF r = "docker" THEN <<Bind("exit")>> ELSE <<>>)
                      \o <<Create(i, FALSE, "exit"), Bind("defer"), Start("defer"), Wait(FALSE, "defer"), Mark, Unconfigure>>
           t == IF c.own THEN own ELSE default
<1>1. "exit" \in FailKind /\ "err" \in FailKind /\ Base("goreleaser") \in BaseImage /\ Tool("goreleaser-zig") \in ToolImage
  BY StepImages DEF FailKind
<1>2. i \in G \cap (BaseImage \cup ToolImage)
  BY <1>1
<1>3. Takes(p, {}, Nothing, {Base("goreleaser")}, Nothing, F)
  <2>1. Takes(p, {}, Nothing, {} \cup Range(<<Base("goreleaser")>>), Nothing, F)
    BY <1>1, BaseLists, PullTakes
  <2>2. {} \cup Range(<<Base("goreleaser")>>) = {Base("goreleaser")}
    BY <1>1, BaseLists
  <2> QED
    BY <2>1, <2>2
<1>4. Takes(e, {Base("goreleaser")}, Nothing, G, Nothing, F)
  <2>1. CASE c.zig
    <3>1. Takes(BuildIntermidiateContainer(Tool("goreleaser-zig"), c, "tool"), {Base("goreleaser")}, Nothing,
                {Base("goreleaser")} \cup {Tool("goreleaser-zig")}, Nothing, F)
      BY <1>1, ToolTakes
    <3>2. {Base("goreleaser")} \cup {Tool("goreleaser-zig")} = G
      BY <2>1
    <3> QED
      BY <2>1, <3>1, <3>2 DEF BuildReleaserImage
  <2>2. CASE ~c.zig
    <3>1. G \subseteq {Base("goreleaser")} /\ e = <<>>
      BY <2>2 DEF BuildReleaserImage
    <3>2. Takes(<<>>, {Base("goreleaser")}, Nothing, G, Nothing, F)
      BY <3>1, EmptyTakes
    <3> QED
      BY <3>1, <3>2
  <2> QED
    BY <2>1, <2>2
<1>5. \A s \in Seq(S) : Takes(s, G, Nothing, G, Nothing, F)
  BY SimpleTakes
<1>6. k \in Seq(S) /\ h \in Seq(S)
  <2>1. (~c.token => Refuse("err") \in S) /\ Check("exit") \in S
    BY <1>1, SimpleElements
  <2> HIDE DEF S
  <2> QED
    BY <2>1
<1>7. Takes(own, G, Nothing, {}, Nothing, F)
  <2> DEFINE w == Create(i, FALSE, "exit")
             q == Start("err")
             y == Wait(FALSE, "err")
  <2>1. w \in S /\ q \in S /\ y \in S
    BY <1>1, <1>2, SimpleElements
  <2> HIDE DEF S, w, q, y
  <2>2. <<w, q, y>> \in Seq(S)
    BY <2>1
  <2>3. Takes(<<w, q, y>>, G, Nothing, {}, Nothing, F)
    BY <1>5, <2>2, TakesLess
  <2> QED
    BY <2>3 DEF w, q, y
<1>8. ASSUME ~c.own PROVE Takes(default, G, Nothing, {}, Nothing, F)
  <2> DEFINE docker == r = "docker"
  <2>1. docker \in BOOLEAN
    OBVIOUS
  <2> HIDE DEF docker, i, G
  <2>2. Takes(<<Configure(c)>>
               \o (IF docker THEN <<Bind("exit")>> ELSE <<>>)
               \o <<Create(i, FALSE, "exit"), Bind("defer"), Start("defer"), Wait(FALSE, "defer"), Mark, Unconfigure>>,
               G, Nothing, {}, Nothing, FitOps("gorelease", c, r))
    BY <1>2, <1>8, <2>1, DefaultReleaseTakes
  <2> QED
    BY <2>2 DEF docker
<1>9. Takes(t, G, Nothing, {}, Nothing, F)
  BY <1>7, <1>8
<1>10. GoReleaserRelease(c, r) = k \o h \o t
  <2>1. Create(IF c.zig THEN Tool("goreleaser-zig") ELSE Base("goreleaser"), FALSE, "exit") = Create(i, FALSE, "exit")
    OBVIOUS
  <2> QED
    BY <2>1 DEF GoReleaserRelease
<1>11. Takes(<<>>, {}, Nothing, {}, Nothing, F)
  BY EmptyTakes
<1> HIDE DEF F, S, G, p, e, k, h, t
<1>12. Takes(k \o h \o t, G, Nothing, {}, Nothing, F)
  <2>1. Takes(k \o h, G, Nothing, G, Nothing, F)
    BY <1>5, <1>6, TakesJoined
  <2> QED
    BY <1>9, <2>1, TakesJoined
<1>13. Takes(p \o e, {}, Nothing, G, Nothing, F)
  BY <1>3, <1>4, TakesJoined
<1>14. Takes((p \o e) \o (k \o h \o t), {}, Nothing, {}, Nothing, F)
  BY <1>12, <1>13, TakesJoined
<1> QED
  BY <1>10, <1>11, <1>14 DEF GoReleaserRun, p, e, F

\* A production container, from its start to its commit.
Committed == [made |-> TRUE, running |-> FALSE, configured |-> FALSE]

LEMMA PackTakes ==
  ASSUME NEW F, NEW G, NEW v \in Seq(F), NEW n \in Nat, n > 4, Len(v) = n,
         v[1].do = "create", v[1].img \in G, v[2].do = "start", v[n - 1].do = "commit", v[n].do = "stop",
         \A k \in 3..(n - 2) : v[k].do \in {"exec", "check"} \cup Copies
  PROVE  Takes(v, G, Nothing, G, Committed, F)
<1>1. ASSUME NEW k \in 1..n PROVE Fits(v, k, G, Nothing)
  <2>1. k = 1 \/ k = 2 \/ k \in 3..(n - 2) \/ k = n - 1 \/ k = n
    OBVIOUS
  <2>2. CASE k = 1
    BY <2>2 DEF Fits, Needs
  <2>3. CASE k = 2 \/ k = n - 1 \/ k = n
    BY <2>3 DEF Fits, Needs
  <2>4. CASE k \in 3..(n - 2)
    <3>1. v[k].do \in {"exec", "check", "copyFile", "copyDir"}
      BY <2>4 DEF Copies
    <3>2. Since(v, k, {"start"}, Ended)
      <4>1. \A m \in (2 + 1)..(k - 1) : m \in 3..(n - 2)
        BY <2>4
      <4>2. \A m \in (2 + 1)..(k - 1) : v[m].do \notin Ended
        BY <4>1 DEF Ended, Copies
      <4>3. 2 \in 1..(k - 1)
        BY <2>4
      <4> QED
        BY <4>2, <4>3 DEF Since
    <3> QED
      BY <3>1, <3>2 DEF Fits, Needs, Holds
  <2> QED
    BY <2>1, <2>2, <2>3, <2>4
<1>2. Since(v, n + 1, {"commit"}, {"create"})
  <2>1. n - 1 \in 1..((n + 1) - 1) /\ \A m \in ((n - 1) + 1)..((n + 1) - 1) : m = n
    OBVIOUS
  <2> QED
    BY <2>1 DEF Since
<1> QED
  BY <1>1, <1>2 DEF Takes, RunsThrough, Then, Committed, Holds

\* Its elements.
LEMMA PackElements ==
  ASSUME NEW step \in ProdStep, NEW c, NEW r
  PROVE  LET F == FitOps(step, c, r) IN
         /\ {Start("exit"), Exec("exit"), CopyFile("exit"), CopyDir("exit"), Check("exit"), Stop("exit"),
             Commit(AppTag(c), "exit")} \subseteq F
         /\ \A i \in BaseImage : Create(i, TRUE, "exit") \in F
<1> DEFINE F == FitOps(step, c, r)
           Z == {Start("exit"), Exec("exit"), CopyFile("exit"), CopyDir("exit"), Check("exit"), Stop("exit"),
                 Commit(AppTag(c), "exit")}
<1>1. "exit" \in FailKind /\ TRUE \in BOOLEAN
  BY DEF FailKind
<1>2. ASSUME NEW o \in QuietOps(c), o.do \in {"start", "exec", "copyFile", "copyDir", "check", "stop", "commit", "create"}
      PROVE  o \in F
  <2>1. o \in AnyOps(c)
    BY DEF AnyOps, ProdOps
  <2>2. Sane(o, step, c, r)
    BY <1>2 DEF Sane
  <2> QED
    BY <1>2, <2>1, <2>2, FitParts
<1>3. Z \subseteq QuietOps(c) /\ \A i \in BaseImage : Create(i, TRUE, "exit") \in QuietOps(c)
  BY <1>1, QuietElements
<1>4. \A o \in Z : o.do \in {"start", "exec", "copyFile", "copyDir", "check", "stop", "commit", "create"}
  BY DEF Start, Exec, CopyFile, CopyDir, Check, Stop, Commit, Op
<1>5. \A i : Create(i, TRUE, "exit").do = "create"
  BY DEF Create
<1> QED
  BY <1>2, <1>3, <1>4, <1>5

\* The image that was committed, or that is there, is tagged and pushed.
LEMMA PushTakes ==
  ASSUME NEW step \in ProdStep, NEW c, NEW r, NEW G, AppURI(c) \notin ToolImage
  PROVE  LET F == FitOps(step, c, r) IN
         /\ Takes(PushCommitted(AppURI(c), "exit"), G, Committed, {}, Nothing, F)
         /\ AppTag(c) \in G => Takes(PushImage(AppTag(c), AppURI(c), "err"), G, Nothing, {}, Nothing, F)
<1> DEFINE F == FitOps(step, c, r)
           tc == [do |-> "tagCommit", fail |-> "exit", img |-> AppURI(c)]
           pc == [do |-> "push", fail |-> "exit", img |-> AppURI(c)]
           ti == [do |-> "tag", fail |-> "err", src |-> AppTag(c), img |-> AppURI(c)]
           pi == [do |-> "push", fail |-> "err", img |-> AppURI(c)]
<1>1. /\ PushCommitted(AppURI(c), "exit") = <<tc, pc>> /\ PushImage(AppTag(c), AppURI(c), "err") = <<ti, pi>>
      /\ tc.do = "tagCommit" /\ tc.img = AppURI(c) /\ pc.do = "push" /\ pc.img = AppURI(c)
      /\ ti.do = "tag" /\ ti.src = AppTag(c) /\ ti.img = AppURI(c) /\ pi.do = "push" /\ pi.img = AppURI(c)
  BY DEF PushCommitted, PushImage
<1>2. tc \in F /\ pc \in F /\ ti \in F /\ pi \in F
  <2>1. tc \in TagCommitOps({AppURI(c)}) /\ pc \in PushOps({AppTag(c), AppURI(c)})
    BY DEF TagCommitOps, PushOps
  <2>2. ti \in PublishOps(c) /\ pi \in PushOps({AppTag(c), AppURI(c)})
    BY DEF PublishOps, PushOps
  <2>3. {tc, pc, ti, pi} \subseteq ProdOps(c)
    BY <2>1, <2>2 DEF ProdOps
  <2>4. \A o \in {tc, pc, ti, pi} : o.do \in {"tag", "push", "tagCommit"} /\ o.img \notin ToolImage
    BY <1>1
  <2> HIDE DEF tc, pc, ti, pi, F
  <2>5. ASSUME NEW o \in {tc, pc, ti, pi} PROVE o \in F
    <3>1. Sane(o, step, c, r)
      BY <2>4 DEF Sane, Copies
    <3> QED
      BY <2>3, <2>4, <3>1 DEF FitOps, AnyOps, F
  <2> QED
    BY <2>5
<1> HIDE DEF F, tc, pc, ti, pi
<1>3. ASSUME NEW o \in F, NEW u \in F, o.do \in {"tag", "tagCommit"}, o.img = AppURI(c), u.do = "push", u.img = AppURI(c),
             NEW x, o.do = "tag" => o.src \in G, o.do = "tagCommit" => x.made
      PROVE  Takes(<<o, u>>, G, x, {}, Nothing, F)
  <2> DEFINE s == <<o, u>>
  <2>1. s \in Seq(F) /\ Len(s) = 2 /\ s[1] = o /\ s[2] = u
    OBVIOUS
  <2> HIDE DEF s
  <2>2. Clear(s, 1, {"create"})
    BY DEF Clear
  <2>3. Fits(s, 1, G, x)
    BY <1>3, <2>1, <2>2 DEF Fits, Needs, Holds
  <2>4. Coming(s, 2, AppURI(c))
    <3>1. 1 \in 1..(2 - 1) /\ Gives(s[1]) = {AppURI(c)}
      BY <1>3, <2>1 DEF Gives
    <3> QED
      BY <3>1 DEF Coming
  <2>5. Fits(s, 2, G, x)
    BY <1>3, <2>1, <2>4 DEF Fits, Needs
  <2>6. \A k \in 1..Len(s) : k = 1 \/ k = 2
    BY <2>1
  <2> QED
    BY <2>1, <2>3, <2>5, <2>6 DEF Takes, RunsThrough, Then, Nothing, s
<1>4. Takes(<<tc, pc>>, G, Committed, {}, Nothing, F)
  BY <1>1, <1>2, <1>3 DEF Committed
<1>5. AppTag(c) \in G => Takes(<<ti, pi>>, G, Nothing, {}, Nothing, F)
  BY <1>1, <1>2, <1>3
<1> QED
  BY <1>1, <1>4, <1>5 DEF F

LEMMA ProdTakes ==
  ASSUME NEW step \in ProdStep, NEW c, NEW r, AppURI(c) \notin ToolImage
  PROVE  LET F == FitOps(step, c, r) IN
         /\ Takes(GoProd(c), {Base("alpine")}, Nothing, {}, Nothing, F)
         /\ Takes(DebianProd(c), {Base("alpine")}, Nothing, {}, Nothing, F)
         /\ Takes(ZigProd(c), {Base("alpine")}, Nothing, {}, Nothing, F)
         /\ step = "python-prod" => Takes(PythonProd(c, r), {Base("python")}, Nothing, {}, Nothing, F)
<1> DEFINE F == FitOps(step, c, r)
           Running == [made |-> FALSE, running |-> TRUE, configured |-> FALSE]
           G == {Base("python")}
           f == Refuse("exit")
           t == PushCommitted(AppURI(c), "exit")
           u == PushImage(AppTag(c), AppURI(c), "err")
           e == BuildIntermidiateContainer(AppTag(c), c, "fresh")
           wa == Create(Base("alpine"), TRUE, "exit")
           wp == Create(Base("python"), TRUE, "exit")
           q == Start("exit")
           x == Exec("exit")
           zf == CopyFile("exit")
           zd == CopyDir("exit")
           h == Check("exit")
           m == Commit(AppTag(c), "exit")
           y == Stop("exit")
<1>1. Base("alpine") \in BaseImage /\ Base("python") \in BaseImage
  BY StepImages
<1>2. /\ wa \in F /\ wp \in F /\ q \in F /\ x \in F /\ zf \in F /\ zd \in F /\ h \in F /\ m \in F /\ y \in F
  BY <1>1, PackElements
<1>3. /\ wa.do = "create" /\ wa.img = Base("alpine") /\ wp.do = "create" /\ wp.img = Base("python")
      /\ q.do = "start" /\ x.do = "exec" /\ zf.do = "copyFile" /\ zd.do = "copyDir" /\ h.do = "check"
      /\ m.do = "commit" /\ y.do = "stop" /\ f.do = "refuse"
  BY DEF Create, Start, Exec, CopyFile, CopyDir, Check, Commit, Stop, Refuse, Op
<1>4. \A J : Takes(t, J, Committed, {}, Nothing, F)
  BY PushTakes
<1>5. \A J : AppTag(c) \in J => Takes(u, J, Nothing, {}, Nothing, F)
  BY PushTakes
<1>6. \A J : Takes(e, J, Nothing, J \cup {AppTag(c)}, Nothing, F)
  <2>1. EnsureOps({AppTag(c)}, "fresh") \subseteq AnyOps(c)
    BY DEF AnyOps, ProdOps
  <2> QED
    BY <2>1, EnsureTakes
<1>7. \A I : Takes(BuildCustomProdImage(c), I, Nothing, {}, Nothing, F)
  <2> TAKE I
  <2> DEFINE J == I \cup {AppTag(c)}
  <2>1. Takes(e, I, Nothing, J, Nothing, F) /\ Takes(u, J, Nothing, {}, Nothing, F)
    BY <1>5, <1>6
  <2> HIDE DEF e, u, F, J
  <2>2. Takes(e \o u, I, Nothing, {}, Nothing, F)
    BY <2>1, TakesJoined
  <2> QED
    BY <2>2 DEF BuildCustomProdImage, e, u
<1>8. \A J : Takes(<<>>, J, Nothing, {}, Nothing, F)
  BY EmptyTakes
<1>21. step = "python-prod" /\ ~c.image /\ r # "host" => f \in F
  <2>1. f \in QuietOps(c) /\ f.do = "refuse"
    BY QuietElements DEF FailKind, Refuse, Op
  <2> HIDE DEF f
  <2> QED
    BY <2>1 DEF FitOps, Sane, Copies, AnyOps, ProdOps
<1> HIDE DEF F, G, Running, f, t, u, e, wa, wp, q, x, zf, zd, h, m, y
<1>9. ASSUME NEW z \in {zf, zd}
      PROVE  Takes(<<wa, q, x, z, m, y>>, {Base("alpine")}, Nothing, {Base("alpine")}, Committed, F)
  <2> DEFINE v == <<wa, q, x, z, m, y>>
  <2>1. v \in Seq(F) /\ Len(v) = 6 /\ v[1] = wa /\ v[2] = q /\ v[3] = x /\ v[4] = z /\ v[5] = m /\ v[6] = y
    BY <1>2
  <2> HIDE DEF v
  <2>2. \A k \in 3..4 : k = 3 \/ k = 4
    OBVIOUS
  <2>3. \A k \in 3..(6 - 2) : v[k].do \in {"exec", "check"} \cup Copies
    BY <1>3, <2>1, <2>2 DEF Copies
  <2>4. /\ v[1].do = "create" /\ v[1].img \in {Base("alpine")} /\ v[2].do = "start" /\ v[6 - 1].do = "commit"
        /\ v[6].do = "stop"
    BY <1>3, <2>1
  <2>5. 6 \in Nat /\ 6 > 4
    OBVIOUS
  <2>6. Takes(v, {Base("alpine")}, Nothing, {Base("alpine")}, Committed, F)
    BY <2>1, <2>3, <2>4, <2>5, PackTakes
  <2> QED
    BY <2>6 DEF v
<1>10. Takes(<<h, wp, q, x, zd, h, x>>, G, Nothing, G, Running, F)
  <2> DEFINE v == <<h, wp, q, x, zd, h, x>>
  <2>1. /\ v \in Seq(F) /\ Len(v) = 7 /\ v[1] = h /\ v[2] = wp /\ v[3] = q /\ v[4] = x /\ v[5] = zd /\ v[6] = h
        /\ v[7] = x
    BY <1>2
  <2> HIDE DEF v
  <2>2. ASSUME NEW k \in 4..8 PROVE Since(v, k, {"start"}, Ended)
    <3>1. 3 \in 1..(k - 1) /\ \A j \in (3 + 1)..(k - 1) : j = 4 \/ j = 5 \/ j = 6 \/ j = 7
      OBVIOUS
    <3>2. \A j \in (3 + 1)..(k - 1) : v[j].do \notin Ended
      BY <1>3, <2>1, <3>1 DEF Ended
    <3> QED
      BY <1>3, <2>1, <3>1, <3>2 DEF Since
  <2>3. \A k \in {1, 2, 3} : Fits(v, k, G, Nothing)
    BY <1>3, <2>1 DEF Fits, Needs, G
  <2>4. Fits(v, 4, G, Nothing) /\ Fits(v, 7, G, Nothing)
    BY <1>3, <2>1, <2>2 DEF Fits, Needs, Holds
  <2>5. Fits(v, 5, G, Nothing) /\ Fits(v, 6, G, Nothing)
    BY <1>3, <2>1 DEF Fits, Needs
  <2>6. \A k \in 1..Len(v) : k = 1 \/ k = 2 \/ k = 3 \/ k = 4 \/ k = 5 \/ k = 6 \/ k = 7
    BY <2>1
  <2>7. RunsThrough(v, G, Nothing)
    BY <2>3, <2>4, <2>5, <2>6 DEF RunsThrough
  <2>8. Then(v, Nothing, Running)
    BY <2>1, <2>2 DEF Then, Holds, Running
  <2> QED
    BY <2>1, <2>7, <2>8 DEF Takes, v
<1>18. \A J : Takes(<<>>, J, Running, J, Running, F)
  <2>1. <<>> \in Seq(F) /\ Len(<<>>) = 0 /\ \A k \in 1..((0 + 1) - 1) : FALSE
    OBVIOUS
  <2> QED
    BY <2>1 DEF Takes, RunsThrough, Then, Holds, Clear
<1>19. ASSUME f \in F PROVE Takes(<<f>>, G, Running, G, Running, F) /\ Takes(<<f>>, G, Nothing, G, Nothing, F)
  <2>1. <<f>> \in Seq(F) /\ Len(<<f>>) = 1 /\ <<f>>[1] = f
    BY <1>19
  <2>2. Clear(<<f>>, 2, Ended)
    <3>1. \A k \in 1..(2 - 1) : k = 1
      OBVIOUS
    <3> QED
      BY <1>3, <2>1, <3>1 DEF Clear, Ended
  <2>3. Fits(<<f>>, 1, G, Running) /\ Fits(<<f>>, 1, G, Nothing)
    BY <1>3, <2>1 DEF Fits, Needs
  <2> QED
    BY <2>1, <2>2, <2>3 DEF Takes, RunsThrough, Then, Holds, Nothing, Running
<1>20. Takes(<<m, y>>, G, Running, G, Committed, F)
  <2> DEFINE v == <<m, y>>
  <2>1. v \in Seq(F) /\ Len(v) = 2 /\ v[1] = m /\ v[2] = y
    BY <1>2
  <2> HIDE DEF v
  <2>2. Since(v, 3, {"commit"}, {"create"})
    <3>1. 1 \in 1..(3 - 1) /\ \A k \in (1 + 1)..(3 - 1) : k = 2
      OBVIOUS
    <3> QED
      BY <1>3, <2>1, <3>1 DEF Since
  <2>3. \A k \in 1..Len(v) : k = 1 \/ k = 2
    BY <2>1
  <2>4. \A k \in 1..Len(v) : Fits(v, k, G, Running)
    BY <1>3, <2>1, <2>3 DEF Fits, Needs
  <2> QED
    BY <2>1, <2>2, <2>4 DEF Takes, RunsThrough, Then, Holds, Committed, v
<1>11. ASSUME NEW J, NEW v, Takes(v, J, Nothing, J, Committed, F)
       PROVE  Takes(v \o t, J, Nothing, {}, Nothing, F) /\ Takes(v \o <<>>, J, Nothing, {}, Nothing, F)
  <2>1. Takes(v \o t, J, Nothing, {}, Nothing, F)
    BY <1>4, <1>11, TakesJoined
  <2>2. v \o <<>> = v
    <3>1. v \in Seq(F)
      BY <1>11 DEF Takes
    <3> QED
      BY <3>1
  <2>3. Takes(v, J, Nothing, {}, Nothing, F)
    BY <1>11 DEF Takes, Then, Nothing, Committed
  <2> QED
    BY <2>1, <2>2, <2>3
<1>12. GoProdContainer(c) = <<wa, q, x, zf, m, y>>
  BY DEF GoProdContainer, wa, q, x, zf, m, y
<1>13. Takes(GoProdContainer(c) \o IF c.push THEN t ELSE <<>>, {Base("alpine")}, Nothing, {}, Nothing, F)
  BY <1>9, <1>11, <1>12
<1>14. Takes(GoProd(c), {Base("alpine")}, Nothing, {}, Nothing, F)
  BY <1>7, <1>8, <1>13 DEF GoProd, t
<1>15. Takes(DebianProd(c), {Base("alpine")}, Nothing, {}, Nothing, F)
  <2>1. Takes(GoProdContainer(c) \o t, {Base("alpine")}, Nothing, {}, Nothing, F)
    BY <1>9, <1>11, <1>12
  <2> QED
    BY <1>7, <1>8, <2>1 DEF DebianProd, t
<1>16. Takes(ZigProd(c), {Base("alpine")}, Nothing, {}, Nothing, F)
  <2>1. Takes(<<wa, q, x, zd, m, y>> \o t, {Base("alpine")}, Nothing, {}, Nothing, F)
    BY <1>9, <1>11
  <2> QED
    BY <1>7, <1>8, <2>1 DEF ZigProd, t, wa, q, x, zd, m, y
<1>17. step = "python-prod" => Takes(PythonProd(c, r), G, Nothing, {}, Nothing, F)
  <2> DEFINE i == <<h, wp, q, x, zd, h, x>>
             l == IF c.image \/ r = "host" THEN <<>> ELSE <<f>>
             j == <<m, y>>
  <2> SUFFICES ASSUME step = "python-prod" PROVE Takes(PythonProd(c, r), G, Nothing, {}, Nothing, F)
    OBVIOUS
  <2>1. PythonProd(c, r) = IF c.custom THEN l \o BuildCustomProdImage(c) ELSE i \o l \o j \o t
    BY DEF PythonProd, PythonProdImage, i, l, j, f, t, wp, q, x, zd, h, m, y
  <2>2. Takes(l, G, Running, G, Running, F)
    BY <1>18, <1>19, <1>21
  <2>3. Takes(l, G, Nothing, G, Nothing, F)
    BY <1>8, <1>19, <1>21, EmptyTakes
  <2> HIDE DEF i, l, j
  <2>4. Takes(l \o BuildCustomProdImage(c), G, Nothing, {}, Nothing, F)
    BY <1>7, <2>3, TakesJoined
  <2>5. Takes(i \o l, G, Nothing, G, Running, F)
    BY <1>10, <2>2, TakesJoined DEF i
  <2>6. Takes((i \o l) \o j, G, Nothing, G, Committed, F)
    BY <1>20, <2>5, TakesJoined DEF j
  <2>7. Takes(((i \o l) \o j) \o t, G, Nothing, {}, Nothing, F)
    BY <1>11, <2>6
  <2> QED
    BY <2>1, <2>4, <2>7
<1> QED
  BY <1>14, <1>15, <1>16, <1>17 DEF F, G

\* A step begins with what its preparation leaves, and leaves what others rely on.
LEMMA ProgramTakes ==
  ASSUME NEW step \in StepName, NEW c, NEW r, AppURI(c) \notin ToolImage
  PROVE  Takes(Program(step, c, r), Prepared(step), Nothing, Leaves(step), Nothing, FitOps(step, c, r))
<1> DEFINE F == FitOps(step, c, r)
           s == Program(step, c, r)
<1>1. CASE step \in {"golang", "golang-debian", "golang-debiancgo", "maven", "python", "zig"}
  <2>0. step \in ScriptStep
    BY <1>1 DEF ScriptStep
  <2>1. Prepared(step) = {}
    BY <1>1 DEF Prepared
  <2>2. /\ Takes(GoRun(c), {}, Nothing, {Tool("go"), Base("alpine")}, Nothing, F)
        /\ Takes(DebianRun(c), {}, Nothing, {Base("alpine")}, Nothing, F)
        /\ Takes(CGORun(c), {}, Nothing, {}, Nothing, F)
        /\ Takes(MavenRun(c), {}, Nothing, {}, Nothing, F)
        /\ Takes(ZigRun(c), {}, Nothing, {Base("alpine")}, Nothing, F)
        /\ Takes(PythonRun(c), {}, Nothing, {Base("python")}, Nothing, F)
    BY <2>0, CompileTakes
  <2> HIDE DEF F
  <2>3. step = "golang" => Takes(s, {}, Nothing, Leaves(step), Nothing, F)
    BY <2>2 DEF Program, Leaves
  <2>4. step = "golang-debian" => Takes(s, {}, Nothing, Leaves(step), Nothing, F)
    BY <2>2 DEF Program, Leaves
  <2>5. step = "golang-debiancgo" => Takes(s, {}, Nothing, Leaves(step), Nothing, F)
    BY <2>2 DEF Program, Leaves
  <2>6. step = "maven" => Takes(s, {}, Nothing, Leaves(step), Nothing, F)
    BY <2>2 DEF Program, Leaves
  <2>7. step = "zig" => Takes(s, {}, Nothing, Leaves(step), Nothing, F)
    BY <2>2 DEF Program, Leaves
  <2>8. step = "python" => Takes(s, {}, Nothing, Leaves(step), Nothing, F)
    BY <2>2 DEF Program, Leaves
  <2> QED
    BY <1>1, <2>1, <2>3, <2>4, <2>5, <2>6, <2>7, <2>8 DEF F
<1>2. CASE step \in {"gcloud", "copier", "protobuf", "packer", "pulumi", "golangci-lint"}
  <2>1. Leaves(step) = {} /\ Prepared(step) = IF step = "golangci-lint" THEN {Tool("go")} ELSE {}
    BY <1>2 DEF Prepared, Leaves
  <2>2. /\ step = "gcloud" => Takes(GCloudRun(c), {}, Nothing, {}, Nothing, F)
        /\ Takes(CopierRun(c), {}, Nothing, {}, Nothing, F)
        /\ Takes(ProtobufRun(c), {}, Nothing, {}, Nothing, F)
        /\ Takes(PackerRun(c), {}, Nothing, {}, Nothing, F)
        /\ Takes(PulumiRun(c), {}, Nothing, {}, Nothing, F)
        /\ Takes(GoLint(c), {Tool("go")}, Nothing, {}, Nothing, F)
    BY ToolStepsTake
  <2> HIDE DEF F
  <2>3. step \in {"gcloud", "copier", "protobuf", "packer", "pulumi"} => Takes(s, {}, Nothing, {}, Nothing, F)
    BY <2>2 DEF Program
  <2>4. step = "golangci-lint" => Takes(s, {Tool("go")}, Nothing, {}, Nothing, F)
    BY <2>2 DEF Program
  <2> QED
    BY <1>2, <2>1, <2>3, <2>4 DEF F
<1>3. CASE step \in {"trivy", "gorelease", "github"}
  <2>1. Leaves(step) = {} /\ Prepared(step) = {}
    BY <1>3 DEF Prepared, Leaves
  <2>2. step = "trivy" => Takes(s, {}, Nothing, {}, Nothing, F)
    BY TrivyTakes DEF Program
  <2>3. step = "gorelease" => Takes(s, {}, Nothing, {}, Nothing, F)
    BY ReleaseTakes DEF Program
  <2>4. step = "github" => Takes(s, {}, Nothing, {}, Nothing, F)
    BY GithubTakes DEF Program
  <2> QED
    BY <1>3, <2>1, <2>2, <2>3, <2>4
<1>4. CASE step \in ProdStep
  <2>1. Leaves(step) = {} /\ Prepared(step) = IF step = "python-prod" THEN {Base("python")} ELSE {Base("alpine")}
    BY <1>4 DEF Prepared, Leaves, ProdStep
  <2>2. /\ Takes(GoProd(c), {Base("alpine")}, Nothing, {}, Nothing, F)
        /\ Takes(DebianProd(c), {Base("alpine")}, Nothing, {}, Nothing, F)
        /\ Takes(ZigProd(c), {Base("alpine")}, Nothing, {}, Nothing, F)
        /\ step = "python-prod" => Takes(PythonProd(c, r), {Base("python")}, Nothing, {}, Nothing, F)
    BY <1>4, ProdTakes
  <2> HIDE DEF F
  <2>3. step = "golang-prod" => Takes(s, {Base("alpine")}, Nothing, {}, Nothing, F)
    BY <2>2 DEF Program
  <2>4. step = "golang-debian-prod" => Takes(s, {Base("alpine")}, Nothing, {}, Nothing, F)
    BY <2>2 DEF Program
  <2>5. step = "zig-prod" => Takes(s, {Base("alpine")}, Nothing, {}, Nothing, F)
    BY <2>2 DEF Program
  <2>6. step = "python-prod" => Takes(s, {Base("python")}, Nothing, {}, Nothing, F)
    BY <2>2 DEF Program
  <2> QED
    BY <1>4, <2>1, <2>3, <2>4, <2>5, <2>6 DEF F, ProdStep
<1> QED
  BY <1>1, <1>2, <1>3, <1>4 DEF StepName, ProdStep

-----------------------------------------------------------------------------
(* What is ahead after an operation still fits.                            *)

\* An operation of this kind takes what x says to what y says.
Turns(kind, x, y) ==
  /\ kind = "commit" \/ (x.made /\ kind # "create") => y.made
  /\ kind = "start" \/ (x.running /\ kind \notin Ended) => y.running
  /\ kind = "config" \/ (x.configured /\ kind # "unconfig") => y.configured

LEMMA HoldsMore ==
  ASSUME NEW s, NEW k, NEW K, NEW B, NEW x, NEW y, x => y, Holds(s, k, K, B, x)
  PROVE  Holds(s, k, K, B, y)
BY DEF Holds

LEMMA ComingRest ==
  ASSUME NEW s, NEW t, Len(s) \in Nat, Len(s) > 0, Rest(s, 1, t), NEW k \in 1..(Len(t) + 1), NEW i,
         Coming(s, k + 1, i)
  PROVE  i \in Gives(s[1]) \/ Coming(t, k, i)
<1>1. PICK j \in 1..((k + 1) - 1) : i \in Gives(s[j])
  BY DEF Coming
<1>2. CASE j = 1
  BY <1>1, <1>2
<1>3. CASE j # 1
  <2>1. j - 1 \in 1..(k - 1) /\ j - 1 \in 1..Len(t) /\ (j - 1) + 1 = j
    BY <1>3 DEF Rest
  <2>2. t[j - 1] = s[j]
    BY <2>1 DEF Rest
  <2> QED
    BY <1>1, <2>1, <2>2 DEF Coming
<1> QED
  BY <1>2, <1>3

LEMMA RestRuns ==
  ASSUME NEW s, NEW t, Len(s) \in Nat, Len(s) > 0, Rest(s, 1, t), NEW G, NEW W, NEW x, NEW y, RunsThrough(s, G, x),
         G \subseteq W, Gives(s[1]) \subseteq W, Turns(s[1].do, x, y)
  PROVE  RunsThrough(t, W, y)
<1>1. Len(t) \in Nat /\ Len(s) = Len(t) + 1 /\ \A k \in 1..Len(t) : t[k] = s[k + 1]
  BY DEF Rest
<1>2. ASSUME NEW K, NEW B, NEW p, NEW q, NEW k \in 1..Len(t), Holds(s, k + 1, K, B, p),
             s[1].do \in K \/ (p /\ s[1].do \notin B) => q
      PROVE  Holds(t, k, K, B, q)
  <2>1. k \in 1..(Len(t) + 1)
    BY <1>1
  <2>2. Holds(t, k, K, B, s[1].do \in K \/ (p /\ s[1].do \notin B))
    BY <1>2, <2>1, HoldsRest
  <2> QED
    BY <1>2, <2>2 DEF Holds
<1>3. ASSUME NEW k \in 1..Len(t) PROVE Fits(t, k, W, y)
  <2>1. k + 1 \in 1..Len(s) /\ t[k] = s[k + 1] /\ k \in 1..(Len(t) + 1)
    BY <1>1
  <2>2. Fits(s, k + 1, G, x)
    BY <2>1 DEF RunsThrough
  <2>3. \A i \in Needs(t[k]) : i \in W \/ Coming(t, k, i)
    <3> TAKE i \in Needs(t[k])
    <3>1. i \in G \/ Coming(s, k + 1, i)
      BY <2>1, <2>2 DEF Fits
    <3> QED
      BY <2>1, <3>1, ComingRest
  <2>4. t[k].do = "tagCommit" => Holds(t, k, {"commit"}, {"create"}, y.made)
    <3> SUFFICES ASSUME t[k].do = "tagCommit" PROVE Holds(t, k, {"commit"}, {"create"}, y.made)
      OBVIOUS
    <3>1. Holds(s, k + 1, {"commit"}, {"create"}, x.made)
      BY <2>1, <2>2 DEF Fits
    <3>2. s[1].do \in {"commit"} \/ (x.made /\ s[1].do \notin {"create"}) => y.made
      BY DEF Turns
    <3> QED
      BY <1>2, <3>1, <3>2
  <2>5. t[k].do = "exec" => Holds(t, k, {"start"}, Ended, y.running)
    <3> SUFFICES ASSUME t[k].do = "exec" PROVE Holds(t, k, {"start"}, Ended, y.running)
      OBVIOUS
    <3>1. Holds(s, k + 1, {"start"}, Ended, x.running)
      BY <2>1, <2>2 DEF Fits
    <3>2. s[1].do \in {"start"} \/ (x.running /\ s[1].do \notin Ended) => y.running
      BY DEF Turns
    <3> QED
      BY <1>2, <3>1, <3>2
  <2>6. t[k].do = "bind" => Holds(t, k, {"config"}, {"unconfig"}, y.configured)
    <3> SUFFICES ASSUME t[k].do = "bind" PROVE Holds(t, k, {"config"}, {"unconfig"}, y.configured)
      OBVIOUS
    <3>1. Holds(s, k + 1, {"config"}, {"unconfig"}, x.configured)
      BY <2>1, <2>2 DEF Fits
    <3>2. s[1].do \in {"config"} \/ (x.configured /\ s[1].do \notin {"unconfig"}) => y.configured
      BY DEF Turns
    <3> QED
      BY <1>2, <3>1, <3>2
  <2> QED
    BY <2>3, <2>4, <2>5, <2>6 DEF Fits
<1> QED
  BY <1>3 DEF RunsThrough

\* Operations in the place of a pull or an ensure.
LEMMA ReplacedRuns ==
  ASSUME NEW s, NEW t, NEW ops, NEW u, Len(s) \in Nat, Len(s) > 0, Rest(s, 1, t), Len(ops) \in Nat, Joined(ops, t, u),
         NEW G, NEW W, NEW x, NEW y, RunsThrough(s, G, x), G \subseteq W, Turns(s[1].do, x, y), RunsThrough(ops, W, y),
         \A k \in 1..Len(ops) : ops[k].do \notin {"create", "wait", "stop", "unconfig"},
         \A i \in Gives(s[1]) : i \in W \/ Coming(ops, Len(ops) + 1, i)
  PROVE  RunsThrough(u, W, y)
<1> DEFINE J == W \cup Gives(s[1])
<1>1. RunsThrough(t, J, y)
  <2>1. G \subseteq J /\ Gives(s[1]) \subseteq J
    OBVIOUS
  <2> HIDE DEF J
  <2> QED
    BY <2>1, RestRuns
<1>2. Len(t) \in Nat
  BY DEF Rest
<1>3. Then(ops, y, y)
  <2>1. \A m \in 1..((Len(ops) + 1) - 1) : m \in 1..Len(ops)
    OBVIOUS
  <2>2. /\ Clear(ops, Len(ops) + 1, {"create"}) /\ Clear(ops, Len(ops) + 1, Ended)
        /\ Clear(ops, Len(ops) + 1, {"unconfig"})
    BY <2>1 DEF Clear, Ended
  <2> QED
    BY <2>2 DEF Then, Holds
<1>4. \A i \in J : i \in W \/ Coming(ops, Len(ops) + 1, i)
  OBVIOUS
<1> HIDE DEF J
<1> QED
  BY <1>1, <1>2, <1>3, <1>4, RunsJoined

LEMMA OtherRuns ==
  ASSUME NEW s, NEW G, NEW W, NEW x, NEW y, RunsThrough(s, G, x), G \subseteq W,
         x.made => y.made, x.running => y.running,
         (\E k \in 1..Len(s) : s[k].do = "bind") => (x.configured => y.configured)
  PROVE  RunsThrough(s, W, y)
<1>1. ASSUME NEW k \in 1..Len(s) PROVE Fits(s, k, W, y)
  <2>1. Fits(s, k, G, x)
    BY DEF RunsThrough
  <2> QED
    BY <2>1 DEF Fits, Holds
<1> QED
  BY <1>1 DEF RunsThrough

-----------------------------------------------------------------------------
(* What the managers answer while no call fails on its own.                *)

Only(outs, X) == \A out \in outs : ~out.fault => out \in X

LEMMA OnlyParts ==
  /\ \A d, w, X : Ok(d) \in X => Only(Call(d, w), X) /\ Only({Ok(d)}, X)
  /\ \A w, X : Only({Lost(w)}, X) /\ Only({Dies(w)}, X)
  /\ \A res, w, X : Only({Outcome(res, TRUE, w)}, X)
  /\ \A w, X : Refused(w) \in X => Only({Refused(w)}, X)
<1>1. \A w : Broken(w).fault /\ Lost(w).fault /\ Dies(w).fault
  BY DEF Broken, Lost, Dies, Outcome
<1>2. \A res, w : Outcome(res, TRUE, w).fault
  BY DEF Outcome
<1> QED
  BY <1>1, <1>2 DEF Only, Call

LEMMA OnlyUnion ==
  ASSUME NEW x, NEW y, NEW X, Only(x, X), Only(y, X)
  PROVE  Only(x \cup y, X)
BY DEF Only

LEMMA RuntimeCases ==
  ASSUME TypeOK, NEW x, NEW y, NEW z
  PROVE  /\ runtime \in {"docker", "podman", "host"}
         /\ runtime = "docker" => Answers(x, y, z) = x
         /\ runtime = "podman" => Answers(x, y, z) = y
         /\ runtime = "host" => Answers(x, y, z) = z
BY ContainerAssumption DEF Answers, TypeOK, ContainerAssumption

LEMMA PullOnly ==
  ASSUME TypeOK, Calm, NEW b \in Builds, NEW i, NEW p
  PROVE  LET q == IF runtime = "docker" THEN Host ELSE p IN
         /\ runtime = "host" => Only(Pulled(b, i, p), {Ok(World)})
         /\ runtime # "host" /\ Offered(World, i, q) => Only(Pulled(b, i, p), {Ok(Fetched(World, i, q))})
         /\ runtime # "host" /\ ~Offered(World, i, q) => Only(Pulled(b, i, p), {Refused(World)})
<1> DEFINE w == World
<1>1. CASE runtime = "host"
  <2>1. Pulled(b, i, p) = {Ok(w)}
    BY <1>1, RuntimeCases, HostTerms DEF Pulled, H!PullImage
  <2> QED
    BY <1>1, <2>1, OnlyParts
<1>2. CASE runtime = "docker"
  <2>1. Pulled(b, i, p) = IF Offered(w, i, Host) THEN Call(Fetched(w, i, Host), w) \cup {Lost(w)} ELSE {Refused(w)}
    BY <1>2, RuntimeCases, DockerTerms DEF Pulled, D!PullImage
  <2> HIDE DEF w
  <2>2. /\ Only(Call(Fetched(w, i, Host), w), {Ok(Fetched(w, i, Host))}) /\ Only({Lost(w)}, {Ok(Fetched(w, i, Host))})
        /\ Only({Refused(w)}, {Refused(w)})
    BY OnlyParts
  <2>3. Only(Call(Fetched(w, i, Host), w) \cup {Lost(w)}, {Ok(Fetched(w, i, Host))})
    BY <2>2, OnlyUnion
  <2> QED
    BY <1>2, <2>1, <2>2, <2>3 DEF w
<1>3. CASE runtime = "podman"
  <2>1. P!DecodeRegistryAuth(Auth(b))
    BY <1>3 DEF Calm, P!DecodeRegistryAuth
  <2>2. Pulled(b, i, p) = P!PullImage(w, i, p, Auth(b))
    BY <1>3, RuntimeCases DEF Pulled
  <2>3. P!PullImage(w, i, p, Auth(b)) = IF Offered(w, i, p) THEN Call(Fetched(w, i, p), w) ELSE {Refused(w)}
    BY <2>1, PodmanTerms DEF P!PullImage
  <2> HIDE DEF w
  <2>4. Only(Call(Fetched(w, i, p), w), {Ok(Fetched(w, i, p))}) /\ Only({Refused(w)}, {Refused(w)})
    BY OnlyParts
  <2> QED
    BY <1>3, <2>2, <2>3, <2>4 DEF w
<1> QED
  BY <1>1, <1>2, <1>3, RuntimeCases

LEMMA BuildOnly ==
  ASSUME TypeOK, NEW i, NEW body
  PROVE  LET one == Answers(D!BuildImage(World, i, body), P!BuildImage(World, i, body), H!BuildImage(World))
             all == Answers(D!BuildMultiArchImage(World, i, body), P!BuildMultiArchImage(World, i, body),
                            H!BuildMultiArchImage(World))
         IN  /\ runtime = "host" => Only(one, {Ok(World)}) /\ Only(all, {})
             /\ runtime # "host" => Only(one, {Ok(Keep(World, i, [plat |-> Host, body |-> body]))})
             /\ runtime = "docker" => Only(all, {Ok(Fetched(Offer(World, i, Platform, body), i, Host))})
             /\ runtime = "podman" =>
                  Only(all, {Ok(Offer(Keep(World, i, [plat |-> Host, body |-> body]), i, Platform, body))})
<1> DEFINE w == World
           k == Keep(w, i, [plat |-> Host, body |-> body])
           v == Offer(w, i, Platform, body)
           x == Fetched(v, i, Host)
           y == Offer(k, i, Platform, body)
           one == Answers(D!BuildImage(w, i, body), P!BuildImage(w, i, body), H!BuildImage(w))
           all == Answers(D!BuildMultiArchImage(w, i, body), P!BuildMultiArchImage(w, i, body), H!BuildMultiArchImage(w))
<1>1. /\ D!BuildImage(w, i, body) = Call(k, w) \cup {Lost(w)}
      /\ P!BuildImage(w, i, body) = {Ok(k)} \cup {Dies(w)}
      /\ H!BuildImage(w) = {Ok(w)}
  BY DockerTerms, PodmanTerms, HostTerms DEF D!BuildImage, P!BuildImage, H!BuildImage
<1>2. D!BuildMultiArchImage(w, i, body) = (Call(x, w) \cup {Lost(v), Dies(v)}) \cup (D!EnsureBuilderExists(w) \ {Ok(w)})
  <2>1. D!Call(x, w) = Call(x, w) /\ D!Lost(v) = Lost(v) /\ D!Dies(v) = Dies(v) /\ D!Ok(w) = Ok(w)
    BY DockerTerms
  <2>2. D!BuildMultiArchImage(w, i, body) =
          (D!Call(D!Fetched(D!Offer(w, i, D!Platform, body), i, Host), w)
             \cup {D!Lost(D!Offer(w, i, D!Platform, body)), D!Dies(D!Offer(w, i, D!Platform, body))})
          \cup (D!EnsureBuilderExists(w) \ {D!Ok(w)})
    BY DEF D!BuildMultiArchImage
  <2>3. D!Offer(w, i, D!Platform, body) = v
    BY DockerTerms
  <2>4. D!Fetched(v, i, Host) = x
    BY DockerTerms
  <2> QED
    BY ONLY <2>1, <2>2, <2>3, <2>4
<1>3. D!EnsureBuilderExists(w) = {Ok(w), Dies(w)}
  BY DockerTerms DEF D!EnsureBuilderExists
<1>4. P!BuildMultiArchImage(w, i, body) = (({Ok(y)} \cup {Dies(w)}) \cup {Dies(k)}) /\ H!BuildMultiArchImage(w) = {Dies(w)}
  BY PodmanTerms, HostTerms DEF P!BuildMultiArchImage, H!BuildMultiArchImage
<1>5. /\ runtime \in {"docker", "podman", "host"}
      /\ runtime = "docker" => one = D!BuildImage(w, i, body) /\ all = D!BuildMultiArchImage(w, i, body)
      /\ runtime = "podman" => one = P!BuildImage(w, i, body) /\ all = P!BuildMultiArchImage(w, i, body)
      /\ runtime = "host" => one = H!BuildImage(w) /\ all = H!BuildMultiArchImage(w)
  BY RuntimeCases
<1> HIDE DEF one, all, w, k, v, x, y
<1>6. Only(Call(k, w) \cup {Lost(w)}, {Ok(k)}) /\ Only({Ok(k)} \cup {Dies(w)}, {Ok(k)}) /\ Only({Ok(w)}, {Ok(w)})
  <2>1. /\ Only(Call(k, w), {Ok(k)}) /\ Only({Lost(w)}, {Ok(k)}) /\ Only({Ok(k)}, {Ok(k)}) /\ Only({Dies(w)}, {Ok(k)})
        /\ Only({Ok(w)}, {Ok(w)})
    BY OnlyParts
  <2> QED
    BY <2>1, OnlyUnion
<1>7. Only((Call(x, w) \cup {Lost(v), Dies(v)}) \cup ({Ok(w), Dies(w)} \ {Ok(w)}), {Ok(x)})
  <2>1. Only(Call(x, w), {Ok(x)}) /\ Only({Lost(v)}, {Ok(x)}) /\ Only({Dies(v)}, {Ok(x)}) /\ Only({Dies(w)}, {Ok(x)})
    BY OnlyParts
  <2> QED
    BY <2>1 DEF Only
<1>8. Only(({Ok(y)} \cup {Dies(w)}) \cup {Dies(k)}, {Ok(y)}) /\ Only({Dies(w)}, {})
  <2>1. Only({Ok(y)}, {Ok(y)}) /\ Only({Dies(w)}, {Ok(y)}) /\ Only({Dies(k)}, {Ok(y)}) /\ Only({Dies(w)}, {})
    BY OnlyParts
  <2> QED
    BY <2>1, OnlyUnion
<1>9. /\ runtime = "host" => Only(one, {Ok(w)}) /\ Only(all, {})
      /\ runtime # "host" => Only(one, {Ok(k)})
      /\ runtime = "docker" => Only(all, {Ok(x)})
      /\ runtime = "podman" => Only(all, {Ok(y)})
  BY <1>1, <1>2, <1>3, <1>4, <1>5, <1>6, <1>7, <1>8
<1> QED
  BY <1>9 DEF one, all, w, k, v, x, y

LEMMA TagOnly ==
  ASSUME TypeOK, NEW i, NEW image, runtime = "host" \/ image # Absent
  PROVE  LET outs == Answers(D!TagImage(World, image, i), P!TagImage(World, image, i), H!TagImage(World))
         IN  /\ runtime = "host" => Only(outs, {Ok(World)})
             /\ runtime # "host" => Only(outs, {Ok(Keep(World, i, image))})
<1> DEFINE w == World
           k == Keep(w, i, image)
           outs == Answers(D!TagImage(w, image, i), P!TagImage(w, image, i), H!TagImage(w))
<1>1. /\ image # Absent => D!TagImage(w, image, i) = Call(k, w) /\ P!TagImage(w, image, i) = Call(k, w)
      /\ H!TagImage(w) = {Ok(w)}
  BY DockerTerms, PodmanTerms, HostTerms DEF D!TagImage, P!TagImage, H!TagImage
<1>2. /\ runtime \in {"docker", "podman", "host"}
      /\ runtime = "docker" => outs = D!TagImage(w, image, i)
      /\ runtime = "podman" => outs = P!TagImage(w, image, i)
      /\ runtime = "host" => outs = H!TagImage(w)
  BY RuntimeCases
<1> HIDE DEF outs, w, k
<1>3. Only(Call(k, w), {Ok(k)}) /\ Only({Ok(w)}, {Ok(w)})
  BY OnlyParts
<1>4. (runtime = "host" => Only(outs, {Ok(w)})) /\ (runtime # "host" => Only(outs, {Ok(k)}))
  BY <1>1, <1>2, <1>3
<1> QED
  BY <1>4 DEF outs, w, k

LEMMA PushOnly ==
  ASSUME TypeOK, Calm, NEW b \in Builds, NEW i, runtime = "host" \/ Present(World, i)
  PROVE  LET outs == Answers(D!PushImage(World, i, Auth(b)), P!PushImage(World, i, Auth(b)), H!PushImage(World))
         IN  /\ runtime = "host" => Only(outs, {Ok(World)})
             /\ runtime # "host" => Only(outs, {Ok(Offer(World, i, {local[i].plat}, local[i].body))})
<1> DEFINE w == World
           k == Offer(w, i, {local[i].plat}, local[i].body)
           outs == Answers(D!PushImage(w, i, Auth(b)), P!PushImage(w, i, Auth(b)), H!PushImage(w))
<1>1. k = Offer(w, i, {w.local[i].plat}, w.local[i].body)
  BY DEF World
<1>2. runtime = "podman" => P!DecodeRegistryAuth(Auth(b))
  BY DEF Calm, P!DecodeRegistryAuth
<1> HIDE DEF k
<1>3. /\ runtime = "docker" => D!PushImage(w, i, Auth(b)) = Call(k, w) \cup {Lost(w)}
      /\ runtime = "podman" => P!PushImage(w, i, Auth(b)) = Call(k, w)
      /\ H!PushImage(w) = {Ok(w)}
  BY <1>1, <1>2, DockerTerms, PodmanTerms, HostTerms DEF D!PushImage, P!PushImage, H!PushImage
<1>4. /\ runtime \in {"docker", "podman", "host"}
      /\ runtime = "docker" => outs = D!PushImage(w, i, Auth(b))
      /\ runtime = "podman" => outs = P!PushImage(w, i, Auth(b))
      /\ runtime = "host" => outs = H!PushImage(w)
  BY RuntimeCases
<1> HIDE DEF outs, w
<1>5. Only(Call(k, w) \cup {Lost(w)}, {Ok(k)}) /\ Only(Call(k, w), {Ok(k)}) /\ Only({Ok(w)}, {Ok(w)})
  <2>1. Only(Call(k, w), {Ok(k)}) /\ Only({Lost(w)}, {Ok(k)}) /\ Only({Ok(w)}, {Ok(w)})
    BY OnlyParts
  <2> QED
    BY <2>1, OnlyUnion
<1>6. (runtime = "host" => Only(outs, {Ok(w)})) /\ (runtime # "host" => Only(outs, {Ok(k)}))
  BY <1>3, <1>4, <1>5
<1> QED
  BY <1>6 DEF outs, w, k

LEMMA InspectOnly ==
  ASSUME TypeOK, NEW i
  PROVE  LET outs == Answers(D!InspectImage(World, i), P!InspectImage(World, i), H!InspectImage(World))
         IN  /\ runtime = "host" \/ Present(World, i) => Only(outs, {Ok(World)})
             /\ ~(runtime = "host" \/ Present(World, i)) => Only(outs, {Refused(World)})
<1> DEFINE w == World
           outs == Answers(D!InspectImage(w, i), P!InspectImage(w, i), H!InspectImage(w))
<1>1. /\ D!InspectImage(w, i) = (IF Present(w, i) THEN Call(w, w) ELSE {Refused(w)})
      /\ P!InspectImage(w, i) = (IF Present(w, i) THEN Call(w, w) ELSE {Refused(w)})
      /\ H!InspectImage(w) = {Ok(w)}
  BY DockerTerms, PodmanTerms, HostTerms DEF D!InspectImage, P!InspectImage, H!InspectImage
<1>2. /\ runtime \in {"docker", "podman", "host"}
      /\ runtime = "docker" => outs = D!InspectImage(w, i)
      /\ runtime = "podman" => outs = P!InspectImage(w, i)
      /\ runtime = "host" => outs = H!InspectImage(w)
  BY RuntimeCases
<1> HIDE DEF outs, w
<1>3. Only(Call(w, w), {Ok(w)}) /\ Only({Ok(w)}, {Ok(w)}) /\ Only({Refused(w)}, {Refused(w)})
  BY OnlyParts
<1>4. /\ runtime = "host" \/ Present(w, i) => Only(outs, {Ok(w)})
      /\ ~(runtime = "host" \/ Present(w, i)) => Only(outs, {Refused(w)})
  BY <1>1, <1>2, <1>3
<1> QED
  BY <1>4 DEF outs, w

\* A container is created of an image that is there, unless Podman pulls it
\* again and it is not offered.
LEMMA CreateOnly ==
  ASSUME TypeOK, Calm, NEW b \in Builds, NEW i, NEW auto \in BOOLEAN, runtime = "host" \/ Present(World, i),
         runtime = "docker" => local[i].plat = Host \/ Offered(World, i, Host)
  PROVE  LET outs == Answers(D!CreateContainer(World, i, auto, Auth(b)), P!CreateContainer(World, i, auto, Auth(b)),
                             H!CreateContainer(World))
         IN  \/ Only(outs, {Ok(World)})
             \/ Only(outs, {Ok(Fetched(World, i, Host))}) /\ Offered(World, i, Host)
             \/ Only(outs, {Refused(World)}) /\ runtime = "podman" /\ ~Offered(World, i, Host)
<1> DEFINE w == World
           k == Fetched(w, i, Host)
           outs == Answers(D!CreateContainer(w, i, auto, Auth(b)), P!CreateContainer(w, i, auto, Auth(b)),
                           H!CreateContainer(w))
<1>1. D!CreateContainer(w, i, auto, Auth(b)) =
        (IF ~Present(w, i) THEN {Refused(w)}
         ELSE IF ~auto \/ w.local[i].plat = Host THEN Call(w, w)
         ELSE IF Offered(w, i, Host) THEN Call(k, w) ELSE {Refused(w)})
  BY DockerTerms DEF D!CreateContainer
<1>2. P!CreateContainer(w, i, auto, Auth(b)) =
        (IF auto THEN P!PullImage(w, i, Host, Auth(b)) ELSE IF Present(w, i) THEN Call(w, w) ELSE {Refused(w)})
  BY PodmanTerms DEF P!CreateContainer
<1>3. runtime = "podman" => P!PullImage(w, i, Host, Auth(b)) = IF Offered(w, i, Host) THEN Call(k, w) ELSE {Refused(w)}
  <2>1. runtime = "podman" => P!DecodeRegistryAuth(Auth(b))
    BY DEF Calm, P!DecodeRegistryAuth
  <2> QED
    BY <2>1, PodmanTerms DEF P!PullImage
<1>4. H!CreateContainer(w) = Call(w, w)
  BY HostTerms DEF H!CreateContainer
<1>5. /\ runtime \in {"docker", "podman", "host"}
      /\ runtime = "docker" => outs = D!CreateContainer(w, i, auto, Auth(b))
      /\ runtime = "podman" => outs = P!CreateContainer(w, i, auto, Auth(b))
      /\ runtime = "host" => outs = H!CreateContainer(w)
  BY RuntimeCases
<1>6. w.local[i] = local[i]
  BY DEF World
<1> HIDE DEF outs, w, k
<1>7. Only(Call(w, w), {Ok(w)}) /\ Only(Call(k, w), {Ok(k)}) /\ Only({Refused(w)}, {Refused(w)})
  BY OnlyParts
<1>8. Present(w, i) \/ runtime = "host"
  BY DEF w
<1>9. runtime = "docker" => local[i].plat = Host \/ Offered(w, i, Host)
  BY DEF w
<1>10. \/ Only(outs, {Ok(w)})
       \/ Only(outs, {Ok(k)}) /\ Offered(w, i, Host)
       \/ Only(outs, {Refused(w)}) /\ runtime = "podman" /\ ~Offered(w, i, Host)
  <2>1. CASE runtime = "docker"
    BY <1>1, <1>5, <1>6, <1>7, <1>8, <1>9, <2>1
  <2>2. CASE runtime = "podman"
    BY <1>2, <1>3, <1>5, <1>7, <1>8, <2>2
  <2>3. CASE runtime = "host"
    BY <1>4, <1>5, <1>7, <2>3
  <2> QED
    BY <1>5, <2>1, <2>2, <2>3
<1> QED
  BY <1>10 DEF outs, w, k

LEMMA QuietOnly ==
  ASSUME TypeOK
  PROVE  /\ Only(Answers(D!StopContainer(World), P!StopContainer(World), H!StopContainer(World)), {Ok(World)})
         /\ \A x : runtime = "host" \/ x =>
              Only(Answers(D!ExecContainer(World, x), P!ExecContainer(World, x), H!ExecContainer(World)), {Ok(World)})
         /\ \A x : runtime # "host" \/ x =>
              Only(Answers(D!CopyContentToContainer(World), P!CopyContentToContainer(World),
                           H!CopyContentToContainer(World, x)), {Ok(World)})
         /\ \A out \in Answers(D!WaitContainer(World), P!WaitContainer(World), H!WaitContainer(World)) :
              ~out.fault => out = Ok(World)
<1> DEFINE w == World
<1>1. /\ runtime \in {"docker", "podman", "host"}
      /\ \A x, y, z : /\ runtime = "docker" => Answers(x, y, z) = x
                      /\ runtime = "podman" => Answers(x, y, z) = y
                      /\ runtime = "host" => Answers(x, y, z) = z
  BY RuntimeCases
<1>2. /\ D!StopContainer(w) = Call(w, w) /\ P!StopContainer(w) = Call(w, w) /\ H!StopContainer(w) = {Ok(w)}
      /\ \A x : x => D!ExecContainer(w, x) = Call(w, w) /\ P!ExecContainer(w, x) = Call(w, w)
      /\ H!ExecContainer(w) = {Ok(w)}
      /\ D!CopyContentToContainer(w) = Call(w, w) /\ P!CopyContentToContainer(w) = Call(w, w)
      /\ \A x : x => H!CopyContentToContainer(w, x) = Call(w, w) \cup {Dies(w)}
  BY DockerTerms, PodmanTerms, HostTerms
     DEF D!StopContainer, P!StopContainer, H!StopContainer, D!ExecContainer, P!ExecContainer, H!ExecContainer,
         D!CopyContentToContainer, P!CopyContentToContainer, H!CopyContentToContainer
<1>3. /\ D!WaitContainer(w) = Call(w, w) \cup {Outcome("nonzero", TRUE, w)}
      /\ P!WaitContainer(w) = Call(w, w) \cup {Outcome("nonzero", TRUE, w)}
      /\ H!WaitContainer(w) = Call(w, w) \cup {Outcome("nonzero", TRUE, w)}
  BY DockerTerms, PodmanTerms, HostTerms DEF D!WaitContainer, P!WaitContainer, H!WaitContainer
<1> HIDE DEF w
<1>4. Only(Call(w, w), {Ok(w)}) /\ Only({Ok(w)}, {Ok(w)}) /\ Only({Outcome("nonzero", TRUE, w)}, {Ok(w)})
  BY OnlyParts
<1>5. Only(Call(w, w) \cup {Outcome("nonzero", TRUE, w)}, {Ok(w)})
  BY <1>4, OnlyUnion
<1>10. Only(Call(w, w) \cup {Dies(w)}, {Ok(w)})
  <2>1. Only({Dies(w)}, {Ok(w)})
    BY OnlyParts
  <2> QED
    BY <1>4, <2>1, OnlyUnion
<1>6. Only(Answers(D!StopContainer(w), P!StopContainer(w), H!StopContainer(w)), {Ok(w)})
  BY <1>1, <1>2, <1>4
<1>7. ASSUME NEW x, runtime = "host" \/ x
      PROVE  Only(Answers(D!ExecContainer(w, x), P!ExecContainer(w, x), H!ExecContainer(w)), {Ok(w)})
  BY <1>1, <1>2, <1>4, <1>7
<1>8. ASSUME NEW x, runtime # "host" \/ x
      PROVE  Only(Answers(D!CopyContentToContainer(w), P!CopyContentToContainer(w), H!CopyContentToContainer(w, x)), {Ok(w)})
  BY <1>1, <1>2, <1>4, <1>8, <1>10
<1>9. \A out \in Answers(D!WaitContainer(w), P!WaitContainer(w), H!WaitContainer(w)) : ~out.fault => out = Ok(w)
  <2> DEFINE outs == Answers(D!WaitContainer(w), P!WaitContainer(w), H!WaitContainer(w))
  <2>1. outs = Call(w, w) \cup {Outcome("nonzero", TRUE, w)}
    BY <1>1, <1>3
  <2> HIDE DEF outs
  <2>2. \A out \in outs : ~out.fault => out = Ok(w)
    BY <1>5, <2>1 DEF Only
  <2> QED
    BY <2>2 DEF outs
<1> QED
  BY <1>6, <1>7, <1>8, <1>9 DEF w

LEMMA StartOnly ==
  ASSUME TypeOK, NEW m, runtime = "host" => ~workdir
  PROVE  LET outs == Answers(D!StartContainer(World), P!StartContainer(World), H!StartContainer(World, m))
         IN  Only(outs, {Ok(World), Ok([World EXCEPT !.workdir = @ \/ m])})
<1> DEFINE w == World
           k == [w EXCEPT !.workdir = @ \/ m]
           outs == Answers(D!StartContainer(w), P!StartContainer(w), H!StartContainer(w, m))
<1>1. w.workdir = workdir
  BY DEF World
<1>2. /\ D!StartContainer(w) = Call(w, w) /\ P!StartContainer(w) = Call(w, w)
      /\ ~w.workdir => H!StartContainer(w, m) = IF ~m THEN Call(w, w) ELSE {Ok(k), Broken(k), Dies(w)}
  BY DockerTerms, PodmanTerms, HostTerms
     DEF D!StartContainer, P!StartContainer, H!StartContainer, H!Broken, Broken, H!Dies, Dies, H!Ok, Ok, H!Outcome, Outcome
<1>3. /\ runtime \in {"docker", "podman", "host"}
      /\ runtime = "docker" => outs = D!StartContainer(w)
      /\ runtime = "podman" => outs = P!StartContainer(w)
      /\ runtime = "host" => outs = H!StartContainer(w, m)
  BY RuntimeCases
<1> HIDE DEF outs, w, k
<1>4. Only(Call(w, w), {Ok(w), Ok(k)}) /\ Only({Ok(k), Broken(k), Dies(w)}, {Ok(w), Ok(k)})
  <2>1. {Ok(k), Broken(k), Dies(w)} = Call(k, k) \cup {Dies(w)}
    BY DEF Call
  <2>2. Only(Call(w, w), {Ok(w), Ok(k)}) /\ Only(Call(k, k), {Ok(w), Ok(k)}) /\ Only({Dies(w)}, {Ok(w), Ok(k)})
    BY OnlyParts
  <2> QED
    BY <2>1, <2>2, OnlyUnion
<1>5. Only(outs, {Ok(w), Ok(k)})
  BY <1>1, <1>2, <1>3, <1>4
<1> QED
  BY <1>5 DEF outs, w, k

LEMMA CopyOnly ==
  ASSUME TypeOK, NEW found \in BOOLEAN, NEW links \in BOOLEAN, found, runtime = "podman" => ~links
  PROVE  /\ Only(Answers(D!CopyToContainer(World, found), P!CopyToContainer(World, found), H!CopyToContainer(World)),
                 {Ok(World)})
         /\ Only(Answers(D!CopyDirectorToContainer(World, found, links), P!CopyDirectorToContainer(World, found, links),
                         H!CopyDirectorToContainer(World)), {Ok(World)})
<1> DEFINE w == World
<1>1. /\ runtime \in {"docker", "podman", "host"}
      /\ \A x, y, z : /\ runtime = "docker" => Answers(x, y, z) = x
                      /\ runtime = "podman" => Answers(x, y, z) = y
                      /\ runtime = "host" => Answers(x, y, z) = z
  BY RuntimeCases
<1>2. /\ D!CopyToContainer(w, found) = Call(w, w) /\ P!CopyToContainer(w, found) = Call(w, w)
      /\ H!CopyToContainer(w) = {Ok(w)} /\ H!CopyDirectorToContainer(w) = {Ok(w)}
      /\ D!CopyDirectorToContainer(w, found, links) = Call(w, w)
      /\ ~links => P!CopyDirectorToContainer(w, found, links) = Call(w, w)
  BY DockerTerms, PodmanTerms, HostTerms
     DEF D!CopyToContainer, P!CopyToContainer, H!CopyToContainer, D!CopyDirectorToContainer, P!CopyDirectorToContainer,
         H!CopyDirectorToContainer
<1> DEFINE file == Answers(D!CopyToContainer(w, found), P!CopyToContainer(w, found), H!CopyToContainer(w))
           dir == Answers(D!CopyDirectorToContainer(w, found, links), P!CopyDirectorToContainer(w, found, links),
                          H!CopyDirectorToContainer(w))
<1>3. /\ runtime = "docker" => file = D!CopyToContainer(w, found) /\ dir = D!CopyDirectorToContainer(w, found, links)
      /\ runtime = "podman" => file = P!CopyToContainer(w, found) /\ dir = P!CopyDirectorToContainer(w, found, links)
      /\ runtime = "host" => file = H!CopyToContainer(w) /\ dir = H!CopyDirectorToContainer(w)
  BY RuntimeCases
<1> HIDE DEF file, dir
<1>4. file \in {Call(w, w), {Ok(w)}} /\ dir \in {Call(w, w), {Ok(w)}}
  BY <1>1, <1>2, <1>3
<1> HIDE DEF w
<1>5. Only(Call(w, w), {Ok(w)}) /\ Only({Ok(w)}, {Ok(w)})
  BY OnlyParts
<1>6. Only(file, {Ok(w)}) /\ Only(dir, {Ok(w)})
  BY <1>4, <1>5
<1> QED
  BY <1>6 DEF file, dir, w

LEMMA CommitOnly ==
  ASSUME TypeOK, NEW i, NEW body
  PROVE  LET outs == Answers(D!CommitContainer(World, i, body), P!CommitContainer(World, i, body), H!CommitContainer(World))
         IN  /\ runtime = "host" => Only(outs, {Ok(World)})
             /\ runtime # "host" => Only(outs, {Ok(Keep(World, i, [plat |-> Host, body |-> body]))})
<1> DEFINE w == World
           k == Keep(w, i, [plat |-> Host, body |-> body])
           outs == Answers(D!CommitContainer(w, i, body), P!CommitContainer(w, i, body), H!CommitContainer(w))
<1>1. /\ D!CommitContainer(w, i, body) = Call(k, w) /\ P!CommitContainer(w, i, body) = Call(k, w)
      /\ H!CommitContainer(w) = {Ok(w)}
  BY DockerTerms, PodmanTerms, HostTerms DEF D!CommitContainer, P!CommitContainer, H!CommitContainer
<1>2. /\ runtime \in {"docker", "podman", "host"}
      /\ runtime = "docker" => outs = D!CommitContainer(w, i, body)
      /\ runtime = "podman" => outs = P!CommitContainer(w, i, body)
      /\ runtime = "host" => outs = H!CommitContainer(w)
  BY RuntimeCases
<1> HIDE DEF outs, w, k
<1>3. Only(Call(k, w), {Ok(k)}) /\ Only({Ok(w)}, {Ok(w)})
  BY OnlyParts
<1>4. (runtime = "host" => Only(outs, {Ok(w)})) /\ (runtime # "host" => Only(outs, {Ok(k)}))
  BY <1>1, <1>2, <1>3
<1> QED
  BY <1>4 DEF outs, w, k

-----------------------------------------------------------------------------
(* What an operation of b leaves in the stores: every image it found, for  *)
(* the machine that found it.                                              *)

Grows(b, w) ==
  /\ \A i \in Image : local[i] # Absent => w.local[i] # Absent
  /\ \A i \in Image, p \in Platform : remote[i][p] # None => w.remote[i][p] # None
  /\ \A i \in ToolImage :
       /\ (runtime = "docker" \/ job[b].cfg.host = "linux") /\ local[i].plat = Host => w.local[i].plat = Host
       /\ w.local[i].plat = Host =>
            local[i].plat = Host \/ w.remote[i][Host] # None \/ (Op0(b).do = "build" /\ Op0(b).img = i)

LEMMA GrowsSame ==
  ASSUME NEW b, NEW w, w.local = local, w.remote = remote
  PROVE  Grows(b, w)
BY DEF Grows

LEMMA StoredNot ==
  ASSUME NEW p \in Platform, NEW x
  PROVE  [plat |-> p, body |-> x] # Absent
BY ContainerAssumption DEF ContainerAssumption, Absent

LEMMA GrowsFetched ==
  ASSUME TypeOK, NEW b, NEW i \in Image, NEW p \in Platform, Offered(World, i, p),
         p = Host \/ (runtime # "docker" /\ job[b].cfg.host # "linux")
  PROVE  LET w == Fetched(World, i, p) IN
         /\ Grows(b, w) /\ w.remote = remote /\ w.local[i] # Absent /\ w.local[i].plat = p
<1> DEFINE w == Fetched(World, i, p)
           x == [plat |-> p, body |-> remote[i][p]]
<1>1. w.local = [local EXCEPT ![i] = x] /\ w.remote = remote
  BY DEF Fetched, Keep, World
<1>2. x # Absent /\ x.plat = p
  BY StoredNot
<1>3. local \in [Image -> Stored]
  BY DEF TypeOK
<1>4. remote[i][p] # None
  BY DEF Offered, World
<1> HIDE DEF w, x
<1>5. w.local[i] = x /\ \A j \in Image : j # i => w.local[j] = local[j]
  BY <1>1, <1>3
<1>6. ToolImage \subseteq Image
  BY ImagesInPlay
<1>7. Grows(b, w)
  BY <1>1, <1>2, <1>4, <1>5, <1>6 DEF Grows
<1> QED
  BY <1>1, <1>2, <1>5, <1>7 DEF w

LEMMA GrowsKept ==
  ASSUME TypeOK, NEW b, NEW i \in Image, NEW image, image # Absent,
         i \in ToolImage => image = local[i] \/ (image.plat = Host /\ Op0(b).do = "build" /\ Op0(b).img = i)
  PROVE  LET w == Keep(World, i, image) IN
         /\ Grows(b, w) /\ w.remote = remote /\ w.local[i] = image
<1> DEFINE w == Keep(World, i, image)
<1>1. w.local = [local EXCEPT ![i] = image] /\ w.remote = remote
  BY DEF Keep, World
<1>3. local \in [Image -> Stored]
  BY DEF TypeOK
<1> HIDE DEF w
<1>5. w.local[i] = image /\ \A j \in Image : j # i => w.local[j] = local[j]
  BY <1>1, <1>3
<1>6. ToolImage \subseteq Image
  BY ImagesInPlay
<1>7. Grows(b, w)
  BY <1>1, <1>5, <1>6 DEF Grows
<1> QED
  BY <1>1, <1>5, <1>7 DEF w

LEMMA GrowsPushed ==
  ASSUME TypeOK, NEW b, NEW i \in Image, local[i] # Absent
  PROVE  LET w == Offer(World, i, {local[i].plat}, local[i].body) IN
         /\ Grows(b, w) /\ w.local = local /\ w.remote[i][local[i].plat] # None
<1> DEFINE w == Offer(World, i, {local[i].plat}, local[i].body)
           x == local[i]
<1>1. w.local = local /\ w.remote = [remote EXCEPT ![i] = [p \in Platform |-> IF p \in {x.plat} THEN x.body ELSE @[p]]]
  BY DEF Offer, World
<1>2. local \in [Image -> Stored] /\ remote \in [Image -> [Platform -> Body \cup {None}]]
  BY DEF TypeOK
<1>3. x.body \in Body /\ x.plat \in Platform /\ None \notin Body
  <2>1. x \in Stored /\ x # Absent
    BY <1>2
  <2> HIDE DEF x
  <2>2. x.body \in Body /\ x.plat \in Platform
    BY <2>1, PresentStored
  <2> QED
    BY <2>2, StoredFacts
<1> HIDE DEF w, x
<1>4. /\ w.remote[i] = [p \in Platform |-> IF p \in {x.plat} THEN x.body ELSE remote[i][p]]
      /\ \A j \in Image : j # i => w.remote[j] = remote[j]
  BY <1>1, <1>2
<1>5. \A p \in Platform : w.remote[i][p] = IF p \in {x.plat} THEN x.body ELSE remote[i][p]
  BY <1>4
<1>6. w.remote[i][x.plat] # None /\ \A p \in Platform : remote[i][p] # None => w.remote[i][p] # None
  BY <1>3, <1>5
<1>7. Grows(b, w)
  BY <1>1, <1>4, <1>6 DEF Grows
<1> QED
  BY <1>1, <1>6, <1>7 DEF w, x

LEMMA GrowsBoth ==
  ASSUME TypeOK, NEW b, NEW i \in Image, NEW body \in Body
  PROVE  LET v == Fetched(Offer(World, i, Platform, body), i, Host)
             y == Offer(Keep(World, i, [plat |-> Host, body |-> body]), i, Platform, body)
         IN \A w \in {v, y} :
              Grows(b, w) /\ w.local[i] # Absent /\ w.local[i].plat = Host /\ w.remote[i][Host] # None
<1> DEFINE v == Fetched(Offer(World, i, Platform, body), i, Host)
           y == Offer(Keep(World, i, [plat |-> Host, body |-> body]), i, Platform, body)
           q == Offer(World, i, Platform, body)
           x == [plat |-> Host, body |-> body]
           r == [remote EXCEPT ![i] = [p \in Platform |-> IF p \in Platform THEN body ELSE @[p]]]
<1>1. q.remote = r /\ q.local = local
  BY DEF Offer, World
<1>2. /\ y.remote = r /\ y.local = [local EXCEPT ![i] = x]
  BY DEF Offer, Keep, World
<1>3. local \in [Image -> Stored] /\ remote \in [Image -> [Platform -> Body \cup {None}]]
  BY DEF TypeOK
<1>4. None \notin Body /\ Host \in Platform /\ x # Absent /\ x.plat = Host
  BY StoredFacts, StoredNot
<1> HIDE DEF r
<1>5. r[i] = [p \in Platform |-> IF p \in Platform THEN body ELSE remote[i][p]] /\ \A j \in Image : j # i => r[j] = remote[j]
  BY <1>3 DEF r
<1>6. \A p \in Platform : r[i][p] = body
  BY <1>5
<1>7. v.remote = r /\ v.local = [local EXCEPT ![i] = [plat |-> Host, body |-> r[i][Host]]]
  <2>1. v = [q EXCEPT !.local[i] = [plat |-> Host, body |-> q.remote[i][Host]]]
    BY DEF Fetched, Keep
  <2>2. q = [[local |-> local, remote |-> remote, workdir |-> workdir, config |-> config]
               EXCEPT !.remote[i] = [p \in Platform |-> IF p \in Platform THEN body ELSE @[p]]]
    BY DEF Offer, World
  <2> QED
    BY <1>1, <2>1, <2>2
<1>8. [plat |-> Host, body |-> r[i][Host]] = x
  BY <1>4, <1>6
<1> HIDE DEF v, y, q, x
<1>9. ASSUME NEW w \in {v, y} PROVE Grows(b, w) /\ w.local[i] # Absent /\ w.local[i].plat = Host /\ w.remote[i][Host] # None
  <2>1. w.remote = r /\ w.local = [local EXCEPT ![i] = x]
    BY <1>2, <1>7, <1>8
  <2>2. w.local[i] = x /\ \A j \in Image : j # i => w.local[j] = local[j]
    BY <1>3, <2>1
  <2>3. ToolImage \subseteq Image
    BY ImagesInPlay
  <2>4. \A j \in Image, p \in Platform : remote[j][p] # None => w.remote[j][p] # None
    BY <1>4, <1>5, <1>6, <2>1
  <2>5. w.remote[i][Host] # None
    BY <1>4, <1>6, <2>1
  <2> QED
    BY <1>4, <2>2, <2>3, <2>4, <2>5 DEF Grows
<1> QED
  BY <1>9 DEF v, y

-----------------------------------------------------------------------------
(* An operation that leaves every build with what it needs.                *)
Pushing(s, i) == \E k \in 1..Len(s) : s[k].do = "push" /\ s[k].img = i
\* b has done its operation and found or left the world w.
Moved(b, w) ==
  /\ Grows(b, w) /\ local' = w.local /\ remote' = w.remote
  /\ UNCHANGED place
  /\ \A c \in Builds : c # b => todo'[c] = todo[c] /\ ctr'[c] = ctr[c]
  /\ config' = None => config = None \/ Op0(b).do = "unconfig"
  /\ Turns(Op0(b).do, Standing(b), Standing(b)')
\* The image is there, and a tool image can be pulled again.
Stocks(i) ==
  \/ runtime = "host"
  \/ /\ local'[i] # Absent
     /\ i \in ToolImage => \/ Available(i) \/ local'[i].plat = Host
                           \/ runtime = "podman" /\ remote'[i][Host] # None
PushesStay(b) ==
  runtime = "podman" => \A i \in ToolImage :
    /\ Pushing(todo[b], i) => Pushing(todo'[b], i) \/ remote'[i][Host] # None
    /\ Op0(b).do = "build" /\ Op0(b).img = i => Pushing(todo'[b], i)
Typed == TypeOK /\ TodoTyped

LEMMA ProgramLength ==
  ASSUME Typed, NEW b \in Builds
  PROVE  /\ Len(todo[b]) \in Nat /\ DOMAIN todo[b] = 1..Len(todo[b])
         /\ pos[b] \in Nat /\ pos[b] \in 0..Len(job[b].steps)
<1>0. <<>> \in Seq({})
  OBVIOUS
<1>1. \E S : todo[b] \in Seq(S)
  BY <1>0 DEF Typed, TodoTyped
<1>2. Len(todo[b]) \in Nat /\ DOMAIN todo[b] = 1..Len(todo[b])
  BY ONLY <1>1
<1>3. Len(job[b].steps) \in Nat
  BY StepCfg DEF Typed
<1>. QED
  BY <1>2, <1>3 DEF Typed, TypeOK

LEMMA ProgramLengthNext ==
  ASSUME Typed', NEW b \in Builds'
  PROVE  Len(todo'[b]) \in Nat /\ DOMAIN (todo'[b]) = 1..Len(todo'[b])
<1>0. <<>> \in Seq({})
  OBVIOUS
<1>1. \E S : todo'[b] \in Seq(S)
  BY <1>0 DEF Typed, TodoTyped
<1>. QED
  BY ONLY <1>1

LEMMA PushAheadIs ==
  /\ Typed => \A i : PushAhead(i) <=> \E b \in Builds : Pushing(todo[b], i)
  /\ Typed' => \A i : PushAhead(i)' <=> \E b \in Builds' : Pushing(todo'[b], i)
<1>1. Typed => \A b \in Builds : DOMAIN todo[b] = 1..Len(todo[b])
  BY ProgramLength
<1>2. Typed' => \A b \in Builds' : DOMAIN (todo'[b]) = 1..Len(todo'[b])
  BY ProgramLengthNext
<1>3. Typed => \A i : PushAhead(i) <=> \E b \in Builds : Pushing(todo[b], i)
  BY <1>1 DEF PushAhead, Pushing
<1>4. Typed' => \A i : PushAhead(i)' <=> \E b \in Builds' : Pushing(todo'[b], i)
  BY <1>2 DEF PushAhead, Pushing
<1>. QED
  BY <1>3, <1>4

LEMMA KnownImages ==
  /\ BaseImage \subseteq Image /\ ToolImage \subseteq Image
  /\ \A step : Leaves(step) \subseteq Image
<1>1. BaseImage \subseteq Image /\ ToolImage \subseteq Image
  BY ContainerAssumption
<1>2. {Tool("go"), Base("alpine")} \subseteq BaseImage \cup ToolImage /\ Base("python") \in BaseImage
  BY DEF BaseImage, ToolImage
<1>. QED
  BY <1>1, <1>2 DEF Leaves

\* What was available stays so.
LEMMA KeptStock ==
  ASSUME Typed, Typed', NEW b \in Builds, NEW w, Moved(b, w), PushesStay(b), ToolsPullable
  PROVE  /\ \A i \in Image : Available(i) => Available(i)'
         /\ ToolsPullable'
         /\ \A i \in Image : Stocks(i) => Available(i)'
<1>1. runtime' = runtime /\ run' = run /\ job' = job /\ Builds' = Builds
  BY DEF Moved, place, Builds
<1>g. /\ \A i \in Image : local[i] # Absent => local'[i] # Absent
      /\ \A i \in Image, p \in Platform : remote[i][p] # None => remote'[i][p] # None
      /\ \A i \in ToolImage :
           /\ runtime = "docker" /\ local[i].plat = Host => local'[i].plat = Host
           /\ local'[i].plat = Host =>
                local[i].plat = Host \/ remote'[i][Host] # None \/ (Op0(b).do = "build" /\ Op0(b).img = i)
  BY DEF Moved, Grows
<1>2. \A i \in ToolImage : runtime = "podman" /\ PushAhead(i) => PushAhead(i)' \/ remote'[i][Host] # None
  <2>. SUFFICES ASSUME NEW i \in ToolImage, runtime = "podman", PushAhead(i)
       PROVE  PushAhead(i)' \/ remote'[i][Host] # None
    OBVIOUS
  <2>1. PICK c \in Builds : Pushing(todo[c], i)
    BY PushAheadIs
  <2>2. Pushing(todo'[c], i) \/ remote'[i][Host] # None
    BY <2>1 DEF Moved, PushesStay
  <2>. QED
    BY <2>2, <1>1, PushAheadIs
<1>3. \A i \in ToolImage : Pullable(i) => Pullable(i)'
  BY <1>1, <1>2, <1>g, KnownImages, Host \in Platform DEF Pullable, Platform
<1>4. \A i \in Image : Available(i) => Available(i)'
  BY <1>1, <1>3, <1>g DEF Available, Present, World
<1>5. ToolsPullable'
  <2>. SUFFICES ASSUME NEW i \in ToolImage, runtime = "podman", local'[i].plat = Host
       PROVE  Pullable(i)'
    BY <1>1 DEF ToolsPullable
  <2>1. CASE local[i].plat = Host
    BY <2>1, <1>3 DEF ToolsPullable
  <2>2. CASE remote'[i][Host] # None
    BY <2>2, <1>1 DEF Pullable
  <2>3. CASE Op0(b).do = "build" /\ Op0(b).img = i
    <3>1. Pushing(todo'[b], i)
      BY <2>3 DEF PushesStay
    <3>2. PushAhead(i)'
      BY <3>1, <1>1, PushAheadIs
    <3>. QED
      BY <3>2, <1>1 DEF Pullable
  <2>. QED
    BY <2>1, <2>2, <2>3, <1>g
<1>6. \A i \in Image : Stocks(i) => Available(i)'
  <2>. SUFFICES ASSUME NEW i \in Image, Stocks(i), runtime # "host"
       PROVE  local'[i] # Absent /\ (i \in ToolImage => Pullable(i)')
    BY <1>1 DEF Available, Present, World
  <2>1. local'[i] # Absent /\ (i \in ToolImage => Available(i) \/ local'[i].plat = Host
                                                  \/ (runtime = "podman" /\ remote'[i][Host] # None))
    BY DEF Stocks
  <2>2. ASSUME i \in ToolImage  PROVE Pullable(i)'
    <3>0. runtime \in {"docker", "podman"}
      BY StepCfg DEF Typed
    <3>1. CASE Available(i)
      BY <3>1, <2>2, <1>3 DEF Available
    <3>2. CASE local'[i].plat = Host
      BY <3>2, <3>0, <2>2, <1>1, <1>5 DEF Pullable, ToolsPullable
    <3>3. CASE runtime = "podman" /\ remote'[i][Host] # None
      BY <3>3, <1>1 DEF Pullable
    <3>. QED
      BY <3>1, <3>2, <3>3, <2>1, <2>2
  <2>. QED
    BY <2>1, <2>2
<1>. QED
  BY <1>4, <1>5, <1>6

\* A release that is under way is a step its build has begun.
LEMMA ReleasingTwo ==
  ASSUME Typed, NEW b \in Builds, NEW c \in Builds, b # c,
         \A d \in {b, c} : pos[d] > 0 /\ Current(d) = "gorelease" /\ ~job[d].cfg.own
  PROVE  ReleasedTogether
<1>1. \A d \in {b, c} : pos[d] \in 1..pos[d]
  BY ProgramLength
<1>. QED
  BY <1>1 DEF ReleasedTogether, Current

\* What a step makes sure of is an image in play.
LEMMA EnsuredImage ==
  ASSUME Typed, NEW c \in Builds
  PROVE  \A k \in 1..Len(todo[c]) : todo[c][k].do = "ensure" => todo[c][k].img \in Image
<1>. SUFFICES ASSUME NEW k \in 1..Len(todo[c]), todo[c][k].do = "ensure"
     PROVE  todo[c][k].img \in Image
  OBVIOUS
<1>0. todo[c] # <<>>
  OBVIOUS
<1>1. todo[c] \in Seq(StepOps(Current(c), job[c].cfg))
  BY <1>0, HeadOp DEF Typed
<1>2. todo[c][k] \in StepOps(Current(c), job[c].cfg)
  BY ONLY <1>1, k \in 1..Len(todo[c])
<1>3. AppTag(job[c].cfg) \in Image /\ AppTag(job[c].cfg) \notin ToolImage
  BY StepCfg DEF Typed
<1>4. PICK X \in {ToolImage, {AppTag(job[c].cfg)}}, body \in {"tool", "fresh"} : todo[c][k] \in EnsureOps(X, body)
  BY <1>2, <1>3, EnsureOpsIn
<1>5. todo[c][k].img \in X
  BY <1>4 DEF EnsureOps
<1>. QED
  BY <1>5, <1>3, KnownImages

\* Another build's operations keep what they need.
LEMMA OtherFine ==
  ASSUME Typed, Typed', Calm, NEW b \in Builds, todo[b] # <<>>, NEW w, Moved(b, w), PushesStay(b), Fine,
         NEW c \in Builds, c # b
  PROVE  FineAt(c)'
<1>1. /\ runtime' = runtime /\ run' = run /\ job' = job /\ pos' = pos /\ Builds' = Builds
      /\ todo'[c] = todo[c] /\ ctr'[c] = ctr[c] /\ Current(c)' = Current(c)
  BY DEF Moved, place, Builds, Current
<1>2. \A i \in Image : Available(i) => Available(i)'
  BY KeptStock DEF Fine
<1>3. FineAt(c) /\ SaneAt(b)
  BY DEF Fine, FineAt
<1>4. SaneAt(c)'
  BY <1>1, <1>3 DEF FineAt, SaneAt
<1>5. ForwardAt(c)'
  <2>1. Provided \subseteq Provided'
    BY <1>2 DEF Provided
  <2>2. Standing(c).made => Standing(c)'.made
    BY <1>1 DEF Standing
  <2>3. Standing(c).running => Standing(c)'.running
    BY <1>1 DEF Standing
  <2>4. ASSUME NEW k \in 1..Len(todo[c]), todo[c][k].do = "bind", config # None
        PROVE  config' # None
    <3>. SUFFICES ASSUME Op0(b).do = "unconfig"  PROVE FALSE
      BY <2>4 DEF Moved
    <3>1. 1 \in 1..Len(todo[b]) /\ Op0(b) = todo[b][1] /\ pos[b] \in Nat \ {0}
      BY HeadOp, ProgramLength DEF Typed
    <3>2. todo[c] # <<>>
      BY <2>4
    <3>3. pos[c] \in Nat \ {0}
      BY <3>2, HeadOp, ProgramLength DEF Typed
    <3>4. Current(b) = "gorelease" /\ ~job[b].cfg.own
      BY <3>1, <1>3 DEF SaneAt, Sane
    <3>5. Current(c) = "gorelease" /\ ~job[c].cfg.own
      BY <2>4, <1>3 DEF FineAt, SaneAt, Sane
    <3>6. ReleasedTogether
      BY <3>1, <3>3, <3>4, <3>5, ReleasingTwo
    <3>. QED
      BY <3>6 DEF Calm
  <2>5. (\E k \in 1..Len(todo[c]) : todo[c][k].do = "bind") => (Standing(c).configured => Standing(c)'.configured)
    BY <2>4 DEF Standing
  <2>6. RunsThrough(todo[c], Provided, Standing(c))
    BY <1>3 DEF FineAt, ForwardAt
  <2>. HIDE DEF Standing, Provided
  <2>7. RunsThrough(todo[c], Provided', Standing(c)')
    BY ONLY <2>1, <2>2, <2>3, <2>5, <2>6, OtherRuns
  <2>. QED
    BY <2>7, <1>1 DEF ForwardAt
<1>6. AskedAt(c)'
  <2>1. \A k \in 1..Len(todo[c]) : todo[c][k].do = "ensure" => todo[c][k].img \in Image
    BY EnsuredImage
  <2>. QED
    BY <1>1, <1>2, <1>3, <2>1 DEF FineAt, AskedAt
<1>7. ChainedAt(c)'
  <2>. SUFFICES ASSUME runtime = "podman", NEW k \in 1..Len(todo[c]), todo[c][k].do \in {"build", "push"},
                       todo[c][k].img \in ToolImage
       PROVE  LET o == todo[c][k] IN
              /\ o.do = "build" => \E l \in (k + 1)..Len(todo[c]) : todo[c][l].do = "push" /\ todo[c][l].img = o.img
              /\ o.do = "push" =>
                   /\ \A j \in 1..(k - 1) : todo[c][j].do \in {"build", "tag"}
                   /\ local'[o.img].plat = Host \/ (k > 1 /\ todo[c][1].do = "build" /\ todo[c][1].img = o.img)
    BY <1>1 DEF ChainedAt
  <2>1. todo[c][k].do = "push" /\ local[todo[c][k].img].plat = Host => local'[todo[c][k].img].plat = Host
    <3>. SUFFICES ASSUME todo[c][k].do = "push", local[todo[c][k].img].plat = Host
         PROVE  local'[todo[c][k].img].plat = Host
      OBVIOUS
    <3>1. job[c].cfg.host = "linux"
      BY <1>3 DEF FineAt, SaneAt, Sane
    <3>2. job[b].cfg.host = job[c].cfg.host
      BY ServedAssumption DEF Typed, TypeOK, Builds
    <3>. QED
      BY <3>1, <3>2 DEF Moved, Grows
  <2>. QED
    BY <2>1, <1>3 DEF FineAt, ChainedAt
<1>8. LeftAt(c)'
  <2>1. LeftAt(c)
    BY <1>3 DEF FineAt
  <2>2. \A k \in 1..pos[c] : \A i \in Leaves(job[c].steps[k]) : i \in Image
    BY KnownImages
  <2>. QED
    BY <1>1, <1>2, <2>1, <2>2 DEF LeftAt
<1>. QED
  BY <1>4, <1>5, <1>6, <1>7, <1>8 DEF FineAt

\* What the operations give are images in play.
LEMMA GivenImages ==
  ASSUME Typed, NEW c \in Builds, NEW k \in 1..Len(todo[c])
  PROVE  Gives(todo[c][k]) \subseteq Image
<1>0. todo[c] # <<>>
  OBVIOUS
<1>1. todo[c] \in Seq(StepOps(Current(c), job[c].cfg))
  BY <1>0, HeadOp DEF Typed
<1>2. todo[c][k] \in StepOps(Current(c), job[c].cfg)
  BY ONLY <1>1, k \in 1..Len(todo[c])
<1>3. AppTag(job[c].cfg) \in Image /\ AppURI(job[c].cfg) \in Image
  BY StepCfg DEF Typed
<1>. DEFINE mine == ToolImage \cup {AppTag(job[c].cfg), AppURI(job[c].cfg)}
<1>. HIDE DEF mine
<1>4. todo[c][k].do \in {"ensure", "build", "buildMulti", "tag", "tagCommit"} => todo[c][k].img \in mine
  BY <1>2 DEF mine, StepOps, ReleaseOps, GithubOps, CommentOps, PlainOps, ProdOps, QuietOps, PullOps, EnsureOps, BuildOps, RetagOps, PublishOps,
     PushOps, TagCommitOps, InspectOps, CreateOps, StartOps, PutOps, WaitOps, CommitOps, BareOps, MarkOps, BindOps, ConfigOps
<1>5. mine \subseteq Image
  BY <1>3, KnownImages DEF mine
<1>. QED
  BY <1>4, <1>5, KnownImages DEF Gives

\* The operation is done, and the rest of the step goes on.
LEMMA GoesFine ==
  ASSUME Typed, Typed', Calm, NEW b \in Builds, todo[b] # <<>>, NEW w, Moved(b, w), Fine, todo'[b] = Tail(todo[b]),
         \A i \in Gives(Op0(b)) : Stocks(i),
         runtime = "podman" /\ Op0(b).do = "push" /\ Op0(b).img \in ToolImage /\ local[Op0(b).img].plat = Host =>
           remote'[Op0(b).img][Host] # None,
         Op0(b).do = "build" /\ runtime = "podman" => local'[Op0(b).img].plat = Host
  PROVE  Fine'
<1>. DEFINE s == todo[b]
            t == todo'[b]
<1>0. /\ runtime' = runtime /\ run' = run /\ job' = job /\ pos' = pos /\ Builds' = Builds
      /\ Current(b)' = Current(b)
  BY DEF Moved, place, Builds, Current
<1>1. Len(s) \in Nat /\ Len(s) > 0 /\ Rest(s, 1, t) /\ Op0(b) = s[1]
  BY HeadOp DEF Typed
<1>2. Len(t) = Len(s) - 1 /\ \A k \in 1..Len(t) : k + 1 \in 1..Len(s) /\ t[k] = s[k + 1]
  BY <1>1 DEF Rest
<1>3. SaneAt(b) /\ ForwardAt(b) /\ AskedAt(b) /\ ChainedAt(b) /\ LeftAt(b) /\ ToolsPullable
  BY DEF Fine, FineAt
<1>4. PushesStay(b)
  <2>. SUFFICES ASSUME runtime = "podman", NEW i \in ToolImage
       PROVE  /\ Pushing(s, i) => Pushing(t, i) \/ remote'[i][Host] # None
              /\ s[1].do = "build" /\ s[1].img = i => Pushing(t, i)
    BY <1>1 DEF PushesStay
  <2>1. \A l \in 2..Len(s) : l - 1 \in 1..Len(t) /\ t[l - 1] = s[l]
    BY <1>1, <1>2
  <2>2. 1 \in 1..Len(s)
    BY <1>1
  <2>3. ASSUME NEW k \in 1..Len(s), s[k].do = "push", s[k].img = i
        PROVE  Pushing(t, i) \/ remote'[i][Host] # None
    <3>1. CASE k = 1
      <4>1. local[i].plat = Host
        BY <2>3, <3>1, <1>3 DEF ChainedAt
      <4>. QED
        BY <4>1, <3>1, <2>3, <1>1
    <3>2. CASE k # 1
      <4>1. k \in 2..Len(s)
        BY <3>2, <1>1
      <4>2. k - 1 \in 1..Len(t) /\ t[k - 1] = s[k]
        BY <4>1, <2>1
      <4>. QED
        BY <4>2, <2>3 DEF Pushing
    <3>. QED
      BY <3>1, <3>2
  <2>4. ASSUME s[1].do = "build", s[1].img = i
        PROVE  Pushing(t, i)
    <3>1. PICK l \in 2..Len(s) : s[l].do = "push" /\ s[l].img = i
      BY <2>4, <2>2, <1>3 DEF ChainedAt
    <3>. QED
      BY <3>1, <2>1 DEF Pushing
  <2>. QED
    BY <2>3, <2>4 DEF Pushing
<1>5. /\ \A i \in Image : Available(i) => Available(i)'
      /\ ToolsPullable'
      /\ \A i \in Image : Stocks(i) => Available(i)'
  BY <1>3, <1>4, KeptStock
<1>6. Gives(s[1]) \subseteq Image
  BY <1>1, GivenImages
<1>7. SaneAt(b)'
  BY <1>0, <1>2, <1>3 DEF SaneAt
<1>8. ForwardAt(b)'
  <2>1. Provided \subseteq Provided' /\ Gives(s[1]) \subseteq Provided'
    BY <1>5, <1>6, <1>1 DEF Provided
  <2>2. RunsThrough(s, Provided, Standing(b)) /\ Turns(s[1].do, Standing(b), Standing(b)')
    BY <1>3, <1>1 DEF ForwardAt, Moved
  <2>. HIDE DEF s, t
  <2>3. RunsThrough(t, Provided', Standing(b)')
    BY ONLY <1>1, <2>1, <2>2, RestRuns
  <2>. QED
    BY <2>3 DEF ForwardAt, t
<1>9. AskedAt(b)'
  <2>. SUFFICES ASSUME NEW k \in 1..Len(t), t[k].do = "ensure"
       PROVE  ~t[k].asked /\ ~t[k].missed
    BY DEF AskedAt
  <2>1. k + 1 \in 1..Len(s) /\ k + 1 # 1 /\ t[k] = s[k + 1]
    BY <1>2
  <2>. QED
    BY <2>1, <1>3 DEF AskedAt
<1>10. ChainedAt(b)'
  <2>. SUFFICES ASSUME runtime = "podman", NEW k \in 1..Len(t), t[k].do \in {"build", "push"}, t[k].img \in ToolImage
       PROVE  /\ t[k].do = "build" => \E l \in (k + 1)..Len(t) : t[l].do = "push" /\ t[l].img = t[k].img
              /\ t[k].do = "push" =>
                   /\ \A j \in 1..(k - 1) : t[j].do \in {"build", "tag"}
                   /\ local'[t[k].img].plat = Host \/ (k > 1 /\ t[1].do = "build" /\ t[1].img = t[k].img)
    BY <1>0 DEF ChainedAt
  <2>1. k + 1 \in 1..Len(s) /\ t[k] = s[k + 1]
    BY <1>2
  <2>2. ASSUME t[k].do = "build"
        PROVE  \E l \in (k + 1)..Len(t) : t[l].do = "push" /\ t[l].img = t[k].img
    <3>1. PICK l \in (k + 2)..Len(s) : s[l].do = "push" /\ s[l].img = t[k].img
      BY <2>1, <2>2, <1>3 DEF ChainedAt
    <3>2. l - 1 \in (k + 1)..Len(t) /\ l - 1 \in 1..Len(t) /\ (l - 1) + 1 = l
      BY <1>2, <1>1
    <3>. QED
      BY <3>1, <3>2, <1>2
  <2>3. ASSUME t[k].do = "push"
        PROVE  /\ \A j \in 1..(k - 1) : t[j].do \in {"build", "tag"}
               /\ local'[t[k].img].plat = Host
    <3>1. /\ \A j \in 1..k : s[j].do \in {"build", "tag"}
          /\ local[t[k].img].plat = Host \/ (s[1].do = "build" /\ s[1].img = t[k].img)
      BY <2>1, <2>3, <1>3 DEF ChainedAt
    <3>2. \A j \in 1..(k - 1) : t[j] = s[j + 1] /\ j + 1 \in 1..k
      BY <1>2
    <3>3. ASSUME local[t[k].img].plat = Host  PROVE local'[t[k].img].plat = Host
      <4>1. job[b].cfg.host = "linux"
        BY <1>3, <2>1, <2>3 DEF SaneAt, Sane
      <4>. QED
        BY <4>1, <3>3 DEF Moved, Grows
    <3>4. s[1].do = "build" /\ s[1].img = t[k].img => local'[t[k].img].plat = Host
      BY <1>1
    <3>. QED
      BY <3>1, <3>2, <3>3, <3>4
  <2>. QED
    BY <2>2, <2>3
<1>11. LeftAt(b)'
  <2>. SUFFICES ASSUME NEW k \in 1..pos[b], NEW i \in Leaves(job[b].steps[k])
       PROVE  Available(i)' \/ (k = pos[b] /\ \E j \in 1..Len(t) : i \in Gives(t[j]))
    BY <1>0 DEF LeftAt
  <2>1. i \in Image
    BY KnownImages
  <2>2. CASE Available(i)
    BY <2>1, <2>2, <1>5
  <2>3. CASE k = pos[b] /\ \E j \in 1..Len(s) : i \in Gives(s[j])
    <3>1. PICK j \in 1..Len(s) : i \in Gives(s[j])
      BY <2>3
    <3>2. CASE j = 1
      BY <3>1, <3>2, <1>1, <1>5, <2>1
    <3>3. CASE j # 1
      <4>1. j - 1 \in 1..Len(t) /\ (j - 1) + 1 = j
        BY <3>3, <1>1, <1>2
      <4>. QED
        BY <4>1, <3>1, <1>2, <2>3
    <3>. QED
      BY <3>2, <3>3
  <2>. QED
    BY <2>2, <2>3, <1>3 DEF LeftAt
<1>12. FineAt(b)'
  BY <1>7, <1>8, <1>9, <1>10, <1>11 DEF FineAt
<1>13. \A c \in Builds : c # b => FineAt(c)'
  BY <1>4, OtherFine
<1>. QED
  BY <1>0, <1>5, <1>12, <1>13 DEF Fine

\* Operations that may take the place of the first.
Serves(ops, b) ==
  /\ Len(ops) \in Nat
  /\ \A k \in 1..Len(ops) : LET o == ops[k] IN
       /\ o.do \in {"pull", "ensure", "build", "buildMulti", "tag", "push"}
       /\ Sane(o, Current(b), job[b].cfg, runtime)
       /\ \A i \in Needs(o) : Coming(ops, k, i)
       /\ o.do = "ensure" =>
            /\ o.img \in Image
            /\ IF o.asked THEN k = 1 /\ (o.left = o.plats \/ o.missed \/ Stocks(o.img)) ELSE ~o.missed
       /\ runtime = "podman" /\ o.do \in {"build", "push"} /\ o.img \in ToolImage =>
            /\ o.do = "build" => \E l \in (k + 1)..Len(ops) : ops[l].do = "push" /\ ops[l].img = o.img
            /\ o.do = "push" =>
                 /\ \A j \in 1..(k - 1) : ops[j].do \in {"build", "tag"}
                 /\ k > 1 /\ ops[1].do = "build" /\ ops[1].img = o.img
  /\ \A i \in Gives(Op0(b)) : Stocks(i) \/ Coming(ops, Len(ops) + 1, i)

LEMMA ServesRuns ==
  ASSUME NEW ops, NEW b, Serves(ops, b), NEW G, NEW x
  PROVE  /\ RunsThrough(ops, G, x)
         /\ \A k \in 1..Len(ops) : ops[k].do \notin {"create", "wait", "stop", "unconfig"}
<1>1. \A k \in 1..Len(ops) : Fits(ops, k, G, x)
  <2>. SUFFICES ASSUME NEW k \in 1..Len(ops)  PROVE Fits(ops, k, G, x)
    OBVIOUS
  <2>1. ops[k].do \in {"pull", "ensure", "build", "buildMulti", "tag", "push"} /\ \A i \in Needs(ops[k]) : Coming(ops, k, i)
    BY DEF Serves
  <2>. QED
    BY <2>1 DEF Fits
<1>2. \A k \in 1..Len(ops) : ops[k].do \notin {"create", "wait", "stop", "unconfig"}
  BY DEF Serves
<1>. QED
  BY <1>1, <1>2 DEF RunsThrough

LEMMA InsteadFine ==
  ASSUME Typed, Typed', Calm, NEW b \in Builds, todo[b] # <<>>, NEW w, Moved(b, w), Fine,
         Op0(b).do \in {"pull", "ensure"}, NEW ops, Serves(ops, b), Joined(ops, Tail(todo[b]), todo'[b])
  PROVE  Fine'
<1>. DEFINE s == todo[b]
            r == Tail(todo[b])
            t == todo'[b]
            n == Len(ops)
<1>0. /\ runtime' = runtime /\ run' = run /\ job' = job /\ pos' = pos /\ Builds' = Builds
      /\ Current(b)' = Current(b)
  BY DEF Moved, place, Builds, Current
<1>1. Len(s) \in Nat /\ Len(s) > 0 /\ Rest(s, 1, r) /\ Op0(b) = s[1] /\ n \in Nat
  BY HeadOp DEF Typed, Serves
<1>2. /\ Len(r) = Len(s) - 1 /\ Len(r) \in Nat /\ Len(t) = n + Len(r)
      /\ \A k \in 1..Len(r) : r[k] = s[k + 1]
      /\ \A k \in 1..n : t[k] = ops[k]
      /\ \A k \in 1..Len(r) : t[k + n] = r[k]
  BY <1>1 DEF Rest, Joined
<1>2a. \A k \in 1..Len(t) :
         \/ k \in 1..n /\ t[k] = ops[k]
         \/ k > n /\ k - n + 1 \in 2..Len(s) /\ t[k] = s[k - n + 1]
  <2>. SUFFICES ASSUME NEW k \in 1..Len(t), k > n
       PROVE  k - n + 1 \in 2..Len(s) /\ t[k] = s[k - n + 1]
    BY <1>2, <1>1
  <2>1. k - n \in 1..Len(r) /\ (k - n) + n = k
    BY <1>2, <1>1
  <2>. QED
    <3>1. r[k - n] = s[(k - n) + 1] /\ t[(k - n) + n] = r[k - n]
      BY <2>1, <1>2
    <3>2. (k - n) + 1 \in 2..Len(s)
      BY <2>1, <1>2, <1>1
    <3>. QED
      BY <3>1, <3>2, <2>1
<1>2b. /\ \A k \in 1..n : k \in 1..Len(t)
       /\ \A j \in 2..Len(s) : j - 1 + n \in 1..Len(t) /\ t[j - 1 + n] = s[j]
  <2>1. \A k \in 1..n : k \in 1..Len(t)
    BY <1>2, <1>1
  <2>2. ASSUME NEW j \in 2..Len(s)  PROVE j - 1 + n \in 1..Len(t) /\ t[j - 1 + n] = s[j]
    <3>1. j - 1 \in 1..Len(r) /\ (j - 1) + 1 = j
      BY <1>2, <1>1
    <3>2. r[j - 1] = s[(j - 1) + 1] /\ t[(j - 1) + n] = r[j - 1]
      BY <3>1, <1>2
    <3>3. (j - 1) + n \in 1..Len(t)
      BY <3>1, <1>2, <1>1
    <3>. QED
      BY <3>1, <3>2, <3>3
  <2>. QED
    BY <2>1, <2>2
<1>3. SaneAt(b) /\ ForwardAt(b) /\ AskedAt(b) /\ ChainedAt(b) /\ LeftAt(b) /\ ToolsPullable
  BY DEF Fine, FineAt
<1>4. PushesStay(b)
  <2>. SUFFICES ASSUME NEW i \in ToolImage, NEW k \in 1..Len(s), s[k].do = "push", s[k].img = i
       PROVE  Pushing(t, i)
    BY DEF PushesStay, Pushing
  <2>1. k \in 2..Len(s)
    BY <1>1
  <2>. QED
    BY <2>1, <1>2b DEF Pushing
<1>5. /\ \A i \in Image : Available(i) => Available(i)'
      /\ ToolsPullable'
      /\ \A i \in Image : Stocks(i) => Available(i)'
  BY <1>3, <1>4, KeptStock
<1>6. Gives(s[1]) \subseteq Image
  BY <1>1, GivenImages
<1>7. SaneAt(b)'
  <2>. SUFFICES ASSUME NEW k \in 1..Len(t)  PROVE Sane(t[k], Current(b), job[b].cfg, runtime)
    BY <1>0 DEF SaneAt
  <2>1. CASE k \in 1..n /\ t[k] = ops[k]
    BY <2>1 DEF Serves
  <2>2. CASE k - n + 1 \in 2..Len(s) /\ t[k] = s[k - n + 1]
    <3>1. k - n + 1 \in 1..Len(s)
      BY <2>2
    <3>. QED
      BY <2>2, <3>1, <1>3 DEF SaneAt
  <2>. QED
    BY <2>1, <2>2, <1>2a
<1>8. ForwardAt(b)'
  <2>1. Provided \subseteq Provided'
    BY <1>5 DEF Provided
  <2>2. RunsThrough(s, Provided, Standing(b)) /\ Turns(s[1].do, Standing(b), Standing(b)')
    BY <1>3, <1>1 DEF ForwardAt, Moved
  <2>3. \A i \in Gives(s[1]) : i \in Provided' \/ Coming(ops, Len(ops) + 1, i)
    BY <1>5, <1>6, <1>1 DEF Provided, Serves
  <2>4. /\ RunsThrough(ops, Provided', Standing(b)')
        /\ \A k \in 1..Len(ops) : ops[k].do \notin {"create", "wait", "stop", "unconfig"}
    BY ServesRuns
  <2>5. Joined(ops, r, t) /\ Len(ops) \in Nat
    BY <1>1
  <2>. HIDE DEF s, t, r, n
  <2>6. RunsThrough(t, Provided', Standing(b)')
    BY ONLY <1>1, <2>1, <2>2, <2>3, <2>4, <2>5, ReplacedRuns
  <2>. QED
    BY <2>6 DEF ForwardAt, t
<1>9. AskedAt(b)'
  <2>. SUFFICES ASSUME NEW k \in 1..Len(t), t[k].do = "ensure"
       PROVE  IF t[k].asked THEN k = 1 /\ (t[k].left = t[k].plats \/ t[k].missed \/ Available(todo[b][k].img)') ELSE ~t[k].missed
    BY DEF AskedAt
  <2>1. CASE k \in 1..n /\ t[k] = ops[k]
    <3>1. /\ t[k].img \in Image
          /\ IF t[k].asked THEN k = 1 /\ (t[k].left = t[k].plats \/ t[k].missed \/ Stocks(t[k].img)) ELSE ~t[k].missed
      BY <2>1 DEF Serves
    <3>2. \A i \in Image : i = t[k].img /\ Stocks(i) => Available(todo[b][k].img)'
      BY <1>5
    <3>. QED
      BY <3>1, <3>2
  <2>2. CASE k - n + 1 \in 2..Len(s) /\ t[k] = s[k - n + 1]
    <3>1. k - n + 1 \in 1..Len(s) /\ k - n + 1 # 1
      BY <2>2
    <3>. QED
      BY <2>2, <3>1, <1>3 DEF AskedAt
  <2>. QED
    BY <2>1, <2>2, <1>2a
<1>10. ChainedAt(b)'
  <2>. SUFFICES ASSUME runtime = "podman", NEW k \in 1..Len(t), t[k].do \in {"build", "push"}, t[k].img \in ToolImage
       PROVE  /\ t[k].do = "build" => \E l \in (k + 1)..Len(t) : t[l].do = "push" /\ t[l].img = t[k].img
              /\ t[k].do = "push" =>
                   /\ \A j \in 1..(k - 1) : t[j].do \in {"build", "tag"}
                   /\ local'[t[k].img].plat = Host \/ (k > 1 /\ t[1].do = "build" /\ t[1].img = t[k].img)
    BY <1>0 DEF ChainedAt
  <2>0. ASSUME NEW j \in 2..Len(s), s[j].do = "push", s[j].img \in ToolImage  PROVE FALSE
    <3>1. j \in 1..Len(s) /\ 1 \in 1..(j - 1)
      OBVIOUS
    <3>2. s[1].do \in {"build", "tag"}
      BY <3>1, <2>0, <1>3 DEF ChainedAt
    <3>. QED
      BY <3>2, <1>1
  <2>1. CASE k \in 1..n /\ t[k] = ops[k]
    <3>1. /\ t[k].do = "build" => \E l \in (k + 1)..n : ops[l].do = "push" /\ ops[l].img = t[k].img
          /\ t[k].do = "push" =>
               /\ \A j \in 1..(k - 1) : ops[j].do \in {"build", "tag"}
               /\ k > 1 /\ ops[1].do = "build" /\ ops[1].img = t[k].img
      BY <2>1 DEF Serves
    <3>2. \A l \in (k + 1)..n : l \in 1..n /\ l \in (k + 1)..Len(t)
      BY <1>1, <1>2
    <3>3. \A j \in 1..(k - 1) : j \in 1..n
      BY <2>1, <1>1
    <3>4. 1 \in 1..n
      BY <2>1, <1>1
    <3>. QED
      BY <3>1, <3>2, <3>3, <3>4, <1>2
  <2>2. CASE k - n + 1 \in 2..Len(s) /\ t[k] = s[k - n + 1]
    <3>1. t[k].do # "push"
      BY <2>2, <2>0
    <3>2. k - n + 1 \in 1..Len(s)
      BY <2>2
    <3>3. PICK l \in (k - n + 2)..Len(s) : s[l].do = "push" /\ s[l].img = t[k].img
      BY <2>2, <3>1, <3>2, <1>3, <1>1 DEF ChainedAt
    <3>4. l \in 2..Len(s)
      BY <2>2, <1>1
    <3>. QED
      BY <3>3, <3>4, <2>0
  <2>. QED
    BY <2>1, <2>2, <1>2a
<1>11. LeftAt(b)'
  <2>. SUFFICES ASSUME NEW k \in 1..pos[b], NEW i \in Leaves(job[b].steps[k])
       PROVE  Available(i)' \/ (k = pos[b] /\ \E j \in 1..Len(t) : i \in Gives(t[j]))
    BY <1>0 DEF LeftAt
  <2>1. i \in Image
    BY KnownImages
  <2>2. CASE Available(i)
    BY <2>1, <2>2, <1>5
  <2>3. CASE k = pos[b] /\ \E j \in 1..Len(s) : i \in Gives(s[j])
    <3>1. PICK j \in 1..Len(s) : i \in Gives(s[j])
      BY <2>3
    <3>2. CASE j = 1
      <4>1. Stocks(i) \/ Coming(ops, Len(ops) + 1, i)
        BY <3>1, <3>2, <1>1 DEF Serves
      <4>2. Coming(ops, Len(ops) + 1, i) => \E l \in 1..n : i \in Gives(ops[l])
        BY <1>1 DEF Coming
      <4>. QED
        BY <4>1, <4>2, <1>2, <1>2b, <1>5, <2>1, <2>3
    <3>3. CASE j # 1
      <4>1. j \in 2..Len(s)
        BY <3>3, <1>1
      <4>. QED
        BY <4>1, <3>1, <1>2b, <2>3
    <3>. QED
      BY <3>2, <3>3
  <2>. QED
    BY <2>2, <2>3, <1>3 DEF LeftAt
<1>12. FineAt(b)'
  BY <1>7, <1>8, <1>9, <1>10, <1>11 DEF FineAt
<1>13. \A c \in Builds : c # b => FineAt(c)'
  BY <1>4, OtherFine
<1>. QED
  BY <1>0, <1>5, <1>12, <1>13 DEF Fine

-----------------------------------------------------------------------------
(* The operations, while nothing goes wrong from outside.                  *)
Steady ==
  /\ Typed /\ ToolsAreTools /\ Compiled /\ BaseOffered /\ Calm /\ exited = "no" /\ Fine
  /\ \A b \in Builds : ~err[b]
\* After the step nothing has gone wrong either.
Undisturbed == Typed' /\ faults' = 0 /\ skipped' = {}
\* The step goes on, or the process ends because an image is not published.
Fares == (UNCHANGED <<err, exited>> /\ Fine') \/ (exited' = "exit" /\ UNCHANGED err /\ Unpublished')

\* What an operation that leaves its container alone changes.
LEMMA PlainTurns ==
  ASSUME NEW b, runtime' = runtime, ctr'[b].made = ctr[b].made, ctr'[b].state = ctr[b].state,
         config' = config \/ (Op0(b).do = "config" /\ config' # None) \/ Op0(b).do = "unconfig",
         Op0(b).do \notin {"commit", "start"}, Op0(b).do = "config" => config' # None
  PROVE  Turns(Op0(b).do, Standing(b), Standing(b)')
BY DEF Turns, Standing

LEMMA DoneFares ==
  ASSUME Steady, Undisturbed, NEW b \in Builds, todo[b] # <<>>, NEW w, Grows(b, w), Becomes(w), UNCHANGED place,
         todo' = [todo EXCEPT ![b] = Tail(@)], UNCHANGED <<err, exited>>,
         \A c \in Builds : c # b => ctr'[c] = ctr[c],
         config' = None => config = None \/ Op0(b).do = "unconfig",
         Turns(Op0(b).do, Standing(b), Standing(b)'),
         \A i \in Gives(Op0(b)) : Stocks(i),
         runtime = "podman" /\ Op0(b).do = "push" /\ Op0(b).img \in ToolImage /\ local[Op0(b).img].plat = Host =>
           remote'[Op0(b).img][Host] # None,
         Op0(b).do = "build" /\ runtime = "podman" => local'[Op0(b).img].plat = Host
  PROVE  Fares
<1>1. DOMAIN todo = Builds
  BY DEF Steady, Typed, TypeOK
<1>2. todo'[b] = Tail(todo[b]) /\ \A c \in Builds : c # b => todo'[c] = todo[c]
  BY <1>1
<1>3. Moved(b, w)
  BY <1>2 DEF Moved, Becomes
<1>4. Typed /\ Typed' /\ Calm /\ Fine
  BY DEF Steady, Undisturbed
<1>5. Fine'
  BY <1>2, <1>3, <1>4, GoesFine
<1>. QED
  BY <1>5 DEF Fares

LEMMA InsteadFares ==
  ASSUME Steady, Undisturbed, NEW b \in Builds, todo[b] # <<>>, NEW w, Grows(b, w), Becomes(w), UNCHANGED <<place, ctr, config>>,
         NEW S, NEW ops \in Seq(S), Tail(todo[b]) \in Seq(S), Instead(b, ops), Serves(ops, b), Op0(b).do \in {"pull", "ensure"}
  PROVE  Fares
<1>1. DOMAIN todo = Builds
  BY DEF Steady, Typed, TypeOK
<1>2. todo'[b] = ops \o Tail(todo[b]) /\ \A c \in Builds : c # b => todo'[c] = todo[c]
  BY <1>1 DEF Instead
<1>3. Joined(ops, Tail(todo[b]), todo'[b])
  BY <1>2, JoinedConcat
<1>4. runtime' = runtime
  BY DEF place
<1>5. Turns(Op0(b).do, Standing(b), Standing(b)')
  BY <1>4, PlainTurns
<1>6. Moved(b, w)
  BY <1>2, <1>5 DEF Moved, Becomes
<1>7. Typed /\ Typed' /\ Calm /\ Fine
  BY DEF Steady, Undisturbed
<1>8. Fine'
  BY <1>3, <1>6, <1>7, InsteadFine
<1>. QED
  BY <1>8 DEF Fares, Instead

\* A call that does not fail on its own is answered as the state says.
LEMMA CalmAnswer ==
  ASSUME Steady, Undisturbed, NEW outs, NEW X, Only(outs, X), NEW out \in outs, Answered(out)
  PROVE  out \in X /\ Becomes(out.world)
<1>1. faults = 0
  BY DEF Steady, Calm
<1>2. ~out.fault
  BY <1>1 DEF Undisturbed, Answered
<1>. QED
  BY <1>2 DEF Only, Answered

LEMMA CalmCall ==
  ASSUME Steady, Undisturbed, NEW b \in Builds, NEW kind, NEW outs, NEW x, NEW X, Only(outs, X), Calls(b, kind, outs, x)
  PROVE  /\ todo[b] # <<>> /\ Op0(b).do = kind /\ UNCHANGED <<disk, place, history>>
         /\ \E out \in X :
              /\ Becomes(out.world)
              /\ IF out.res = "ok" THEN Goes(b) /\ ctr' = [ctr EXCEPT ![b] = x] ELSE FailsAs(b, out) /\ UNCHANGED ctr
<1>1. PICK out \in outs :
        /\ Answered(out)
        /\ IF out.res = "ok" THEN Goes(b) /\ ctr' = [ctr EXCEPT ![b] = x] ELSE FailsAs(b, out) /\ UNCHANGED ctr
  BY DEF Calls
<1>2. out \in X /\ Becomes(out.world)
  BY <1>1, CalmAnswer
<1>. QED
  BY <1>1, <1>2 DEF Calls, At

LEMMA OkCall ==
  ASSUME Steady, Undisturbed, NEW b \in Builds, NEW kind, NEW outs, NEW x, NEW w, Only(outs, {Ok(w)}), Calls(b, kind, outs, x)
  PROVE  /\ todo[b] # <<>> /\ Op0(b).do = kind /\ UNCHANGED <<disk, place, history, err, exited>>
         /\ Becomes(w) /\ todo' = [todo EXCEPT ![b] = Tail(@)]
         /\ ctr'[b] = x /\ \A c \in Builds : c # b => ctr'[c] = ctr[c]
<1>1. PICK out \in {Ok(w)} :
         /\ Becomes(out.world)
         /\ IF out.res = "ok" THEN Goes(b) /\ ctr' = [ctr EXCEPT ![b] = x] ELSE FailsAs(b, out) /\ UNCHANGED ctr
  BY CalmCall
<1>2. out.res = "ok" /\ out.world = w
  BY DEF Ok, Outcome
<1>3. ctr' = [ctr EXCEPT ![b] = x] /\ DOMAIN ctr = Builds
  BY <1>1, <1>2 DEF Steady, Typed, TypeOK
<1>4. ctr'[b] = x /\ \A c \in Builds : c # b => ctr'[c] = ctr[c]
  BY <1>3
<1>. QED
  BY <1>1, <1>2, <1>4, CalmCall DEF Goes

\* What the operation at the head can rely on.
LEMMA HeadFits ==
  ASSUME Steady, NEW b \in Builds, todo[b] # <<>>
  PROVE  /\ Sane(Op0(b), Current(b), job[b].cfg, runtime)
         /\ \A i \in Needs(Op0(b)) : i \in Image /\ Available(i)
         /\ Op0(b).do = "tagCommit" => Standing(b).made
         /\ Op0(b).do = "exec" => Standing(b).running
         /\ Op0(b).do = "bind" => Standing(b).configured
         /\ Gives(Op0(b)) \subseteq Image
<1>1. 1 \in 1..Len(todo[b]) /\ Op0(b) = todo[b][1]
  BY HeadOp DEF Steady, Typed
<1>2. Fits(todo[b], 1, Provided, Standing(b)) /\ SaneAt(b)
  BY <1>1 DEF Steady, Fine, FineAt, ForwardAt, RunsThrough
<1>3. 1..(1 - 1) = {}
  OBVIOUS
<1>4. /\ \A i : ~Coming(todo[b], 1, i)
      /\ \A K, B : ~Since(todo[b], 1, K, B)
  BY <1>3 DEF Coming, Since
<1>5. \A i \in Needs(Op0(b)) : i \in Provided
  BY <1>1, <1>2, <1>4 DEF Fits
<1>6. /\ Op0(b).do = "tagCommit" => Standing(b).made
      /\ Op0(b).do = "exec" => Standing(b).running
      /\ Op0(b).do = "bind" => Standing(b).configured
  BY <1>1, <1>2, <1>4 DEF Fits, Holds
<1>7. Gives(Op0(b)) \subseteq Image
  BY <1>1, GivenImages DEF Steady
<1>. QED
  BY <1>1, <1>2, <1>5, <1>6, <1>7 DEF SaneAt, Provided

\* An operation that leaves images and registries as they are.
LEMMA StillFares ==
  ASSUME Steady, Undisturbed, NEW b \in Builds, NEW kind, NEW outs, NEW x, NEW w, w.local = local, w.remote = remote,
         kind \notin {"pull", "ensure", "build", "buildMulti", "tag", "tagCommit", "push", "commit"},
         Only(outs, {Ok(w)}), Calls(b, kind, outs, x),
         kind # "create" => x.made = ctr[b].made,
         kind = "start" => x.state = "running",
         kind \notin Ended \cup {"start"} => x.state = ctr[b].state,
         kind = "config" => w.config # None,
         kind \notin {"config", "unconfig"} => w.config = config
  PROVE  Fares
<1>1. /\ todo[b] # <<>> /\ Op0(b).do = kind /\ UNCHANGED <<disk, place, history, err, exited>>
      /\ Becomes(w) /\ todo' = [todo EXCEPT ![b] = Tail(@)]
      /\ ctr'[b] = x /\ \A c \in Builds : c # b => ctr'[c] = ctr[c]
  BY OkCall
<1>2. Gives(Op0(b)) = {}
  BY <1>1 DEF Gives
<1>3. runtime' = runtime /\ config' = w.config
  BY <1>1 DEF place, Becomes
<1>4. Turns(kind, Standing(b), Standing(b)')
  BY <1>1, <1>3 DEF Turns, Standing, Ended
<1>5. Grows(b, w)
  BY GrowsSame
<1>6. config' = None => config = None \/ Op0(b).do = "unconfig"
  BY <1>1, <1>3
<1>. QED
  BY <1>1, <1>2, <1>4, <1>5, <1>6, DoneFares

LEMMA WorldIs ==
  /\ World.local = local /\ World.remote = remote /\ World.config = config /\ World.workdir = workdir
  /\ \A x : [World EXCEPT !.workdir = x].local = local /\ [World EXCEPT !.workdir = x].remote = remote
            /\ [World EXCEPT !.workdir = x].config = config
  /\ \A x : [World EXCEPT !.config = x].local = local /\ [World EXCEPT !.config = x].remote = remote
            /\ [World EXCEPT !.config = x].config = x
BY DEF World

LEMMA CallOnly ==
  \A d : Only(Call(d, World), {Ok(d)}) /\ Only({Ok(d)}, {Ok(d)})
BY OnlyParts

\* Starting, stopping, waiting.
LEMMA StartFares ==
  ASSUME Steady, Undisturbed, NEW b \in Builds, StartContainer(b)
  PROVE  Fares
<1>. DEFINE m == Op0(b).mounts
            outs == Answers(D!StartContainer(World), P!StartContainer(World), H!StartContainer(World, m))
            x == In(b, "running")
            w1 == World
            w2 == [World EXCEPT !.workdir = @ \/ m]
<1>1. runtime = "host" => ~workdir
  BY DEF Steady, Calm, HostRefuses
<1>2. Only(outs, {Ok(w1), Ok(w2)})
  <2>1. TypeOK
    BY DEF Steady, Typed
  <2>2. \A z : Only(Answers(D!StartContainer(World), P!StartContainer(World), H!StartContainer(World, z)),
                    {Ok(World), Ok([World EXCEPT !.workdir = @ \/ z])})
    BY ONLY <2>1, <1>1, StartOnly
  <2>. QED
    BY ONLY <2>2
<1>3. Calls(b, "start", outs, x)
  BY DEF StartContainer
<1>4. x.made = ctr[b].made /\ x.state = "running"
  BY DEF In, Steady, Typed, TypeOK, ContainerState
<1>5. w2.local = local /\ w2.remote = remote /\ w2.config = config
  BY WorldIs
<1>. HIDE DEF w1, w2, outs, x
<1>6. \E w \in {w1, w2} : Calls(b, "start", {Ok(w)}, x)
  <2>1. PICK out \in outs :
         /\ Answered(out)
         /\ IF out.res = "ok" THEN Goes(b) /\ ctr' = [ctr EXCEPT ![b] = x] ELSE FailsAs(b, out) /\ UNCHANGED ctr
    BY <1>3 DEF Calls
  <2>2. out \in {Ok(w1), Ok(w2)}
    BY <2>1, <1>2, CalmAnswer
  <2>. QED
    BY <2>1, <2>2, <1>3 DEF Calls
<1>7. PICK w \in {w1, w2} : Calls(b, "start", {Ok(w)}, x)
  BY <1>6
<1>8. w.local = local /\ w.remote = remote /\ w.config = config
  BY <1>5, <1>7, WorldIs DEF w1
<1>. QED
  BY <1>4, <1>7, <1>8, CallOnly, StillFares DEF Ended

LEMMA StopFares ==
  ASSUME Steady, Undisturbed, NEW b \in Builds, StopContainer(b)
  PROVE  Fares
<1>. DEFINE x == IF runtime = "host" THEN ctr[b] ELSE In(b, "exited")
<1>1. x.made = ctr[b].made
  BY DEF In, Steady, Typed, TypeOK, ContainerState
<1>. HIDE DEF x
<1>2. Calls(b, "stop", Answers(D!StopContainer(World), P!StopContainer(World), H!StopContainer(World)), x)
  BY DEF StopContainer, x
<1>. QED
  BY <1>1, <1>2, QuietOnly, WorldIs, StillFares DEF Steady, Typed, Ended

LEMMA ExecFares ==
  ASSUME Steady, Undisturbed, NEW b \in Builds, ExecContainer(b)
  PROVE  Fares
<1>. DEFINE y == ctr[b].state = "running"
            outs == Answers(D!ExecContainer(World, y), P!ExecContainer(World, y), H!ExecContainer(World))
<1>1. Calls(b, "exec", outs, ctr[b])
  BY DEF ExecContainer
<1>2. todo[b] # <<>> /\ Op0(b).do = "exec"
  BY <1>1 DEF Calls, At
<1>3. runtime = "host" \/ y
  BY <1>2, HeadFits DEF Standing
<1>4. Only(outs, {Ok(World)})
  BY <1>3, QuietOnly DEF Steady, Typed
<1>. HIDE DEF outs
<1>. QED
  BY <1>1, <1>4, WorldIs, StillFares DEF Ended

\* On the host only the script has a place.
LEMMA PutFares ==
  ASSUME Steady, Undisturbed, NEW b \in Builds, CopyContentTo(b)
  PROVE  Fares
<1>. DEFINE y == Op0(b).script
            outs == Answers(D!CopyContentToContainer(World), P!CopyContentToContainer(World),
                            H!CopyContentToContainer(World, y))
<1>1. Calls(b, "put", outs, ctr[b])
  BY DEF CopyContentTo
<1>2. todo[b] # <<>> /\ Op0(b).do = "put"
  BY <1>1 DEF Calls, At
<1>3. runtime # "host" \/ y
  <2>. SUFFICES ASSUME runtime = "host", ~y  PROVE FALSE
    OBVIOUS
  <2>1. Current(b) \in {"gcloud", "github"} \cup IF job[b].cfg.secrets THEN ScriptStep ELSE {}
    BY <1>2, HeadFits DEF Sane
  <2>2. pos[b] \in 1..pos[b]
    BY <1>2, HeadOp, ProgramLength DEF Steady, Typed
  <2>3. HostRefuses(b)
    BY <2>1, <2>2 DEF HostRefuses, Current
  <2>. QED
    BY <2>3 DEF Steady, Calm
<1>4. Only(outs, {Ok(World)})
  BY <1>3, QuietOnly DEF Steady, Typed
<1>. HIDE DEF outs
<1>. QED
  BY <1>1, <1>4, WorldIs, StillFares DEF Ended

\* What a production step copies the run has compiled.
LEMMA PreparedDisk ==
  ASSUME Steady, NEW b \in Builds, todo[b] # <<>>, Op0(b).do \in Copies
  PROVE  disk[b] # None
<1>1. Current(b) \in ProdStep
  BY HeadFits DEF Sane
<1>2. pos[b] \in 1..pos[b] /\ pos[b] \in Nat
  BY HeadOp, ProgramLength DEF Steady, Typed
<1>3. PICK p \in Preparation : Current(b) = p[1] /\ p[2] \in CompileStep
  <2>1. \A q \in ProdStep : \E p \in Preparation : q = p[1] /\ p[2] \in CompileStep
    BY DEF ProdStep, Preparation, CompileStep
  <2>. QED
    BY <1>1, <2>1
<1>4. ~Alone(b)
  BY DEF Steady, Calm
<1>5. PICK j \in 1..(pos[b] - 1) : job[b].steps[j] = p[2]
  BY <1>2, <1>3, <1>4 DEF Alone, Current
<1>6. disk[b] \in OfThisRun(b) \/ err[b] \/ j = pos[b]
  BY <1>2, <1>3, <1>5 DEF Steady, Compiled
<1>7. None \notin OfThisRun(b)
  BY DEF OfThisRun, None
<1>. QED
  BY <1>2, <1>5, <1>6, <1>7 DEF Steady

LEMMA CopyFares ==
  ASSUME Steady, Undisturbed, NEW b \in Builds, CopyFileTo(b) \/ CopyDirectoryTo(b)
  PROVE  Fares
<1>. DEFINE found == disk[b] # None
            links == job[b].cfg.links
            file == Answers(D!CopyToContainer(World, found), P!CopyToContainer(World, found), H!CopyToContainer(World))
            dir == Answers(D!CopyDirectorToContainer(World, found, links), P!CopyDirectorToContainer(World, found, links),
                           H!CopyDirectorToContainer(World))
            x == Holding(b)
<1>1. Calls(b, "copyFile", file, x) \/ Calls(b, "copyDir", dir, x)
  BY DEF CopyFileTo, CopyDirectoryTo
<1>2. todo[b] # <<>> /\ Op0(b).do \in Copies
  BY <1>1 DEF Calls, At, Copies
<1>3. found /\ found \in BOOLEAN
  BY <1>2, PreparedDisk
<1>4. links \in BOOLEAN /\ (runtime = "podman" => ~links)
  BY StepCfg DEF Steady, Typed, Calm
<1>5. Only(file, {Ok(World)}) /\ Only(dir, {Ok(World)})
  BY <1>3, <1>4, CopyOnly DEF Steady, Typed
<1>6. x.made = ctr[b].made /\ x.state = ctr[b].state
  BY DEF Holding, Steady, Typed, TypeOK, ContainerState
<1>. HIDE DEF file, dir, x
<1>. QED
  BY <1>1, <1>5, <1>6, WorldIs, StillFares DEF Ended

\* The image is in w, and a tool image can be pulled again.
StocksIn(w, i) ==
  \/ runtime = "host"
  \/ /\ w.local[i] # Absent
     /\ i \in ToolImage => \/ Available(i) \/ w.local[i].plat = Host
                           \/ runtime = "podman" /\ w.remote[i][Host] # None

\* An operation that changes images or registries.
LEMMA StoreFares ==
  ASSUME Steady, Undisturbed, NEW b \in Builds, NEW kind \in {"build", "buildMulti", "tag", "tagCommit", "commit", "create"},
         NEW outs, NEW x, NEW w, Grows(b, w), w.config = config, Only(outs, {Ok(w)}), Calls(b, kind, outs, x),
         kind = "commit" => runtime = "host" \/ x.made # Absent,
         kind \notin {"create", "commit"} => x.made = ctr[b].made,
         kind # "create" => x.state = ctr[b].state,
         \A i \in Gives(Op0(b)) : StocksIn(w, i),
         kind = "build" /\ runtime = "podman" => w.local[Op0(b).img].plat = Host
  PROVE  Fares
<1>1. /\ todo[b] # <<>> /\ Op0(b).do = kind /\ UNCHANGED <<disk, place, history, err, exited>>
      /\ Becomes(w) /\ todo' = [todo EXCEPT ![b] = Tail(@)]
      /\ ctr'[b] = x /\ \A c \in Builds : c # b => ctr'[c] = ctr[c]
  BY OkCall
<1>2. \A i \in Gives(Op0(b)) : Stocks(i)
  BY <1>1 DEF StocksIn, Stocks, Becomes
<1>3. runtime' = runtime /\ config' = config
  BY <1>1 DEF place, Becomes
<1>4. Turns(kind, Standing(b), Standing(b)')
  BY <1>1, <1>3 DEF Turns, Standing, Ended
<1>5. kind = "build" /\ runtime = "podman" => local'[Op0(b).img].plat = Host
  BY <1>1 DEF Becomes
<1>6. kind # "push"
  OBVIOUS
<1>. QED
  BY <1>1, <1>2, <1>3, <1>4, <1>5, <1>6, DoneFares

LEMMA KeepConfig ==
  \A i, image : Keep(World, i, image).config = config
BY DEF Keep, World

\* The operations by their kinds.
LEMMA HeadTyped ==
  ASSUME Typed, NEW b \in Builds, todo[b] # <<>>
  PROVE  LET o == Op0(b)
             c == job[b].cfg
             mine == {AppTag(c), AppURI(c)}
         IN  /\ o.do \in {"build", "buildMulti"} => o.img \in ToolImage \cup mine /\ o.body \in Body
             /\ o.do = "tag" => o.img \in ToolImage \cup mine /\ (o.img \in ToolImage => o.src = o.img)
             /\ o.do = "tagCommit" => o.img \in mine
             /\ o.do = "commit" => o.img \in mine
             /\ o.do = "push" => o.img \in ToolImage \cup mine
             /\ o.do = "create" => o.img \in BaseImage \cup ToolImage /\ o.auto \in BOOLEAN /\ o.fail = "exit"
             /\ o.do = "inspect" => o.img = AppURI(c) /\ o.fail = "exit"
             /\ o.do = "config" => o.language # None
             /\ mine \subseteq Image /\ mine \cap ToolImage = {}
<1>1. Op0(b) \in AnyOps(job[b].cfg)
  BY HeadOp DEF Typed
<1>2. /\ AppTag(job[b].cfg) \in Image /\ AppURI(job[b].cfg) \in Image
      /\ AppTag(job[b].cfg) \notin ToolImage /\ AppURI(job[b].cfg) \notin ToolImage
  BY StepCfg DEF Typed
<1>. DEFINE o == Op0(b)
            c == job[b].cfg
            u == AppURI(c)
            v == AppTag(c)
<1>. HIDE DEF o, c, u, v
<1>3. o \in AnyOps(c) /\ u = AppURI(c) /\ v = AppTag(c) /\ v \notin ToolImage /\ u \notin ToolImage
  BY <1>1, <1>2 DEF o, c, u, v
<1>4. /\ o.do \in {"build", "buildMulti"} => o.img \in ToolImage \cup {v, u} /\ o.body \in {"tool", "fresh"}
      /\ o.do = "push" => o.img \in ToolImage \cup {v, u}
  BY ONLY <1>3 DEF AnyOps, ReleaseOps, GithubOps, CommentOps, PlainOps, ProdOps, QuietOps, PullOps, EnsureOps, BuildOps, RetagOps, PublishOps,
     PushOps, TagCommitOps, InspectOps, CreateOps, StartOps, PutOps, WaitOps, CommitOps, BareOps, MarkOps, BindOps, ConfigOps
<1>5. /\ o.do = "tag" => o.img \in ToolImage \cup {v, u} /\ (o.img \in ToolImage => o.src = o.img)
      /\ o.do = "tagCommit" => o.img \in {v, u}
      /\ o.do = "commit" => o.img \in {v, u}
  BY ONLY <1>3 DEF AnyOps, ReleaseOps, GithubOps, CommentOps, PlainOps, ProdOps, QuietOps, PullOps, EnsureOps, BuildOps, RetagOps, PublishOps,
     PushOps, TagCommitOps, InspectOps, CreateOps, StartOps, PutOps, WaitOps, CommitOps, BareOps, MarkOps, BindOps, ConfigOps
<1>6. /\ o.do = "create" => o.img \in BaseImage \cup ToolImage /\ o.auto \in BOOLEAN /\ o.fail = "exit"
      /\ o.do = "inspect" => o.img = u /\ o.fail = "exit"
      /\ o.do = "config" => o.language # None
  <2>1. Language(c) \in {"go", "zig"} /\ Language(c) # None
    BY DEF Language, None
  <2>. QED
  BY ONLY <1>3, <2>1 DEF AnyOps, ReleaseOps, GithubOps, CommentOps, PlainOps, ProdOps, QuietOps, PullOps, EnsureOps, BuildOps, RetagOps, PublishOps,
     PushOps, TagCommitOps, InspectOps, CreateOps, StartOps, PutOps, WaitOps, CommitOps, BareOps, MarkOps, BindOps, ConfigOps
<1>7. {"tool", "fresh"} \subseteq Body
  BY DEF Body
<1>. QED
  BY <1>2, <1>4, <1>5, <1>6, <1>7 DEF o, c, u, v

LEMMA CommitFares ==
  ASSUME Steady, Undisturbed, NEW b \in Builds, CommitContainer(b)
  PROVE  Fares
<1>. DEFINE i == Op0(b).img
            body == ctr[b].body
            image == [plat |-> Host, body |-> body]
            outs == Answers(D!CommitContainer(World, i, body), P!CommitContainer(World, i, body), H!CommitContainer(World))
            x == [ctr[b] EXCEPT !.made = IF runtime = "host" THEN Absent ELSE image]
            w == IF runtime = "host" THEN World ELSE Keep(World, i, image)
<1>1. Calls(b, "commit", outs, x)
  BY DEF CommitContainer
<1>2. todo[b] # <<>> /\ Op0(b).do = "commit"
  BY <1>1 DEF Calls, At
<1>3. i \in Image /\ i \notin ToolImage
  BY <1>2, HeadTyped DEF Steady
<1>4. image # Absent
  BY StoredNot DEF Platform
<1>5. Only(outs, {Ok(w)})
  BY CommitOnly DEF Steady, Typed
<1>6. Grows(b, w) /\ w.config = config
  BY <1>3, <1>4, GrowsKept, GrowsSame, WorldIs, KeepConfig DEF Steady, Typed
<1>7. x.state = ctr[b].state /\ (runtime = "host" \/ x.made # Absent)
  BY <1>4 DEF Steady, Typed, TypeOK, ContainerState
<1>8. Gives(Op0(b)) = {}
  BY <1>2 DEF Gives
<1>. HIDE DEF outs, x, w
<1>. QED
  BY <1>1, <1>5, <1>6, <1>7, <1>8, StoreFares

LEMMA BuildFares ==
  ASSUME Steady, Undisturbed, NEW b \in Builds, BuildImage(b)
  PROVE  Fares
<1>. DEFINE i == Op0(b).img
            body == Op0(b).body
            image == [plat |-> Host, body |-> body]
            outs == Answers(D!BuildImage(World, i, body), P!BuildImage(World, i, body), H!BuildImage(World))
            w == IF runtime = "host" THEN World ELSE Keep(World, i, image)
<1>1. Calls(b, "build", outs, ctr[b])
  BY DEF BuildImage
<1>2. todo[b] # <<>> /\ Op0(b).do = "build"
  BY <1>1 DEF Calls, At
<1>3. i \in Image
  BY <1>2, HeadTyped, KnownImages DEF Steady
<1>4. image # Absent
  BY StoredNot DEF Platform
<1>5. Only(outs, {Ok(w)})
  BY BuildOnly DEF Steady, Typed
<1>6. image.plat = Host
  OBVIOUS
<1>. HIDE DEF image
<1>7. Grows(b, w) /\ w.config = config /\ (runtime # "host" => w.local[i] = image)
  BY <1>2, <1>3, <1>4, <1>6, GrowsKept, GrowsSame, WorldIs, KeepConfig DEF Steady, Typed
<1>8. Gives(Op0(b)) = {i}
  BY <1>2 DEF Gives
<1>. HIDE DEF outs, w
<1>9. StocksIn(w, i)
  BY <1>4, <1>6, <1>7 DEF StocksIn
<1>. QED
  BY <1>1, <1>5, <1>6, <1>7, <1>8, <1>9, StoreFares

LEMMA MultiFares ==
  ASSUME Steady, Undisturbed, NEW b \in Builds, BuildImageByPlatforms(b)
  PROVE  Fares
<1>. DEFINE i == Op0(b).img
            body == Op0(b).body
            outs == Answers(D!BuildMultiArchImage(World, i, body), P!BuildMultiArchImage(World, i, body),
                            H!BuildMultiArchImage(World))
            v == Fetched(Offer(World, i, Platform, body), i, Host)
            y == Offer(Keep(World, i, [plat |-> Host, body |-> body]), i, Platform, body)
            w == IF runtime = "docker" THEN v ELSE y
<1>1. Calls(b, "buildMulti", outs, ctr[b])
  BY DEF BuildImageByPlatforms
<1>2. todo[b] # <<>> /\ Op0(b).do = "buildMulti"
  BY <1>1 DEF Calls, At
<1>3. i \in Image /\ body \in Body
  BY <1>2, HeadTyped, KnownImages DEF Steady
<1>4. TypeOK /\ runtime \in {"docker", "podman", "host"}
  BY StepCfg DEF Steady, Typed
<1>5. CASE runtime = "host"
  <2>1. Only(outs, {})
    BY <1>4, <1>5, BuildOnly
  <2>. HIDE DEF outs
  <2>2. \E out \in outs : Answered(out)
    BY <1>1 DEF Calls
  <2>. QED
    BY <2>1, <2>2, CalmAnswer
<1>6. CASE runtime # "host"
  <2>1. Only(outs, {Ok(w)})
    BY <1>4, <1>6, BuildOnly
  <2>2. v.config = config /\ y.config = config
    BY DEF Fetched, Keep, Offer, World
  <2>3. \A z \in {v, y} : Grows(b, z) /\ z.local[i] # Absent /\ z.local[i].plat = Host /\ z.remote[i][Host] # None
    BY <1>3, <1>4, GrowsBoth
  <2>4. w \in {v, y} /\ w.config = config
    BY <2>2
  <2>5. Gives(Op0(b)) = {i}
    BY <1>2 DEF Gives
  <2>. HIDE DEF outs, w, v, y
  <2>6. StocksIn(w, i)
    BY <2>3, <2>4 DEF StocksIn
  <2>. QED
    BY <1>1, <2>1, <2>3, <2>4, <2>5, <2>6, StoreFares
<1>. QED
  BY <1>5, <1>6

\* What failures that are not reported leave.
LEMMA Unreported ==
  ASSUME Typed, NEW b \in Builds
  PROVE  /\ Disposes(b, "exit") =>
              exited' = "exit" /\ UNCHANGED err /\ \A c \in Builds : c # b => todo'[c] = todo[c]
         /\ Disposes(b, "log") => UNCHANGED <<err, exited>> /\ todo' = [todo EXCEPT ![b] = Tail(@)]
<1>1. err \in [Builds -> BOOLEAN] /\ DOMAIN todo = Builds
  BY DEF Typed, TypeOK
<1>2. [err EXCEPT ![b] = @ \/ FALSE] = err
  BY <1>1
<1>3. Disposes(b, "exit") => exited' = "exit" /\ UNCHANGED err /\ \A c \in Builds : c # b => todo'[c] = todo[c]
  BY <1>1, <1>2 DEF Disposes
<1>4. Disposes(b, "log") => UNCHANGED <<err, exited>> /\ todo' = [todo EXCEPT ![b] = Tail(@)]
  BY <1>1, <1>2 DEF Disposes
<1>. QED
  BY <1>3, <1>4

LEMMA TagFares ==
  ASSUME Steady, Undisturbed, NEW b \in Builds, Tag(b)
  PROVE  Fares
<1>. DEFINE o == Op0(b)
            src == IF o.do = "tag" THEN local[o.src] ELSE ctr[b].made
            outs == Answers(D!TagImage(World, src, o.img), P!TagImage(World, src, o.img), H!TagImage(World))
            w == IF runtime = "host" THEN World ELSE Keep(World, o.img, src)
<1>1. PICK kind \in {"tag", "tagCommit"} : Calls(b, kind, outs, ctr[b])
  BY DEF Tag
<1>2. todo[b] # <<>> /\ o.do = kind
  BY <1>1 DEF Calls, At
<1>3. o.img \in Image
  BY <1>2, HeadTyped, KnownImages DEF Steady
<1>4. runtime = "host" \/ src # Absent
  <2>1. CASE kind = "tag"
    <3>1. Available(o.src)
      BY <1>2, <2>1, HeadFits DEF Needs
    <3>. QED
      BY <3>1, <1>2, <2>1 DEF Available, Present, World
  <2>2. CASE kind = "tagCommit"
    BY <1>2, <2>2, HeadFits DEF Standing
  <2>. QED
    BY <2>1, <2>2
<1>5. o.img \in ToolImage => kind = "tag" /\ src = local[o.img] /\ Available(o.img)
  <2>. SUFFICES ASSUME o.img \in ToolImage  PROVE kind = "tag" /\ src = local[o.img] /\ Available(o.img)
    OBVIOUS
  <2>1. o.do = "tag" /\ o.src = o.img
    BY <1>2, HeadTyped DEF Steady
  <2>2. Available(o.src)
    BY <1>2, <2>1, HeadFits DEF Needs
  <2>. QED
    BY <1>2, <2>1, <2>2
<1>6. Only(outs, {Ok(w)})
  BY <1>4, TagOnly DEF Steady, Typed
<1>7. Gives(o) = {o.img}
  BY <1>2 DEF Gives
<1>8. Grows(b, w) /\ w.config = config /\ (runtime # "host" => w.local[o.img] = src)
  <2>. HIDE DEF src, o
  <2>1. runtime # "host" => Grows(b, Keep(World, o.img, src)) /\ Keep(World, o.img, src).local[o.img] = src
    BY <1>3, <1>4, <1>5, GrowsKept DEF Steady, Typed
  <2>. QED
    BY <2>1, GrowsSame, WorldIs, KeepConfig
<1>. HIDE DEF outs, w, src
<1>9. StocksIn(w, o.img)
  BY <1>4, <1>5, <1>8 DEF StocksIn
<1>. QED
  BY <1>1, <1>6, <1>7, <1>8, <1>9, StoreFares

LEMMA PushFares ==
  ASSUME Steady, Undisturbed, NEW b \in Builds, Push(b)
  PROVE  Fares
<1>. DEFINE i == Op0(b).img
            outs == Answers(D!PushImage(World, i, Auth(b)), P!PushImage(World, i, Auth(b)), H!PushImage(World))
            w == IF runtime = "host" THEN World ELSE Offer(World, i, {local[i].plat}, local[i].body)
<1>1. todo[b] # <<>> /\ Op0(b).do = "push"
  BY DEF Push, At
<1>2. Available(i) /\ i \in Image
  BY <1>1, HeadFits DEF Needs
<1>3. runtime = "host" \/ Present(World, i)
  BY <1>2 DEF Available
<1>4. Only(outs, {Ok(w)})
  BY <1>3, PushOnly DEF Steady, Typed
<1>5. local[i] # Absent => Grows(b, w) /\ w.config = config /\ (runtime # "host" => w.remote[i][local[i].plat] # None)
  <2>1. Offer(World, i, {local[i].plat}, local[i].body).config = config
    BY DEF Offer, World
  <2>. QED
    BY <1>2, <2>1, GrowsPushed, GrowsSame, WorldIs DEF Steady, Typed
<1>6. runtime = "host" => Grows(b, w) /\ w.config = config
  BY GrowsSame, WorldIs
<1>7. Grows(b, w) /\ w.config = config /\ (runtime # "host" => w.remote[i][local[i].plat] # None)
  BY <1>3, <1>5, <1>6 DEF Present, World
<1>. HIDE DEF w
<1>8. PICK out \in outs :
        /\ Answered(out)
        /\ out.res = "ok" => Goes(b)
        /\ UNCHANGED <<ctr, disk, place, skipped>>
  BY DEF Push
<1>9. out \in {Ok(w)} /\ Becomes(out.world)
  BY <1>4, <1>8, CalmAnswer
<1>10. out.res = "ok" /\ out.world = w
  BY <1>9 DEF Ok, Outcome
<1>11. runtime' = runtime /\ config' = config
  BY <1>7, <1>8, <1>9, <1>10 DEF place, Becomes
<1>12. Turns(Op0(b).do, Standing(b), Standing(b)')
  BY <1>1, <1>8, <1>11, PlainTurns
<1>13. Gives(Op0(b)) = {}
  BY <1>1 DEF Gives
<1>14. runtime = "podman" /\ local[i].plat = Host => remote'[i][Host] # None
  BY <1>7, <1>9, <1>10 DEF Becomes
<1>. HIDE DEF outs
<1>15. todo' = [todo EXCEPT ![b] = Tail(@)] /\ UNCHANGED <<err, exited>>
  BY <1>8, <1>10 DEF Goes
<1>. QED
  BY <1>1, <1>7, <1>8, <1>9, <1>10, <1>11, <1>12, <1>13, <1>14, <1>15, DoneFares

\* Podman only scans what is published.
LEMMA InspectFares ==
  ASSUME Steady, Undisturbed, NEW b \in Builds, InspectImage(b)
  PROVE  Fares
<1>. DEFINE i == Op0(b).img
            outs == Answers(D!InspectImage(World, i), P!InspectImage(World, i), H!InspectImage(World))
            there == runtime = "host" \/ Present(World, i)
<1>1. Calls(b, "inspect", outs, ctr[b])
  BY DEF InspectImage
<1>2. todo[b] # <<>> /\ Op0(b).do = "inspect"
  BY <1>1 DEF Calls, At
<1>3. CASE there
  <2>1. Only(outs, {Ok(World)})
    BY <1>3, InspectOnly DEF Steady, Typed
  <2>. HIDE DEF outs
  <2>. QED
    BY <1>1, <2>1, WorldIs, StillFares DEF Ended
<1>4. CASE ~there
  <2>1. Only(outs, {Refused(World)})
    BY <1>4, InspectOnly DEF Steady, Typed
  <2>2. i = AppURI(job[b].cfg) /\ Op0(b).fail = "exit"
    BY <1>2, HeadTyped DEF Steady
  <2>3. Current(b) = "trivy" /\ runtime = "podman"
    BY <1>2, HeadFits DEF Sane
  <2>. HIDE DEF outs
  <2>4. PICK out \in {Refused(World)} : Becomes(out.world) /\ (out.res # "ok" => FailsAs(b, out))
    BY <1>1, <2>1, CalmCall
  <2>5. out.res = "error" /\ out.world = World
    BY DEF Refused, Outcome
  <2>6. Disposes(b, "exit")
    BY <2>2, <2>4, <2>5 DEF FailsAs
  <2>7. exited' = "exit" /\ UNCHANGED err
    BY <2>6, Unreported DEF Steady
  <2>8. UNCHANGED <<runtime, job, pos, local>>
    BY <1>1, <2>4, <2>5 DEF Calls, place, Becomes, World
  <2>9. pos[b] \in 1..pos[b]
    BY <1>2, HeadOp, ProgramLength DEF Steady, Typed
  <2>10. ScansUnpublished(b)'
    BY <1>4, <2>2, <2>3, <2>8, <2>9 DEF ScansUnpublished, Present, World, Current
  <2>11. Builds' = Builds
    BY <2>8 DEF Builds
  <2>. QED
    BY <2>7, <2>10, <2>11 DEF Fares, Unpublished
<1>. QED
  BY <1>3, <1>4

\* A container of a tool image that Podman pulls again and that is not published:
\* another build is about to push it, or the run that built it was killed.
LEMMA RefusedCreate ==
  ASSUME Steady, Undisturbed, NEW b \in Builds, todo[b] # <<>>, Op0(b).do = "create", runtime = "podman",
         ~Offered(World, Op0(b).img, Host), Becomes(World), UNCHANGED place, Disposes(b, "exit")
  PROVE  Fares
<1>0. PICK i : i = Op0(b).img
  OBVIOUS
<1>1. i \in ToolImage /\ Available(i)
  <2>1. i \in BaseImage \cup ToolImage
    BY <1>0, HeadTyped DEF Steady
  <2>2. i \notin BaseImage
    BY <1>0 DEF Steady, BaseOffered, Offered, World
  <2>. QED
    BY <1>0, <2>1, <2>2, HeadFits DEF Needs
<1>2. run > 1 \/ PushAhead(i)
  BY <1>0, <1>1 DEF Available, Pullable, Offered, World
<1>3. exited' = "exit" /\ UNCHANGED err /\ \A c \in Builds : c # b => todo'[c] = todo[c]
  BY Unreported DEF Steady
<1>4. UNCHANGED <<runtime, job, pos, run, local, remote>> /\ Builds' = Builds
  BY DEF place, Becomes, World, Builds
<1>5. run' > 1 \/ PushAhead(i)'
  <2>. SUFFICES ASSUME PushAhead(i)  PROVE PushAhead(i)'
    BY <1>2, <1>4
  <2>1. PICK c \in Builds : Pushing(todo[c], i)
    BY PushAheadIs DEF Steady
  <2>2. c # b
    <3>. SUFFICES ASSUME c = b  PROVE FALSE
      OBVIOUS
    <3>1. PICK k \in 1..Len(todo[b]) : todo[b][k].do = "push" /\ todo[b][k].img = i
      BY <2>1 DEF Pushing
    <3>2. Op0(b) = todo[b][1]
      BY HeadOp DEF Steady, Typed
    <3>3. ChainedAt(b)
      BY DEF Steady, Fine, FineAt
    <3>4. \A j \in 1..(k - 1) : todo[b][j].do \in {"build", "tag"}
      BY <3>1, <3>3, <1>1 DEF ChainedAt
    <3>5. k # 1
      BY <3>1, <3>2
    <3>6. 1 \in 1..(k - 1)
      BY <3>5
    <3>. QED
      BY <3>2, <3>4, <3>6
  <2>3. Pushing(todo'[c], i)
    BY <2>1, <2>2, <1>3 DEF Pushing
  <2>4. Typed'
    BY DEF Undisturbed
  <2>. QED
    BY <2>3, <2>4, <1>4, PushAheadIs
<1>6. Present(World, i)'
  BY <1>1, <1>4, StepCfg DEF Available, Present, World
<1>7. remote'[i][Host] = None
  BY <1>0, <1>4 DEF Offered, World
<1>8. BuiltNotPushed'
  BY <1>1, <1>4, <1>5, <1>6, <1>7 DEF BuiltNotPushed
<1>. QED
  BY <1>3, <1>8 DEF Fares, Unpublished

LEMMA CreateFares ==
  ASSUME Steady, Undisturbed, NEW b \in Builds, CreateContainer(b)
  PROVE  Fares
<1>. DEFINE o == Op0(b)
            i == o.img
            outs == Answers(D!CreateContainer(World, i, o.auto, Auth(b)), P!CreateContainer(World, i, o.auto, Auth(b)),
                            H!CreateContainer(World))
            w == Fetched(World, i, Host)
<1>1. todo[b] # <<>> /\ o.do = "create" /\ UNCHANGED <<disk, place, history>>
  BY DEF CreateContainer, At
<1>2. i \in BaseImage \cup ToolImage /\ o.auto \in BOOLEAN /\ o.fail = "exit"
  BY <1>1, HeadTyped DEF Steady
<1>3. Available(i) /\ i \in Image
  BY <1>1, HeadFits DEF Needs
<1>4. runtime = "host" \/ Present(World, i)
  BY <1>3 DEF Available
<1>5. runtime = "docker" => local[i].plat = Host \/ Offered(World, i, Host)
  BY <1>2, <1>3 DEF Available, Pullable, Steady, BaseOffered, Offered, World
<1>6. PICK out \in outs :
        /\ Answered(out)
        /\ out.res = "ok" => Goes(b) /\ \E y : ctr' = [ctr EXCEPT ![b] = y]
        /\ out.res # "ok" => FailsAs(b, out)
  BY DEF CreateContainer
<1>7. \/ Only(outs, {Ok(World)})
      \/ Only(outs, {Ok(w)}) /\ Offered(World, i, Host)
      \/ Only(outs, {Refused(World)}) /\ runtime = "podman" /\ ~Offered(World, i, Host)
  BY <1>2, <1>4, <1>5, CreateOnly DEF Steady, Typed
<1>. HIDE DEF outs
<1>8. ASSUME NEW v \in {World, w}, Only(outs, {Ok(v)}), Grows(b, v), v.config = config
      PROVE  Fares
  <2>1. out \in {Ok(v)} /\ Becomes(out.world)
    BY <1>6, <1>8, CalmAnswer
  <2>2. out.res = "ok" /\ out.world = v
    BY <2>1 DEF Ok, Outcome
  <2>3. \A c \in Builds : c # b => ctr'[c] = ctr[c]
    BY <1>6, <2>2 DEF Steady, Typed, TypeOK
  <2>4. todo' = [todo EXCEPT ![b] = Tail(@)] /\ UNCHANGED <<err, exited>>
    BY <1>6, <2>2 DEF Goes
  <2>5. config' = config
    BY <1>8, <2>1, <2>2 DEF Becomes
  <2>6. Turns(o.do, Standing(b), Standing(b)')
    BY <1>1, <2>5 DEF Turns, Standing, Ended
  <2>7. Gives(o) = {}
    BY <1>1 DEF Gives
  <2>. QED
    BY <1>1, <1>8, <2>1, <2>2, <2>3, <2>4, <2>5, <2>6, <2>7, DoneFares
<1>9. CASE Only(outs, {Ok(World)})
  BY <1>8, <1>9, GrowsSame, WorldIs
<1>10. CASE Only(outs, {Ok(w)}) /\ Offered(World, i, Host)
  <2>1. Host \in Platform
    BY DEF Platform
  <2>2. w.config = config
    BY KeepConfig DEF Fetched
  <2>3. Grows(b, w)
    BY <1>3, <1>10, <2>1, GrowsFetched DEF Steady, Typed
  <2>. QED
    BY <1>8, <1>10, <2>2, <2>3
<1>11. CASE Only(outs, {Refused(World)}) /\ runtime = "podman" /\ ~Offered(World, i, Host)
  <2>1. out \in {Refused(World)} /\ Becomes(out.world)
    BY <1>6, <1>11, CalmAnswer
  <2>2. out.res = "error" /\ out.world = World
    BY <2>1 DEF Refused, Outcome
  <2>3. Disposes(b, "exit")
    BY <1>2, <1>6, <2>2 DEF FailsAs
  <2>. QED
    BY <1>1, <1>11, <2>1, <2>2, <2>3, RefusedCreate
<1>. QED
  BY <1>7, <1>9, <1>10, <1>11

LEMMA WaitFares ==
  ASSUME Steady, Undisturbed, NEW b \in Builds, WaitContainer(b)
  PROVE  Fares
<1>. DEFINE outs == Answers(D!WaitContainer(World), P!WaitContainer(World), H!WaitContainer(World))
<1>1. /\ todo[b] # <<>> /\ Op0(b).do = "wait" /\ UNCHANGED <<place, history>>
      /\ \E out \in outs : ctr' = [ctr EXCEPT ![b].state = WaitEnds(out.res)]
  BY DEF WaitContainer, At
<1>2. faults = 0 /\ faults' = 0
  BY DEF Steady, Calm, Undisturbed
<1>3. PICK out \in outs : Answered(out) /\ (out.res = "ok" => Goes(b))
  BY <1>2 DEF WaitContainer
<1>4. ~out.fault
  BY <1>2, <1>3 DEF Answered
<1>5. out = Ok(World)
  BY <1>4, QuietOnly DEF Steady, Typed
<1>6. out.res = "ok" /\ Becomes(World)
  BY <1>3, <1>5 DEF Ok, Outcome, Answered
<1>7. \A c \in Builds : c # b => ctr'[c] = ctr[c]
  BY <1>1 DEF Steady, Typed, TypeOK
<1>8. ctr'[b].made = ctr[b].made
  BY <1>1 DEF Steady, Typed, TypeOK, ContainerState
<1>9. config' = config /\ runtime' = runtime
  BY <1>1, <1>6 DEF Becomes, World, place
<1>10. Turns(Op0(b).do, Standing(b), Standing(b)')
  BY <1>1, <1>8, <1>9 DEF Turns, Standing, Ended
<1>11. Gives(Op0(b)) = {}
  BY <1>1 DEF Gives
<1>12. Grows(b, World)
  BY GrowsSame, WorldIs
<1>13. todo' = [todo EXCEPT ![b] = Tail(@)] /\ UNCHANGED <<err, exited>>
  BY <1>3, <1>6 DEF Goes
<1>. QED
  BY <1>1, <1>6, <1>7, <1>9, <1>10, <1>11, <1>12, <1>13, DoneFares

\* Goreleaser's file, and what leaves everything as it is.
LEMMA ConfigFares ==
  ASSUME Steady, Undisturbed, NEW b \in Builds, ConfigOp(b)
  PROVE  Fares
<1>1. CASE WriteConfig(b)
  <2>. DEFINE l == Op0(b).language
              w == [World EXCEPT !.config = l]
  <2>1. Calls(b, "config", Call(w, World), ctr[b])
    BY <1>1 DEF WriteConfig
  <2>2. todo[b] # <<>> /\ Op0(b).do = "config"
    BY <2>1 DEF Calls, At
  <2>3. l # None
    BY <2>2, HeadTyped DEF Steady
  <2>4. w.local = local /\ w.remote = remote /\ w.config = l
    BY WorldIs
  <2>. HIDE DEF w
  <2>. QED
    BY <2>1, <2>3, <2>4, CallOnly, StillFares DEF Ended
<1>2. CASE BindConfig(b)
  <2>. DEFINE x == [ctr[b] EXCEPT !.config = config]
  <2>1. Calls(b, "bind", IF config = None THEN {Refused(World)} ELSE {Ok(World)}, x)
    BY <1>2 DEF BindConfig
  <2>2. todo[b] # <<>> /\ Op0(b).do = "bind"
    BY <2>1 DEF Calls, At
  <2>3. config # None
    BY <2>2, HeadFits DEF Standing
  <2>4. x.made = ctr[b].made /\ x.state = ctr[b].state
    BY DEF Steady, Typed, TypeOK, ContainerState
  <2>. HIDE DEF x
  <2>5. Calls(b, "bind", {Ok(World)}, x)
    BY <2>1, <2>3
  <2>. QED
    BY <2>4, <2>5, CallOnly, WorldIs, StillFares DEF Ended
<1>3. CASE RemoveConfig(b)
  <2>. DEFINE w == [World EXCEPT !.config = None]
  <2>1. Calls(b, "unconfig", {Ok(w)}, ctr[b])
    BY <1>3 DEF RemoveConfig
  <2>2. w.local = local /\ w.remote = remote
    BY WorldIs
  <2>. HIDE DEF w
  <2>. QED
    BY <2>1, <2>2, CallOnly, StillFares DEF Ended
<1>. QED
  BY <1>1, <1>2, <1>3 DEF ConfigOp

LEMMA PlainFares ==
  ASSUME Steady, Undisturbed, NEW b \in Builds, Prepare(b) \/ RefuseStep(b) \/ PassMark(b)
  PROVE  Fares
<1>1. CASE Prepare(b)
  <2>1. Calls(b, "check", Call(World, World), ctr[b])
    BY <1>1 DEF Prepare
  <2>. QED
    BY <2>1, CallOnly, WorldIs, StillFares DEF Ended
<1>2. CASE RefuseStep(b)
  <2>1. todo[b] # <<>> /\ Op0(b).do = "refuse"
    BY <1>2 DEF RefuseStep, Calls, At
  <2>2. ~job[b].cfg.token \/ (Current(b) = "python-prod" /\ ~job[b].cfg.image /\ runtime # "host")
    BY <2>1, HeadFits DEF Sane
  <2>3. pos[b] \in 1..pos[b]
    BY <2>1, HeadOp, ProgramLength DEF Steady, Typed
  <2>4. ~job[b].cfg.token \/ Nameless(b)
    BY <2>2, <2>3 DEF Nameless, Current
  <2>. QED
    BY <2>4 DEF Steady, Calm
<1>3. CASE PassMark(b)
  <2>1. Calls(b, "mark", {Ok(World)}, ctr[b])
    BY <1>3 DEF PassMark
  <2>. QED
    BY <2>1, CallOnly, WorldIs, StillFares DEF Ended
<1>. QED
  BY <1>1, <1>2, <1>3

\* A pull for a platform finds the image or fetches it, or it is not offered.
LEMMA PlatformOnly ==
  ASSUME Steady, NEW b \in Builds, NEW i \in Image, NEW p \in Platform, p = Host \/ job[b].cfg.host # "linux"
  PROVE  LET outs == PullByPlatform(b, i, p) IN
         \/ \E w : /\ Only(outs, {Ok(w)}) /\ Grows(b, w) /\ w.config = config
                   /\ runtime = "host" \/ (w.local[i] # Absent /\ (p = Host => w.local[i].plat = Host))
         \/ Only(outs, {Refused(World)}) /\ (p = Host => remote[i][Host] = None)
<1>. DEFINE outs == PullByPlatform(b, i, p)
            q == IF runtime = "docker" THEN Host ELSE p
            v == Fetched(World, i, q)
<1>0. Host \in Platform /\ TypeOK /\ Calm
  BY DEF Platform, Steady, Typed
<1>1. ASSUME NEW w, Only(outs, {Ok(w)}), Grows(b, w), w.config = config,
             runtime = "host" \/ (w.local[i] # Absent /\ (p = Host => w.local[i].plat = Host))
      PROVE  \E z : /\ Only(outs, {Ok(z)}) /\ Grows(b, z) /\ z.config = config
                    /\ runtime = "host" \/ (z.local[i] # Absent /\ (p = Host => z.local[i].plat = Host))
  BY <1>1
<1>2. CASE runtime = "host"
  <2>1. Only(outs, {Ok(World)})
    BY <1>0, <1>2, PullOnly DEF PullByPlatform
  <2>. HIDE DEF outs
  <2>. QED
    BY <1>1, <1>2, <2>1, GrowsSame, WorldIs DEF outs
<1>3. CASE runtime # "host" /\ Present(World, i) /\ local[i].plat = p
  <2>1. outs = Call(World, World)
    BY <1>3 DEF PullByPlatform
  <2>2. Only(outs, {Ok(World)})
    BY <2>1, CallOnly
  <2>. HIDE DEF outs
  <2>. QED
    BY <1>1, <1>3, <2>2, GrowsSame, WorldIs DEF Present, outs
<1>4. CASE runtime # "host" /\ ~(Present(World, i) /\ local[i].plat = p)
  <2>1. outs = Pulled(b, i, p)
    BY <1>4 DEF PullByPlatform
  <2>2. q = Host \/ (runtime # "docker" /\ job[b].cfg.host # "linux")
    OBVIOUS
  <2>3. q \in Platform
    BY <1>0
  <2>4. /\ Offered(World, i, q) => Only(outs, {Ok(v)})
        /\ ~Offered(World, i, q) => Only(outs, {Refused(World)})
    BY <1>0, <1>4, <2>1, PullOnly
  <2>. HIDE DEF outs
  <2>5. CASE Offered(World, i, q)
    <3>1. Grows(b, v) /\ v.local[i] # Absent /\ v.local[i].plat = q
      BY <1>0, <2>2, <2>3, <2>5, GrowsFetched
    <3>2. v.config = config
      BY KeepConfig DEF Fetched
    <3>3. p = Host => q = Host
      OBVIOUS
    <3>. HIDE DEF v, q
    <3>. QED
      BY <1>1, <2>4, <2>5, <3>1, <3>2, <3>3 DEF outs
  <2>6. CASE ~Offered(World, i, q)
    BY <2>4, <2>6 DEF Offered, World, outs
  <2>. QED
    BY <2>5, <2>6
<1>. QED
  BY <1>2, <1>3, <1>4

\* One operation in the place of another.
LEMMA ServesOne ==
  ASSUME NEW b, NEW x, x.do \in {"pull", "ensure", "buildMulti"}, Sane(x, Current(b), job[b].cfg, runtime),
         x.do = "ensure" =>
           x.img \in Image /\ IF x.asked THEN x.left = x.plats \/ x.missed \/ Stocks(x.img) ELSE ~x.missed,
         \A i \in Gives(Op0(b)) : Stocks(i) \/ i \in Gives(x)
  PROVE  Serves(<<x>>, b)
<1>. DEFINE ops == <<x>>
<1>1. Len(ops) = 1 /\ ops[1] = x /\ 1..Len(ops) = {1}
  OBVIOUS
<1>. HIDE DEF ops
<1>2. \A i : Coming(ops, 2, i) <=> i \in Gives(x)
  <2>1. 1..(2 - 1) = {1}
    OBVIOUS
  <2>. QED
    BY <1>1, <2>1 DEF Coming
<1>3. Needs(x) = {}
  BY DEF Needs
<1>4. \A i \in Gives(Op0(b)) : Stocks(i) \/ Coming(ops, Len(ops) + 1, i)
  BY <1>1, <1>2
<1>5. Serves(ops, b)
  BY <1>1, <1>3, <1>4 DEF Serves
<1>. QED
  BY <1>5 DEF ops

\* What a step pulls it finds, or it does not rely on it.
LEMMA PullFares ==
  ASSUME Steady, Undisturbed, NEW b \in Builds, EnsureImagesExists(b)
  PROVE  Fares
<1>. DEFINE o == Op0(b)
            c == job[b].cfg
            i == Head(o.imgs)
            listed == Present(World, i) /\ runtime # "host"
            wrong == listed /\ local[i].plat # Host
            outs == IF listed /\ ~wrong THEN Call(World, World) ELSE Pulled(b, i, Host)
            x == [o EXCEPT !.imgs = Tail(@)]
            S == StepOps(Current(b), c)
<1>1. /\ exited = "no" /\ todo[b] # <<>> /\ o.do = "pull" /\ UNCHANGED <<ctr, disk, place, claimed>>
      /\ \E out \in outs :
           /\ Answered(out)
           /\ IF out.res # "ok" THEN FailsAs(b, out) /\ UNCHANGED skipped
              ELSE /\ skipped' = skipped \cup IF wrong THEN Range(Tail(o.imgs)) ELSE {}
                   /\ IF wrong \/ Len(o.imgs) = 1 THEN Goes(b) ELSE Instead(b, <<x>>)
  BY DEF EnsureImagesExists, At
<1>2. o \in PullOps
  BY <1>1, HeadStocked, KindOf DEF Steady, Typed
<1>3. o.imgs \in Seq(BaseImage \cup ToolImage) /\ o.imgs # <<>> /\ o.fail \in FailKind
  BY <1>2 DEF PullOps
<1>4. /\ i \in BaseImage \cup ToolImage /\ Tail(o.imgs) \in Seq(BaseImage \cup ToolImage) /\ i = o.imgs[1]
      /\ Len(o.imgs) \in Nat /\ Len(o.imgs) > 0 /\ Len(Tail(o.imgs)) = Len(o.imgs) - 1 /\ Rest(o.imgs, 1, Tail(o.imgs))
  BY <1>3, TailRest DEF Rest
<1>5. Range(o.imgs) = {i} \cup Range(Tail(o.imgs)) /\ (Len(o.imgs) = 1 <=> Range(Tail(o.imgs)) = {})
  <2>1. \A s \in Seq(BaseImage \cup ToolImage) : Range(s) = {s[k] : k \in 1..Len(s)}
    BY DEF Range
  <2>2. Range(o.imgs) = {o.imgs[k] : k \in 1..Len(o.imgs)} /\ Range(Tail(o.imgs)) = {Tail(o.imgs)[k] : k \in 1..Len(Tail(o.imgs))}
    BY <1>3, <1>4, <2>1
  <2>3. \A k \in 1..Len(Tail(o.imgs)) : Tail(o.imgs)[k] = o.imgs[k + 1] /\ k + 1 \in 1..Len(o.imgs)
    BY <1>4 DEF Rest
  <2>4. \A k \in 1..Len(o.imgs) : k = 1 \/ (k - 1 \in 1..Len(Tail(o.imgs)) /\ (k - 1) + 1 = k)
    BY <1>4
  <2>. DEFINE a == o.imgs
              d == Tail(a)
  <2>. HIDE DEF a, d
  <2>5. Range(a) = {a[k] : k \in 1..Len(a)} /\ Range(d) = {d[k] : k \in 1..Len(d)} /\ a[1] = i /\ 1 \in 1..Len(a)
    BY <2>2, <1>4 DEF a, d
  <2>6. /\ \A k \in 1..Len(d) : d[k] = a[k + 1] /\ k + 1 \in 1..Len(a)
        /\ \A k \in 1..Len(a) : k = 1 \/ (k - 1 \in 1..Len(d) /\ (k - 1) + 1 = k)
    BY <2>3, <2>4 DEF a, d
  <2>7. Range(a) = {i} \cup Range(d)
    <3>1. \A z \in Range(a) : z = i \/ z \in Range(d)
      <4>. SUFFICES ASSUME NEW k \in 1..Len(a), k # 1  PROVE a[k] \in Range(d)
        BY <2>5
      <4>1. k - 1 \in 1..Len(d) /\ d[k - 1] = a[k]
        BY <2>6
      <4>. QED
        BY <4>1, <2>5
    <3>2. \A z \in Range(d) : z \in Range(a)
      BY <2>5, <2>6
    <3>. QED
      BY <2>5, <3>1, <3>2
  <2>8. Len(a) = 1 <=> Range(d) = {}
    <3>1. Len(d) = Len(a) - 1 /\ Len(a) \in Nat /\ Len(a) > 0
      BY <1>4 DEF a, d
    <3>2. Len(a) = 1 => 1..Len(d) = {}
      BY <3>1
    <3>3. Len(a) # 1 => 1 \in 1..Len(d)
      BY <3>1
    <3>. QED
      BY <2>5, <3>2, <3>3
  <2>. QED
    BY <2>7, <2>8 DEF a, d
<1>6. i \in Image /\ Host \in Platform
  BY <1>4, KnownImages DEF Platform
<1>7. Sane(o, Current(b), c, runtime) /\ Gives(o) = Range(o.imgs) \cap BaseImage
  BY <1>1, HeadFits DEF Gives
<1>8. outs = PullByPlatform(b, i, Host)
  BY DEF PullByPlatform
<1>9. BaseImage \cap ToolImage = {}
  BY DEF BaseImage, ToolImage, Base, Tool
<1>10. runtime' = runtime
  BY <1>1 DEF place
<1>. HIDE DEF outs, wrong, listed, x
<1>11. PICK out \in outs :
        /\ Answered(out)
        /\ IF out.res # "ok" THEN FailsAs(b, out) /\ UNCHANGED skipped
           ELSE /\ skipped' = skipped \cup IF wrong THEN Range(Tail(o.imgs)) ELSE {}
                /\ IF wrong \/ Len(o.imgs) = 1 THEN Goes(b) ELSE Instead(b, <<x>>)
  BY <1>1
<1>12. CASE Only(outs, {Refused(World)}) /\ remote[i][Host] = None
  <2>1. out \in {Refused(World)} /\ Becomes(out.world)
    BY <1>11, <1>12, CalmAnswer
  <2>2. out.res = "error" /\ out.world = World
    BY <2>1 DEF Refused, Outcome
  <2>3. i \notin BaseImage
    BY <1>12 DEF Steady, BaseOffered
  <2>4. i \in Range(o.imgs)
    BY <1>5
  <2>5. o.fail = "log" /\ Gives(o) = {}
    BY <1>1, <1>7, <2>3, <2>4 DEF Sane
  <2>6. Disposes(b, "log")
    BY <1>11, <2>2, <2>5 DEF FailsAs
  <2>7. UNCHANGED <<err, exited>> /\ todo' = [todo EXCEPT ![b] = Tail(@)]
    BY <2>6, Unreported DEF Steady
  <2>8. config' = config /\ Becomes(World)
    BY <2>1, <2>2 DEF Becomes, World
  <2>9. Turns(o.do, Standing(b), Standing(b)')
    BY <1>1, <1>10, <2>8, PlainTurns
  <2>10. Grows(b, World)
    BY GrowsSame, WorldIs
  <2>. QED
    BY <1>1, <2>5, <2>7, <2>8, <2>9, <2>10, DoneFares
<1>13. ASSUME NEW w, Only(outs, {Ok(w)}), Grows(b, w), w.config = config, runtime = "host" \/ w.local[i] # Absent
       PROVE  Fares
  <2>1. out \in {Ok(w)} /\ Becomes(out.world)
    BY <1>11, <1>13, CalmAnswer
  <2>2. out.res = "ok" /\ out.world = w
    BY <2>1 DEF Ok, Outcome
  <2>3. config' = config /\ local' = w.local
    BY <1>13, <2>1, <2>2 DEF Becomes
  <2>4. i \in BaseImage => Stocks(i)
    BY <1>13, <2>3, <1>9 DEF Stocks
  <2>5. wrong => Range(Tail(o.imgs)) = {}
    BY <1>11, <2>2 DEF Undisturbed
  <2>6. CASE Len(o.imgs) = 1
    <3>1. \A j \in Gives(o) : Stocks(j)
      BY <1>5, <1>7, <2>4, <2>6
    <3>2. todo' = [todo EXCEPT ![b] = Tail(@)] /\ UNCHANGED <<err, exited>>
      BY <1>11, <2>2, <2>6 DEF Goes
    <3>3. Turns(o.do, Standing(b), Standing(b)')
      BY <1>1, <1>10, <2>3, PlainTurns
    <3>. QED
      BY <1>1, <1>13, <2>1, <2>2, <2>3, <3>1, <3>2, <3>3, DoneFares
  <2>7. CASE Len(o.imgs) # 1
    <3>1. Instead(b, <<x>>)
      BY <1>5, <1>11, <2>2, <2>5, <2>7
    <3>2. x.do = "pull" /\ x.fail = o.fail /\ x.imgs = Tail(o.imgs)
      BY <1>1, <1>2 DEF x, PullOps
    <3>3. Sane(x, Current(b), c, runtime)
      BY <1>1, <1>5, <1>7, <3>2 DEF Sane, Copies
    <3>4. \A j \in Gives(o) : Stocks(j) \/ j \in Gives(x)
      BY <1>5, <1>7, <2>4, <3>2 DEF Gives
    <3>5. Serves(<<x>>, b)
      BY <3>2, <3>3, <3>4, ServesOne
    <3>6. Tail(o.imgs) # <<>>
      <4>1. Len(<<>>) = 0 /\ Len(Tail(o.imgs)) # 0
        BY <1>4, <2>7
      <4>. QED
        BY ONLY <4>1
    <3>7. x \in PullOps
      BY <1>2, <1>4, <3>6 DEF PullOps, x
    <3>8. x \in S /\ Tail(todo[b]) \in Seq(S)
      BY <3>7, <1>1, PullOpsIn, HeadOp DEF Steady, Typed
    <3>. HIDE DEF S, o
    <3>9. <<x>> \in Seq(S)
      BY ONLY <3>8
    <3>. QED
      BY <1>1, <1>13, <2>1, <2>2, <2>3, <3>1, <3>5, <3>8, <3>9, InsteadFares DEF o
  <2>. QED
    BY <2>6, <2>7
<1>. QED
  BY <1>6, <1>8, <1>12, <1>13, PlatformOnly

\* The platforms asked for, and the operation's own fields.
LEMMA EnsureHead ==
  ASSUME Steady, NEW b \in Builds, todo[b] # <<>>, Op0(b).do = "ensure"
  PROVE  LET o == Op0(b)
             S == StepOps(Current(b), job[b].cfg)
         IN  /\ o.img \in Image /\ o.fail = "exit" /\ o.plats = GetPlatforms(job[b].cfg) /\ o.left \in Seq(Platform)
             /\ (job[b].cfg.host = "linux" => o.left \in Seq({Host}))
             /\ Gives(o) = {o.img} /\ Sane(o, Current(b), job[b].cfg, runtime)
             /\ IF o.asked THEN o.left = o.plats \/ o.missed \/ Available(o.img) ELSE ~o.missed
             /\ Tail(todo[b]) \in Seq(S) /\ \E X, body : o \in EnsureOps(X, body)
<1>1. Sane(Op0(b), Current(b), job[b].cfg, runtime)
  BY HeadFits
<1>2. 1 \in 1..Len(todo[b]) /\ Op0(b) = todo[b][1] /\ Tail(todo[b]) \in Seq(StepOps(Current(b), job[b].cfg))
  BY HeadOp DEF Steady, Typed
<1>3. AskedAt(b)
  BY DEF Steady, Fine, FineAt
<1>4. IF Op0(b).asked THEN Op0(b).left = Op0(b).plats \/ Op0(b).missed \/ Available(Op0(b).img) ELSE ~Op0(b).missed
  BY <1>2, <1>3 DEF AskedAt
<1>5. Op0(b).img \in Image /\ Op0(b).left \in Seq(Platform)
  BY EnsureReplaced DEF Steady, Typed
<1>6. \E X, body : Op0(b) \in EnsureOps(X, body)
  <2>1. Op0(b) \in StepOps(Current(b), job[b].cfg)
    BY HeadOp DEF Steady, Typed
  <2>2. AppTag(job[b].cfg) \in Image /\ AppTag(job[b].cfg) \notin ToolImage
    BY StepCfg DEF Steady, Typed
  <2>. QED
    BY <2>1, <2>2, EnsureOpsIn
<1>7. Op0(b).fail = "exit"
  BY <1>6 DEF EnsureOps
<1>. QED
  BY <1>1, <1>2, <1>4, <1>5, <1>6, <1>7 DEF Gives, Sane

\* Another form of the question for the image.
LEMMA AskedFares ==
  ASSUME Steady, Undisturbed, NEW b \in Builds, todo[b] # <<>>, Op0(b).do = "ensure",
         NEW w, Grows(b, w), Becomes(w), w.config = config, UNCHANGED <<place, ctr>>,
         NEW x, Instead(b, <<x>>), Replaces(<<x>>, Op0(b), StepOps(Current(b), job[b].cfg)),
         x.do = "ensure", x.img = Op0(b).img, x.plats = Op0(b).plats, x.asked,
         x.left \in Seq({Host}) \/ job[b].cfg.host # "linux",
         x.left = x.plats \/ x.missed \/ Stocks(x.img)
  PROVE  Fares
<1>1. Sane(x, Current(b), job[b].cfg, runtime)
  BY EnsureHead DEF Sane, Copies
<1>2. \A i \in Gives(Op0(b)) : i \in Gives(x)
  BY DEF Gives
<1>3. x.img \in Image /\ Tail(todo[b]) \in Seq(StepOps(Current(b), job[b].cfg))
  BY EnsureHead
<1>4. Serves(<<x>>, b)
  BY <1>1, <1>2, <1>3, ServesOne
<1>5. <<x>> \in Seq(StepOps(Current(b), job[b].cfg))
  BY DEF Replaces
<1>6. config' = config
  BY DEF Becomes
<1>. QED
  BY <1>3, <1>4, <1>5, <1>6, InsteadFares

\* The image is there after all.
LEMMA FoundFares ==
  ASSUME Steady, Undisturbed, NEW b \in Builds, todo[b] # <<>>, Op0(b).do = "ensure",
         NEW w, Grows(b, w), Becomes(w), w.config = config, UNCHANGED <<place, ctr>>, Goes(b), Stocks(Op0(b).img)
  PROVE  Fares
<1>1. \A i \in Gives(Op0(b)) : Stocks(i)
  BY DEF Gives
<1>2. runtime' = runtime /\ config' = config
  BY DEF place, Becomes
<1>3. Turns(Op0(b).do, Standing(b), Standing(b)')
  BY <1>2, PlainTurns
<1>. QED
  BY <1>1, <1>2, <1>3, DoneFares DEF Goes

LEMMA AskFares ==
  ASSUME Steady, Undisturbed, NEW b \in Builds, AskExists(b)
  PROVE  Fares
<1>. DEFINE o == Op0(b)
            x == [o EXCEPT !.asked = TRUE, !.left = o.plats]
<1>1. todo[b] # <<>> /\ o.do = "ensure" /\ ~o.asked /\ UNCHANGED <<ctr, disk, place, history>>
  BY DEF AskExists, At
<1>2. PICK out \in Call(World, World) :
        /\ Answered(out)
        /\ IF out.res # "ok" THEN FailsAs(b, out)
           ELSE IF ImageExists(o.img, o.plats) THEN Goes(b) ELSE Instead(b, <<x>>)
  BY DEF AskExists
<1>3. out \in {Ok(World)} /\ Becomes(out.world)
  BY <1>2, CallOnly, CalmAnswer
<1>4. out.res = "ok" /\ out.world = World
  BY <1>3 DEF Ok, Outcome
<1>5. Grows(b, World) /\ Becomes(World) /\ World.config = config /\ local' = local
  BY <1>3, <1>4, GrowsSame, WorldIs DEF Becomes
<1>6. o.plats = GetPlatforms(job[b].cfg)
  BY <1>1, EnsureHead
<1>7. CASE ImageExists(o.img, o.plats)
  <2>1. runtime = "podman" /\ Present(World, o.img)
    <3>1. o.img \in Answers(D!ListImage(World, o.img), P!ListImage(World, o.img), H!ListImage)
      BY <1>7 DEF ImageExists
    <3>2. D!ListImage(World, o.img) = {} /\ H!ListImage = {}
      BY DEF D!ListImage, H!ListImage
    <3>3. o.img \in P!ListImage(World, o.img) => Present(World, o.img)
      BY DEF P!ListImage, P!Present, Present, P!Absent, Absent, P!None, None
    <3>4. TypeOK
      BY DEF Steady, Typed
    <3>. QED
      BY ONLY <3>1, <3>2, <3>3, <3>4, RuntimeCases
  <2>2. Host \in Range(o.plats)
    <3>1. GetPlatforms(job[b].cfg)[1] = Host /\ 1 \in DOMAIN GetPlatforms(job[b].cfg)
      BY DEF GetPlatforms
    <3>. QED
      BY <1>6, <3>1 DEF Range
  <2>3. local[o.img].plat = Host
    BY <1>7, <2>2 DEF ImageExists
  <2>4. Stocks(o.img)
    BY <1>5, <2>1, <2>3 DEF Stocks, Present, World
  <2>. QED
    BY <1>1, <1>2, <1>4, <1>5, <1>7, <2>4, FoundFares
<1>8. CASE ~ImageExists(o.img, o.plats)
  <2>1. Instead(b, <<x>>)
    BY <1>2, <1>4, <1>8
  <2>2. Replaces(<<x>>, o, StepOps(Current(b), job[b].cfg))
    BY <1>1, EnsureReplaced DEF Steady, Typed
  <2>3. x.do = "ensure" /\ x.img = o.img /\ x.plats = o.plats /\ x.asked /\ x.left = x.plats
    BY <1>1, EnsureHead DEF EnsureOps
  <2>4. x.left \in Seq({Host}) \/ job[b].cfg.host # "linux"
    BY <2>3, <1>6 DEF GetPlatforms
  <2>. HIDE DEF x
  <2>. QED
    BY <1>1, <1>5, <2>1, <2>2, <2>3, <2>4, AskedFares
<1>. QED
  BY <1>7, <1>8

LEMMA TryFares ==
  ASSUME Steady, Undisturbed, NEW b \in Builds, TryPull(b)
  PROVE  Fares
<1>. DEFINE o == Op0(b)
            p == Head(o.left)
            outs == PullByPlatform(b, o.img, p)
            x(m) == [o EXCEPT !.left = Tail(@), !.missed = @ \/ m]
<1>1. todo[b] # <<>> /\ o.do = "ensure" /\ o.asked /\ o.left # <<>> /\ UNCHANGED <<ctr, disk, place, history>>
  BY DEF TryPull, At
<1>2. PICK out \in outs : Answered(out) /\ Instead(b, <<x(out.res # "ok")>>)
  BY DEF TryPull
<1>3. /\ o.img \in Image /\ o.left \in Seq(Platform) /\ (job[b].cfg.host = "linux" => o.left \in Seq({Host}))
      /\ o.left = o.plats \/ o.missed \/ Available(o.img)
      /\ \E X, body : o \in EnsureOps(X, body)
      /\ o.plats = GetPlatforms(job[b].cfg)
  BY <1>1, EnsureHead
<1>4. p \in Platform /\ (job[b].cfg.host = "linux" => p = Host /\ Tail(o.left) \in Seq({Host}))
  <2>1. p \in Platform
    BY <1>1, <1>3, TailRest
  <2>2. job[b].cfg.host = "linux" => p \in {Host} /\ Tail(o.left) \in Seq({Host})
    BY <1>1, <1>3, TailRest
  <2>. QED
    BY <2>1, <2>2
<1>5. p = Host \/ o.missed \/ Available(o.img)
  <2>1. o.left = o.plats => p = Host
    BY <1>3 DEF GetPlatforms
  <2>. QED
    BY <2>1, <1>3
<1>6. \A m \in BOOLEAN : Replaces(<<x(m)>>, o, StepOps(Current(b), job[b].cfg))
  BY <1>1, EnsureReplaced DEF Steady, Typed
<1>7. \A m \in BOOLEAN :
        /\ x(m).do = "ensure" /\ x(m).img = o.img /\ x(m).plats = o.plats /\ x(m).asked
        /\ x(m).left = Tail(o.left) /\ (x(m).missed <=> o.missed \/ m)
  BY <1>1, <1>3 DEF EnsureOps
<1>. DEFINE m == out.res # "ok"
<1>8. m \in BOOLEAN /\ Instead(b, <<x(m)>>)
  BY <1>2
<1>. HIDE DEF x, outs
<1>9. CASE Only(outs, {Refused(World)})
  <2>1. out \in {Refused(World)} /\ Becomes(out.world)
    BY <1>2, <1>9, CalmAnswer
  <2>2. out.res = "error" /\ out.world = World
    BY <2>1 DEF Refused, Outcome
  <2>3. Grows(b, World) /\ Becomes(World) /\ World.config = config
    BY <2>1, <2>2, GrowsSame, WorldIs
  <2>4. x(m).missed
    BY <1>7, <1>8, <2>2
  <2>. HIDE DEF m
  <2>. QED
    BY <1>1, <1>4, <1>6, <1>7, <1>8, <2>3, <2>4, AskedFares
<1>10. ASSUME NEW w, Only(outs, {Ok(w)}), Grows(b, w), w.config = config,
              runtime = "host" \/ (w.local[o.img] # Absent /\ (p = Host => w.local[o.img].plat = Host))
       PROVE  Fares
  <2>1. out \in {Ok(w)} /\ Becomes(out.world)
    BY <1>2, <1>10, CalmAnswer
  <2>2. out.res = "ok" /\ out.world = w
    BY <2>1 DEF Ok, Outcome
  <2>3. x(m).missed \/ Stocks(x(m).img)
    <3>1. o.missed \/ Stocks(o.img)
      BY <1>5, <1>10, <2>1, <2>2 DEF Stocks, Becomes
    <3>. QED
      BY <3>1, <1>7, <1>8
  <2>. HIDE DEF m
  <2>. QED
    BY <1>1, <1>4, <1>6, <1>7, <1>8, <1>10, <2>1, <2>2, <2>3, AskedFares
<1>11. \/ \E w : /\ Only(outs, {Ok(w)}) /\ Grows(b, w) /\ w.config = config
                 /\ runtime = "host" \/ (w.local[o.img] # Absent /\ (p = Host => w.local[o.img].plat = Host))
       \/ Only(outs, {Refused(World)})
  BY <1>3, <1>4, PlatformOnly DEF outs
<1>. QED
  BY <1>9, <1>10, <1>11

\* The image is built, tagged and pushed.
LEMMA ServesBuilt ==
  ASSUME Steady, NEW b \in Builds, todo[b] # <<>>, Op0(b).do = "ensure", job[b].cfg.host = "linux"
  PROVE  Serves(BuildAndPush(Op0(b)), b)
<1>. DEFINE o == Op0(b)
            x == [do |-> "build", fail |-> "exit", img |-> o.img, body |-> o.body]
            y == [do |-> "tag", fail |-> "exit", src |-> o.img, img |-> o.img]
            z == [do |-> "push", fail |-> "exit", img |-> o.img]
            s == <<x>>
            t == <<y, z>>
            ops == s \o t
            S == {x, y, z}
<1>1. BuildAndPush(o) = ops
  BY DEF BuildAndPush, PushImage
<1>2. /\ x.do = "build" /\ x.img = o.img /\ y.do = "tag" /\ y.img = o.img /\ y.src = o.img
      /\ z.do = "push" /\ z.img = o.img
  OBVIOUS
<1>3. x \in S /\ y \in S /\ z \in S
  OBVIOUS
<1>4. Gives(o) = {o.img}
  BY DEF Gives
<1>. HIDE DEF x, y, z, o, S
<1>5. ops \in Seq(S) /\ Len(ops) = 3 /\ ops[1] = x /\ ops[2] = y /\ ops[3] = z
  <2>1. s \in Seq(S) /\ Len(s) = 1 /\ s[1] = x /\ t \in Seq(S) /\ Len(t) = 2 /\ t[1] = y /\ t[2] = z
    BY <1>3
  <2>. HIDE DEF s, t
  <2>2. ops \in Seq(S) /\ Joined(s, t, ops)
    BY <2>1, JoinedConcat
  <2>. HIDE DEF ops
  <2>3. 1 \in 1..Len(s) /\ 1 \in 1..Len(t) /\ 2 \in 1..Len(t) /\ 1 + Len(s) = 2 /\ 2 + Len(s) = 3
    BY <2>1
  <2>. QED
    BY <2>1, <2>2, <2>3 DEF Joined
<1>6. \A k \in 1..Len(ops) : k \in {1, 2, 3}
  BY <1>5
<1>. HIDE DEF ops
<1>7. Gives(x) = {o.img} /\ Needs(x) = {} /\ Needs(y) = {o.img} /\ Needs(z) = {o.img}
  BY <1>2 DEF Gives, Needs
<1>8. \A k \in {2, 3, 4} : Coming(ops, k, o.img)
  <2>1. \A k \in {2, 3, 4} : 1 \in 1..(k - 1)
    OBVIOUS
  <2>. QED
    BY <1>5, <1>7, <2>1 DEF Coming
<1>9. /\ Sane(x, Current(b), job[b].cfg, runtime) /\ Sane(y, Current(b), job[b].cfg, runtime)
      /\ Sane(z, Current(b), job[b].cfg, runtime)
  BY <1>2 DEF Sane, Copies
<1>10. \A k \in 1..Len(ops) : LET q == ops[k] IN
       /\ q.do \in {"build", "tag", "push"}
       /\ Sane(q, Current(b), job[b].cfg, runtime)
       /\ \A i \in Needs(q) : Coming(ops, k, i)
  BY <1>2, <1>5, <1>6, <1>7, <1>8, <1>9
<1>11. \A k \in 1..Len(ops) : LET q == ops[k] IN
       /\ q.do = "build" => \E l \in (k + 1)..Len(ops) : ops[l].do = "push" /\ ops[l].img = q.img
       /\ q.do = "push" =>
            /\ \A j \in 1..(k - 1) : ops[j].do \in {"build", "tag"}
            /\ k > 1 /\ ops[1].do = "build" /\ ops[1].img = q.img
  <2>. SUFFICES ASSUME NEW k \in 1..Len(ops)
       PROVE  /\ ops[k].do = "build" => \E l \in (k + 1)..Len(ops) : ops[l].do = "push" /\ ops[l].img = ops[k].img
              /\ ops[k].do = "push" =>
                   /\ \A j \in 1..(k - 1) : ops[j].do \in {"build", "tag"}
                   /\ k > 1 /\ ops[1].do = "build" /\ ops[1].img = ops[k].img
    OBVIOUS
  <2>1. ops[k].do = "build" => k = 1
    BY <1>2, <1>5, <1>6
  <2>2. ops[k].do = "push" => k = 3
    BY <1>2, <1>5, <1>6
  <2>3. 3 \in (1 + 1)..Len(ops)
    BY <1>5
  <2>4. \A j \in 1..(3 - 1) : j \in {1, 2}
    OBVIOUS
  <2>. QED
    BY <2>1, <2>2, <2>3, <2>4, <1>2, <1>5
<1>12. Len(ops) \in Nat /\ Len(ops) + 1 = 4
  BY <1>5
<1>13. Serves(ops, b)
  BY <1>4, <1>8, <1>10, <1>11, <1>12 DEF Serves, o
<1>. QED
  BY <1>1, <1>13 DEF o

LEMMA DecideFares ==
  ASSUME Steady, Undisturbed, NEW b \in Builds, DecideBuild(b)
  PROVE  Fares
<1>. DEFINE o == Op0(b)
            S == StepOps(Current(b), job[b].cfg)
            outs == PullByPlatform(b, o.img, Host)
            x == [do |-> "buildMulti", fail |-> "exit", img |-> o.img, body |-> o.body]
<1>1. todo[b] # <<>> /\ o.do = "ensure" /\ o.asked /\ o.left = <<>> /\ UNCHANGED <<ctr, disk, place, history>>
  BY DEF DecideBuild, At
<1>2. /\ o.img \in Image /\ o.plats = GetPlatforms(job[b].cfg)
      /\ o.left = o.plats \/ o.missed \/ Available(o.img)
      /\ Tail(todo[b]) \in Seq(S)
  BY <1>1, EnsureHead
<1>3. o.plats # <<>> /\ (Len(o.plats) = 1 => job[b].cfg.host = "linux")
  BY <1>2 DEF GetPlatforms
<1>4. BuildAndPush(o) \in Seq(S) /\ BuildMulti(o) \in Seq(S) /\ BuildMulti(o) = <<x>>
  BY <1>1, EnsureReplaced DEF Steady, Typed, Replaces, BuildMulti
<1>5. Grows(b, World) /\ World.config = config
  BY GrowsSame, WorldIs
<1>6. ASSUME UNCHANGED images  PROVE Becomes(World) /\ config' = config /\ local' = local
  BY <1>6 DEF images, Becomes, World
<1>7. CASE ~o.missed /\ Goes(b) /\ UNCHANGED images
  <2>1. Stocks(o.img)
    BY <1>1, <1>2, <1>3, <1>6, <1>7 DEF Stocks, Available, Present, World
  <2>. QED
    BY <1>1, <1>5, <1>6, <1>7, <2>1, FoundFares
<1>8. CASE Len(o.plats) = 1 /\ Instead(b, BuildAndPush(o)) /\ UNCHANGED images
  <2>1. Serves(BuildAndPush(o), b)
    BY <1>1, <1>3, <1>8, ServesBuilt
  <2>. QED
    BY <1>1, <1>2, <1>4, <1>5, <1>6, <1>8, <2>1, InsteadFares
<1>9. CASE \E out \in outs : Answered(out) /\ IF out.res = "ok" THEN Goes(b) ELSE Instead(b, BuildMulti(o))
  <2>1. PICK out \in outs : Answered(out) /\ IF out.res = "ok" THEN Goes(b) ELSE Instead(b, BuildMulti(o))
    BY <1>9
  <2>2. Host \in Platform
    BY DEF Platform
  <2>3. \/ \E w : /\ Only(outs, {Ok(w)}) /\ Grows(b, w) /\ w.config = config
                  /\ runtime = "host" \/ (w.local[o.img] # Absent /\ w.local[o.img].plat = Host)
        \/ Only(outs, {Refused(World)})
    BY <1>2, <2>2, PlatformOnly
  <2>. HIDE DEF outs
  <2>4. CASE Only(outs, {Refused(World)})
    <3>1. out \in {Refused(World)} /\ Becomes(out.world)
      BY <2>1, <2>4, CalmAnswer
    <3>2. out.res = "error" /\ out.world = World
      BY <3>1 DEF Refused, Outcome
    <3>3. x.do = "buildMulti" /\ Gives(x) = {o.img} /\ Gives(o) = {o.img}
      BY <1>1 DEF Gives
    <3>4. Sane(x, Current(b), job[b].cfg, runtime)
      BY <3>3 DEF Sane, Copies
    <3>. HIDE DEF x
    <3>5. Serves(<<x>>, b)
      BY <3>3, <3>4, ServesOne
    <3>6. Becomes(World) /\ config' = config
      BY <3>1, <3>2 DEF Becomes, World
    <3>7. Instead(b, <<x>>) /\ <<x>> \in Seq(S)
      BY <1>4, <2>1, <3>2
    <3>. QED
      BY <1>1, <1>2, <1>5, <3>5, <3>6, <3>7, InsteadFares
  <2>5. ASSUME NEW w, Only(outs, {Ok(w)}), Grows(b, w), w.config = config,
               runtime = "host" \/ (w.local[o.img] # Absent /\ w.local[o.img].plat = Host)
        PROVE  Fares
    <3>1. out \in {Ok(w)} /\ Becomes(out.world)
      BY <2>1, <2>5, CalmAnswer
    <3>2. out.res = "ok" /\ out.world = w
      BY <3>1 DEF Ok, Outcome
    <3>3. Stocks(o.img)
      BY <2>5, <3>1, <3>2 DEF Stocks, Becomes
    <3>. QED
      BY <1>1, <2>1, <2>5, <3>1, <3>2, <3>3, FoundFares
  <2>. QED
    BY <2>3, <2>4, <2>5
<1>. QED
  BY <1>7, <1>8, <1>9 DEF DecideBuild

\* Every operation finds what it needs.
LEMMA EveryFares ==
  ASSUME Steady, Undisturbed, NEW b \in Builds, Act(b)
  PROVE  Fares
<1>1. CASE ImageOp(b)
  BY <1>1, PullFares, AskFares, TryFares, DecideFares, BuildFares, MultiFares, TagFares, PushFares, InspectFares DEF ImageOp
<1>2. CASE ContainerOp(b)
  BY <1>2, CreateFares, StartFares, WaitFares, StopFares, ExecFares, PutFares, CopyFares, CommitFares DEF ContainerOp
<1>3. CASE Prepare(b) \/ RefuseStep(b) \/ PassMark(b)
  BY <1>3, PlainFares
<1>4. CASE ConfigOp(b)
  BY <1>4, ConfigFares
<1>. QED
  BY <1>1, <1>2, <1>3, <1>4 DEF Act

-----------------------------------------------------------------------------
(* The explanation is kept.                                                *)

\* On the host the folder src stays.
StaysOnHost(outs) == runtime = "host" /\ workdir = TRUE => \A out \in outs : out.world.workdir = TRUE
\* Calls that have failed and images that were passed over are not forgotten.
Remembers ==
  /\ faults' \in {faults, faults + 1, faults + 2} /\ skipped \subseteq skipped'
  /\ runtime = "host" /\ workdir = TRUE => workdir' = TRUE

LEMMA HostStays ==
  ASSUME TypeOK
  PROVE  /\ \A d : (runtime = "host" /\ workdir = TRUE => d.workdir = TRUE) => StaysOnHost(Call(d, World)) /\ StaysOnHost({Ok(d)})
         /\ StaysOnHost({Refused(World)})
         /\ \A x, y : /\ StaysOnHost(Answers(x, y, H!PullImage(World)))
                      /\ StaysOnHost(Answers(x, y, H!CreateContainer(World)))
                      /\ StaysOnHost(Answers(x, y, H!BuildImage(World)))
                      /\ StaysOnHost(Answers(x, y, H!BuildMultiArchImage(World)))
                      /\ StaysOnHost(Answers(x, y, H!TagImage(World)))
                      /\ StaysOnHost(Answers(x, y, H!PushImage(World)))
                      /\ StaysOnHost(Answers(x, y, H!InspectImage(World)))
                      /\ \A m \in BOOLEAN : StaysOnHost(Answers(x, y, H!StartContainer(World, m)))
                      /\ StaysOnHost(Answers(x, y, H!StopContainer(World)))
                      /\ StaysOnHost(Answers(x, y, H!CommitContainer(World)))
                      /\ \A s : StaysOnHost(Answers(x, y, H!CopyContentToContainer(World, s)))
                      /\ StaysOnHost(Answers(x, y, H!CopyToContainer(World)))
                      /\ StaysOnHost(Answers(x, y, H!CopyDirectorToContainer(World)))
                      /\ StaysOnHost(Answers(x, y, H!ExecContainer(World)))
                      /\ StaysOnHost(Answers(x, y, H!WaitContainer(World)))
<1>1. \A x, y, z : runtime = "host" => Answers(x, y, z) = z
  BY RuntimeCases
<1>2. \A res, f, w : Outcome(res, f, w).world = w
  BY DEF Outcome
<1>3. workdir = TRUE => World.workdir = TRUE
  BY DEF World
<1>6. \A res, f : StaysOnHost({Outcome(res, f, World)})
  <2>. SUFFICES ASSUME NEW res, NEW f, workdir = TRUE, NEW out \in {Outcome(res, f, World)}
       PROVE  out.world.workdir = TRUE
    BY DEF StaysOnHost
  <2>1. out.world = World
    BY <1>2
  <2>. QED
    BY ONLY <2>1, <1>3, workdir = TRUE
<1>4. \A d : (runtime = "host" /\ workdir = TRUE => d.workdir = TRUE) => StaysOnHost(Call(d, World)) /\ StaysOnHost({Ok(d)})
  <2>. SUFFICES ASSUME NEW d, runtime = "host", workdir = TRUE, d.workdir = TRUE
       PROVE  \A out \in {Ok(d), Broken(World)} : out.world.workdir = TRUE
    BY DEF StaysOnHost, Call
  <2>1. \A out \in {Ok(d), Broken(World)} : out.world \in {d, World}
    BY DEF Ok, Broken, Outcome
  <2>2. d.workdir = TRUE /\ World.workdir = TRUE
    BY <1>3
  <2>3. \A w \in {d, World} : w.workdir = TRUE
    BY ONLY <2>2
  <2>. QED
    BY ONLY <2>1, <2>3
<1>5. StaysOnHost({Refused(World)}) /\ StaysOnHost({Dies(World)})
  BY <1>6 DEF StaysOnHost, Refused, Dies
<1>7. \A x, y, z : (runtime = "host" /\ workdir = TRUE => \A out \in z : out.world.workdir = TRUE) => StaysOnHost(Answers(x, y, z))
  BY <1>1 DEF StaysOnHost
<1>8. StaysOnHost(Call(World, World)) /\ StaysOnHost({Ok(World)})
  BY <1>3, <1>4
<1>9. /\ StaysOnHost(H!PullImage(World)) /\ StaysOnHost(H!BuildImage(World)) /\ StaysOnHost(H!TagImage(World))
      /\ StaysOnHost(H!PushImage(World)) /\ StaysOnHost(H!InspectImage(World)) /\ StaysOnHost(H!StopContainer(World))
      /\ StaysOnHost(H!CommitContainer(World)) /\ StaysOnHost(H!CopyToContainer(World))
      /\ StaysOnHost(H!CopyDirectorToContainer(World)) /\ StaysOnHost(H!ExecContainer(World))
  BY <1>8 DEF H!PullImage, H!BuildImage, H!TagImage, H!PushImage, H!InspectImage, H!StopContainer,
              H!CommitContainer, H!CopyToContainer, H!CopyDirectorToContainer, H!ExecContainer, H!Ok, H!Outcome, Ok, Outcome
<1>10. StaysOnHost(H!CreateContainer(World)) /\ StaysOnHost(H!BuildMultiArchImage(World))
  BY <1>5, <1>8 DEF H!CreateContainer, H!BuildMultiArchImage, H!Call, H!Dies, H!Ok, H!Broken, H!Outcome,
                    Call, Dies, Ok, Broken, Outcome
<1>11. \A s : StaysOnHost(H!CopyContentToContainer(World, s))
  <2>1. StaysOnHost(Call(World, World) \cup {Dies(World)})
    BY <1>5, <1>8 DEF StaysOnHost
  <2>2. \A s : H!CopyContentToContainer(World, s) \in {Call(World, World) \cup {Dies(World)}, {Outcome("exit", FALSE, World)}}
    BY DEF H!CopyContentToContainer, H!Call, H!Ok, H!Broken, H!Dies, H!Outcome, Call, Ok, Broken, Dies, Outcome
  <2>. QED
    BY <1>6, <2>1, <2>2
<1>12. StaysOnHost(H!WaitContainer(World))
  BY <1>6, <1>8 DEF StaysOnHost, H!WaitContainer, H!Call, H!Ok, H!Broken, H!Outcome, Call, Ok, Broken, Outcome
<1>13. \A m \in BOOLEAN : StaysOnHost(H!StartContainer(World, m))
  <2>. SUFFICES ASSUME NEW m \in BOOLEAN  PROVE StaysOnHost(H!StartContainer(World, m))
    OBVIOUS
  <2>1. workdir = TRUE => [World EXCEPT !.workdir = @ \/ m].workdir = TRUE
    BY DEF World
  <2>. DEFINE made == [World EXCEPT !.workdir = @ \/ m]
  <2>2. StaysOnHost({Ok(made), Broken(made), Dies(World)})
    <3>. HIDE DEF made
    <3>1. \A out \in {Ok(made), Broken(made), Dies(World)} : out.world \in {made, World}
      BY DEF Ok, Broken, Dies, Outcome
    <3>2. workdir = TRUE => made.workdir = TRUE
      BY <2>1 DEF made
    <3>. QED
      BY <1>3, <3>1, <3>2 DEF StaysOnHost
  <2>3. StaysOnHost(Call(World, World)) /\ StaysOnHost({Outcome("exit", FALSE, World)})
    BY <1>6, <1>8
  <2>4. H!StartContainer(World, m) \in
          {Call(World, World), {Outcome("exit", FALSE, World)}, {Ok(made), Broken(made), Dies(World)}}
    BY DEF H!StartContainer, H!Call, H!Ok, H!Broken, H!Dies, H!Outcome, Call, Ok, Broken, Dies, Outcome
  <2>. HIDE DEF made
  <2>. QED
    BY <2>2, <2>3, <2>4
<1>14. \A z : StaysOnHost(z) => \A x, y : StaysOnHost(Answers(x, y, z))
  BY <1>7 DEF StaysOnHost
<1>. QED
  BY <1>4, <1>5, <1>9, <1>10, <1>11, <1>12, <1>13, <1>14

LEMMA AnswerRemembers ==
  ASSUME TypeOK, NEW outs, StaysOnHost(outs), NEW out \in outs, Answered(out), skipped \subseteq skipped'
  PROVE  Remembers
BY DEF StaysOnHost, Answered, Becomes, Remembers

LEMMA CallRemembers ==
  ASSUME TypeOK, NEW b, NEW kind, NEW outs, NEW x, StaysOnHost(outs), Calls(b, kind, outs, x)
  PROVE  Remembers
BY AnswerRemembers DEF Calls, history

\* No operation forgets.
LEMMA ImageRemembers ==
  ASSUME TypeOK, NEW b \in Builds, ImageOp(b)
  PROVE  Remembers
<1>. DEFINE o == Op0(b)
<1>1. StaysOnHost(Call(World, World)) /\ \A i, p : StaysOnHost(Pulled(b, i, p))
  BY HostStays DEF Pulled, World
<1>2. \A i, p : StaysOnHost(PullByPlatform(b, i, p))
  BY <1>1 DEF PullByPlatform
<1>3. CASE EnsureImagesExists(b)
  <2>. DEFINE i == Head(o.imgs)
              listed == Present(World, i) /\ runtime # "host"
              wrong == listed /\ local[i].plat # Host
              outs == IF listed /\ ~wrong THEN Call(World, World) ELSE Pulled(b, i, Host)
  <2>1. StaysOnHost(outs)
    BY <1>1
  <2>2. \E out \in outs : Answered(out) /\ skipped \subseteq skipped'
    BY <1>3 DEF EnsureImagesExists
  <2>. HIDE DEF outs
  <2>. QED
    BY <2>1, <2>2, AnswerRemembers
<1>4. CASE AskExists(b)
  BY <1>1, <1>4, AnswerRemembers DEF AskExists, history
<1>5. CASE TryPull(b)
  BY <1>2, <1>5, AnswerRemembers DEF TryPull, history
<1>6. CASE DecideBuild(b)
  <2>1. skipped' = skipped
    BY <1>6 DEF DecideBuild, history
  <2>2. \/ UNCHANGED <<images, faults>>
        \/ \E out \in PullByPlatform(b, o.img, Host) : Answered(out)
    BY <1>6 DEF DecideBuild
  <2>3. ASSUME UNCHANGED <<images, faults>>  PROVE Remembers
    BY <2>1, <2>3 DEF Remembers, images
  <2>. QED
    BY <1>2, <2>1, <2>2, <2>3, AnswerRemembers
<1>7. CASE BuildImage(b)
  BY <1>7, HostStays, CallRemembers DEF BuildImage
<1>8. CASE BuildImageByPlatforms(b)
  BY <1>8, HostStays, CallRemembers DEF BuildImageByPlatforms
<1>9. CASE Tag(b)
  BY <1>9, HostStays, CallRemembers DEF Tag
<1>10. CASE Push(b)
  <2>. DEFINE outs == Answers(D!PushImage(World, o.img, Auth(b)), P!PushImage(World, o.img, Auth(b)), H!PushImage(World))
  <2>1. StaysOnHost(outs)
    BY HostStays
  <2>2. \E out \in outs : Answered(out) /\ skipped' = skipped
    BY <1>10 DEF Push
  <2>. HIDE DEF outs
  <2>. QED
    BY <2>1, <2>2, AnswerRemembers
<1>11. CASE InspectImage(b)
  BY <1>11, HostStays, CallRemembers DEF InspectImage
<1>. QED
  BY <1>3, <1>4, <1>5, <1>6, <1>7, <1>8, <1>9, <1>10, <1>11 DEF ImageOp

LEMMA ContainerRemembers ==
  ASSUME Typed, NEW b \in Builds, ContainerOp(b)
  PROVE  Remembers
<1>0. TypeOK
  BY DEF Typed
<1>1. CASE CreateContainer(b)
  <2>. DEFINE o == Op0(b)
              outs == Answers(D!CreateContainer(World, o.img, o.auto, Auth(b)),
                              P!CreateContainer(World, o.img, o.auto, Auth(b)), H!CreateContainer(World))
  <2>1. StaysOnHost(outs)
    BY <1>0, HostStays
  <2>2. \E out \in outs : Answered(out) /\ skipped' = skipped
    BY <1>1 DEF CreateContainer, history
  <2>. HIDE DEF outs
  <2>. QED
    BY <1>0, <2>1, <2>2, AnswerRemembers
<1>2. CASE StartContainer(b)
  <2>1. Op0(b).mounts \in BOOLEAN
    <3>1. todo[b] # <<>> /\ Op0(b).do = "start"
      BY <1>2 DEF StartContainer, At
    <3>2. Op0(b) \in AnyOps(job[b].cfg)
      BY <3>1, HeadOp DEF Typed
    <3>3. Op0(b) \in StartOps
      BY <3>1, <3>2, KindOf
    <3>. QED
      BY <3>3 DEF StartOps
  <2>. QED
    BY <1>0, <1>2, <2>1, HostStays, CallRemembers DEF StartContainer
<1>3. CASE WaitContainer(b)
  <2>. DEFINE outs == Answers(D!WaitContainer(World), P!WaitContainer(World), H!WaitContainer(World))
  <2>1. StaysOnHost(outs)
    BY <1>0, HostStays
  <2>2. skipped' = skipped
    BY <1>3 DEF WaitContainer, history
  <2>3. (\E out \in outs : Answered(out)) \/ (faults' = faults + 2 /\ UNCHANGED images)
    BY <1>3 DEF WaitContainer
  <2>. HIDE DEF outs
  <2>4. ASSUME faults' = faults + 2, UNCHANGED images  PROVE Remembers
    BY <2>2, <2>4 DEF Remembers, images
  <2>. QED
    BY <1>0, <2>1, <2>2, <2>3, <2>4, AnswerRemembers
<1>4. CASE StopContainer(b)
  BY <1>0, <1>4, HostStays, CallRemembers DEF StopContainer
<1>5. CASE ExecContainer(b)
  BY <1>0, <1>5, HostStays, CallRemembers DEF ExecContainer
<1>6. CASE CopyContentTo(b)
  BY <1>0, <1>6, HostStays, CallRemembers DEF CopyContentTo
<1>7. CASE CopyFileTo(b)
  BY <1>0, <1>7, HostStays, CallRemembers DEF CopyFileTo
<1>8. CASE CopyDirectoryTo(b)
  BY <1>0, <1>8, HostStays, CallRemembers DEF CopyDirectoryTo
<1>9. CASE CommitContainer(b)
  BY <1>0, <1>9, HostStays, CallRemembers DEF CommitContainer
<1>. QED
  BY <1>1, <1>2, <1>3, <1>4, <1>5, <1>6, <1>7, <1>8, <1>9 DEF ContainerOp

LEMMA StepRemembers ==
  ASSUME TypeOK, NEW b \in Builds, Prepare(b) \/ RefuseStep(b) \/ PassMark(b) \/ ConfigOp(b)
  PROVE  Remembers
<1>1. /\ StaysOnHost(Call(World, World)) /\ StaysOnHost({Ok(World)}) /\ StaysOnHost({Refused(World)})
      /\ \A x : /\ StaysOnHost(Call([World EXCEPT !.config = x], World))
                /\ StaysOnHost({Ok([World EXCEPT !.config = x])})
  <2>1. \A x : [World EXCEPT !.config = x].workdir = workdir
    BY DEF World
  <2>2. World.workdir = workdir
    BY DEF World
  <2>. QED
    BY <2>1, <2>2, HostStays
<1>2. CASE Prepare(b) \/ RefuseStep(b) \/ PassMark(b)
  BY <1>1, <1>2, CallRemembers DEF Prepare, RefuseStep, PassMark
<1>3. CASE WriteConfig(b)
  BY <1>1, <1>3, CallRemembers DEF WriteConfig
<1>4. CASE BindConfig(b)
  BY <1>1, <1>4, CallRemembers DEF BindConfig
<1>5. CASE RemoveConfig(b)
  BY <1>1, <1>5, CallRemembers DEF RemoveConfig
<1>. QED
  BY <1>2, <1>3, <1>4, <1>5 DEF ConfigOp

\* What was calm before it went wrong: no step but a new run takes back a cause.
LEMMA CalmBefore ==
  ASSUME Typed, Typed', Remembers, UNCHANGED <<runtime, job>>, \A b \in Builds : pos'[b] \in {pos[b], pos[b] + 1}, Calm'
  PROVE  Calm
<1>1. Builds' = Builds /\ \A b \in Builds : Auth(b)' = Auth(b)
  BY DEF Builds, Auth
<1>2. faults = 0 /\ skipped = {}
  <2>1. faults \in Nat /\ faults' = 0 /\ skipped' = {}
    BY DEF Typed, TypeOK, Calm
  <2>. QED
    BY <2>1 DEF Remembers
<1>3. \A b \in Builds : pos[b] \in Nat /\ \A k \in 1..pos[b] : k \in 1..pos'[b]
  <2>. SUFFICES ASSUME NEW b \in Builds  PROVE pos[b] \in Nat /\ \A k \in 1..pos[b] : k \in 1..pos'[b]
    OBVIOUS
  <2>1. pos[b] \in Nat
    BY ProgramLength
  <2>2. pos'[b] = pos[b] \/ pos'[b] = pos[b] + 1
    OBVIOUS
  <2>. QED
    BY ONLY <2>1, <2>2
<1>4. ASSUME NEW b \in Builds, Alone(b)  PROVE Alone(b)'
  BY <1>3, <1>4 DEF Alone
<1>5. ReleasedTogether => ReleasedTogether'
  BY <1>1, <1>3 DEF ReleasedTogether
<1>6. ASSUME NEW b \in Builds, HostRefuses(b)  PROVE HostRefuses(b)'
  <2>1. CASE workdir
    <3>1. workdir = TRUE
      BY <2>1 DEF Typed, TypeOK
    <3>2. runtime = "host" /\ workdir'
      BY <1>6, <3>1 DEF HostRefuses, Remembers
    <3>. QED
      BY <3>2 DEF HostRefuses
  <2>2. CASE ~workdir
    <3>. DEFINE refused == {"gcloud", "github"} \cup IF job[b].cfg.secrets THEN ScriptStep ELSE {}
    <3>1. PICK k \in 1..pos[b] : job[b].steps[k] \in refused
      BY <1>6, <2>2 DEF HostRefuses
    <3>2. k \in 1..pos'[b] /\ job'[b].steps[k] \in refused /\ runtime' = "host" /\ job' = job
      BY <1>3, <1>6, <3>1 DEF HostRefuses
    <3>. QED
      BY <3>2 DEF HostRefuses
  <2>. QED
    BY <2>1, <2>2
<1>9. ASSUME NEW b \in Builds, Nameless(b)  PROVE Nameless(b)'
  BY <1>3, <1>9 DEF Nameless
<1>7. ASSUME NEW b \in Builds
      PROVE  /\ job[b].cfg.token /\ ~Alone(b) /\ ~HostRefuses(b) /\ ~Nameless(b)
             /\ runtime = "podman" => Auth(b) # "urlsafe" /\ ~job[b].cfg.links
  <2>1. /\ job'[b].cfg.token /\ ~Alone(b)' /\ ~HostRefuses(b)' /\ ~Nameless(b)'
        /\ runtime' = "podman" => Auth(b)' # "urlsafe" /\ ~job'[b].cfg.links
    BY <1>1 DEF Calm
  <2>. QED
    BY <1>1, <1>4, <1>6, <1>9, <2>1
<1>8. ~ReleasedTogether
  BY <1>5 DEF Calm
<1>. QED
  BY <1>2, <1>7, <1>8 DEF Calm

\* Base images stay offered.
LEMMA BaseMove ==
  ASSUME IInv, BaseOffered, NEW b \in Builds, Act(b)
  PROVE  BaseOffered'
<1>1. Typed /\ TypeOK /\ TodoTyped /\ ToolsAreTools /\ Created
  BY DEF IInv, Typed
<1>2. Moves(b)
  BY <1>1, EveryMove
<1>3. todo[b] # <<>> /\ Supplied(job[b].cfg, Op0(b), local', remote')
  BY <1>2 DEF Moves, Common
<1>4. Op0(b).do \in {"push", "buildMulti"} => Op0(b).img \notin BaseImage
  <2>1. Op0(b).do \in {"push", "buildMulti"} => Op0(b).img \in ToolImage \cup {AppTag(job[b].cfg), AppURI(job[b].cfg)}
    BY <1>1, <1>3, HeadTyped
  <2>2. AppTag(job[b].cfg) \notin BaseImage /\ AppURI(job[b].cfg) \notin BaseImage
    BY <1>1, StepCfg
  <2>3. \A i \in BaseImage : i[1] = "base"
    BY DEF BaseImage, Base
  <2>4. \A i \in ToolImage : i[1] = "tool"
    BY DEF ToolImage, Tool
  <2>. QED
    BY <2>1, <2>2, <2>3, <2>4
<1>5. \A i \in BaseImage : remote'[i] = remote[i]
  BY <1>3, <1>4, ImagesInPlay DEF Supplied
<1>. QED
  BY <1>5 DEF BaseOffered

LEMMA OperationExplains ==
  ASSUME IInv, IInv', Explains, NEW b \in Builds, Act(b)
  PROVE  Explains'
<1>1. Typed /\ Typed' /\ ToolsAreTools /\ Compiled /\ TypeOK /\ TodoTyped /\ Created
  BY DEF IInv, Typed
<1>2. BaseOffered'
  BY BaseMove DEF Explains
<1>3. exited = "no" /\ pos' = pos /\ Builds' = Builds /\ UNCHANGED <<runtime, job>>
  BY <1>1, EveryMove, Placed
<1>4. ASSUME Calm'  PROVE Fares /\ Steady
  <2>1. Remembers
    BY <1>1, ImageRemembers, ContainerRemembers, StepRemembers DEF Act
  <2>2. Calm
    BY <1>1, <1>3, <1>4, <2>1, CalmBefore
  <2>3. Steady
    BY <1>1, <1>3, <2>2 DEF Steady, Explains
  <2>4. Undisturbed
    BY <1>1, <1>4 DEF Undisturbed, Calm
  <2>. QED
    BY <2>3, <2>4, EveryFares
<1>5. Calm' => \A c \in Builds' : ~err'[c]
  BY <1>3, <1>4 DEF Fares, Steady
<1>6. exited' \in {"exit", "panic"} => ~Calm' \/ Unpublished'
  BY <1>3, <1>4 DEF Fares
<1>7. Calm' /\ exited' = "no" => Fine'
  BY <1>4 DEF Fares
<1>. QED
  BY <1>2, <1>5, <1>6, <1>7 DEF Explains

\* The next step of b begins: the images stay, and who was about to push is.
LEMMA NextStepStock ==
  ASSUME Typed, Typed', NEW b \in Builds, NextStep(b), ToolsPullable
  PROVE  /\ ToolsPullable' /\ \A i \in Image : Available(i) => Available(i)'
<1>1. /\ UNCHANGED <<runtime, job, local, remote, run>> /\ todo[b] = <<>> /\ Builds' = Builds
      /\ \A c \in Builds : c # b => todo'[c] = todo[c]
  BY DEF NextStep, images, Typed, TypeOK, Builds
<1>2. \A i : PushAhead(i) => PushAhead(i)'
  <2>. SUFFICES ASSUME NEW i, PushAhead(i)  PROVE PushAhead(i)'
    OBVIOUS
  <2>1. PICK c \in Builds : Pushing(todo[c], i)
    BY PushAheadIs
  <2>2. Len(<<>>) = 0
    OBVIOUS
  <2>3. c # b
    BY <1>1, <2>1, <2>2 DEF Pushing
  <2>4. Pushing(todo'[c], i)
    BY <1>1, <2>1, <2>3
  <2>. QED
    BY <1>1, <2>4, PushAheadIs
<1>3. \A i \in ToolImage : Pullable(i) => Pullable(i)'
  BY <1>1, <1>2 DEF Pullable
<1>4. ToolsPullable'
  BY <1>1, <1>3 DEF ToolsPullable
<1>5. \A i \in Image : Available(i) => Available(i)'
  BY <1>1, <1>3 DEF Available, Present, World
<1>. QED
  BY <1>4, <1>5

LEMMA NextStepOthers ==
  ASSUME Typed, Typed', NEW b \in Builds, NextStep(b), Fine, NEW c \in Builds, c # b
  PROVE  FineAt(c)'
<1>1. /\ UNCHANGED <<runtime, job, local, config, run>>
      /\ todo'[c] = todo[c] /\ ctr'[c] = ctr[c] /\ pos'[c] = pos[c] /\ Current(c)' = Current(c)
  BY DEF NextStep, images, Typed, TypeOK, Current
<1>2. \A i \in Image : Available(i) => Available(i)'
  BY NextStepStock DEF Fine
<1>3. FineAt(c)
  BY DEF Fine
<1>4. SaneAt(c)'
  BY <1>1, <1>3 DEF FineAt, SaneAt
<1>5. ForwardAt(c)'
  <2>1. Provided \subseteq Provided'
    BY <1>2 DEF Provided
  <2>2. Standing(c)' = Standing(c)
    BY <1>1 DEF Standing
  <2>3. RunsThrough(todo[c], Provided, Standing(c))
    BY <1>3 DEF FineAt, ForwardAt
  <2>. HIDE DEF Standing, Provided
  <2>4. RunsThrough(todo[c], Provided', Standing(c))
    BY ONLY <2>1, <2>3, OtherRuns
  <2>. QED
    BY <2>2, <2>4, <1>1 DEF ForwardAt
<1>6. AskedAt(c)'
  <2>1. \A k \in 1..Len(todo[c]) : todo[c][k].do = "ensure" => todo[c][k].img \in Image
    BY EnsuredImage
  <2>. QED
    BY <1>1, <1>2, <1>3, <2>1 DEF FineAt, AskedAt
<1>7. ChainedAt(c)'
  BY <1>1, <1>3 DEF FineAt, ChainedAt
<1>8. LeftAt(c)'
  <2>1. LeftAt(c)
    BY <1>3 DEF FineAt
  <2>2. \A k \in 1..pos[c] : \A i \in Leaves(job[c].steps[k]) : i \in Image
    BY KnownImages
  <2>. QED
    BY <1>1, <1>2, <2>1, <2>2 DEF LeftAt
<1>. QED
  BY <1>4, <1>5, <1>6, <1>7, <1>8 DEF FineAt

\* What the step relies on its preparation has left.
LEMMA StepPrepared ==
  ASSUME Typed, Typed', NEW b \in Builds, NextStep(b), Fine, ~Alone(b)'
  PROVE  /\ \A k \in 1..pos[b] : \A i \in Leaves(job[b].steps[k]) : Available(i)'
         /\ \A i \in Prepared(job[b].steps[pos[b] + 1]) : Available(i)'
<1>. DEFINE step == job[b].steps[pos[b] + 1]
<1>1. todo[b] = <<>> /\ job' = job /\ pos'[b] = pos[b] + 1 /\ pos[b] \in Nat
  <2>1. pos[b] \in Nat /\ DOMAIN pos = Builds
    BY ProgramLength DEF Typed, TypeOK
  <2>. QED
    BY <2>1 DEF NextStep
<1>2. \A i \in Image : Available(i) => Available(i)'
  BY NextStepStock DEF Fine
<1>3. ASSUME NEW k \in 1..pos[b], NEW i \in Leaves(job[b].steps[k])  PROVE Available(i)'
  <2>1. Available(i) \/ \E j \in 1..Len(todo[b]) : i \in Gives(todo[b][j])
    BY <1>3 DEF Fine, FineAt, LeftAt
  <2>2. 1..Len(<<>>) = {}
    OBVIOUS
  <2>3. i \in Image
    BY <1>3, KnownImages
  <2>. QED
    BY <1>1, <1>2, <2>1, <2>2, <2>3
<1>4. ASSUME NEW i \in Prepared(step)  PROVE Available(i)'
  <2>1. PICK p \in Preparation : step = p[1] /\ Prepared(step) \subseteq Leaves(p[2])
    <3>1. step \in {"golangci-lint", "golang-prod", "golang-debian-prod", "python-prod", "zig-prod"}
      BY <1>4 DEF Prepared
    <3>2. /\ <<"golangci-lint", "golang">> \in Preparation /\ <<"golang-prod", "golang">> \in Preparation
          /\ <<"golang-debian-prod", "golang-debian">> \in Preparation /\ <<"python-prod", "python">> \in Preparation
          /\ <<"zig-prod", "zig">> \in Preparation
      BY DEF Preparation
    <3>3. /\ Prepared("golangci-lint") \subseteq Leaves("golang") /\ Prepared("golang-prod") \subseteq Leaves("golang")
          /\ Prepared("golang-debian-prod") \subseteq Leaves("golang-debian")
          /\ Prepared("python-prod") \subseteq Leaves("python") /\ Prepared("zig-prod") \subseteq Leaves("zig")
      BY DEF Prepared, Leaves
    <3>. HIDE DEF step
    <3>4. \A x, y : <<x, y>>[1] = x /\ <<x, y>>[2] = y
      OBVIOUS
    <3>. QED
      BY <3>1, <3>2, <3>3, <3>4
  <2>2. PICK j \in 1..pos[b] : job[b].steps[j] = p[2]
    <3>1. pos[b] + 1 \in 1..pos'[b] /\ job'[b].steps[pos[b] + 1] = p[1] /\ (pos[b] + 1) - 1 = pos[b]
      BY <1>1, <2>1
    <3>2. \A k \in 1..pos'[b] : job'[b].steps[k] = p[1] => \E l \in 1..(k - 1) : job'[b].steps[l] = p[2]
      BY <2>1 DEF Alone
    <3>3. \E l \in 1..((pos[b] + 1) - 1) : job'[b].steps[l] = p[2]
      BY ONLY <3>1, <3>2
    <3>. QED
      BY <1>1, <3>1, <3>3
  <2>. QED
    BY <1>3, <1>4, <2>1, <2>2
<1>. QED
  BY <1>3, <1>4

\* The step begins with what it needs.
LEMMA NextStepBegins ==
  ASSUME Typed, Typed', NEW b \in Builds, NextStep(b), Fine, ~Alone(b)'
  PROVE  FineAt(b)'
<1>. DEFINE step == job[b].steps[pos[b] + 1]
            c == job[b].cfg
            t == Program(step, c, runtime)
<1>1. /\ UNCHANGED <<runtime, job>> /\ todo'[b] = t /\ pos'[b] = pos[b] + 1 /\ Current(b)' = step
      /\ pos[b] \in Nat /\ step \in StepName
  <2>1. pos[b] \in Nat /\ DOMAIN pos = Builds /\ DOMAIN todo = Builds
    BY ProgramLength DEF Typed, TypeOK
  <2>2. pos[b] < Len(job[b].steps) /\ Len(job[b].steps) \in Nat /\ job[b].steps \in Seq(StepName)
    BY StepCfg DEF NextStep, Typed
  <2>3. step \in StepName
    BY <2>1, <2>2
  <2>. QED
    BY <2>1, <2>3 DEF NextStep, Current
<1>2. AppURI(c) \notin ToolImage
  BY StepCfg DEF Typed
<1>3. Takes(t, Prepared(step), Nothing, Leaves(step), Nothing, FitOps(step, c, runtime))
  BY <1>1, <1>2, ProgramTakes
<1>4. /\ \A k \in 1..pos[b] : \A i \in Leaves(job[b].steps[k]) : Available(i)'
      /\ \A i \in Prepared(step) : Available(i)'
  BY StepPrepared
<1>5. Prepared(step) \cup Leaves(step) \subseteq Image
  BY KnownImages DEF Prepared, BaseImage, ToolImage
<1>. HIDE DEF t, step
<1>6. Len(t) \in Nat /\ \A k \in 1..Len(t) : t[k] \in FitOps(step, c, runtime)
  BY <1>3 DEF Takes
<1>7. SaneAt(b)'
  BY <1>1, <1>6 DEF SaneAt, FitOps
<1>8. ForwardAt(b)'
  <2>1. Prepared(step) \subseteq Provided'
    BY <1>4, <1>5 DEF Provided
  <2>2. RunsThrough(t, Prepared(step), Nothing)
    BY <1>3 DEF Takes
  <2>3. ~Nothing.made /\ ~Nothing.running /\ ~Nothing.configured
    BY DEF Nothing
  <2>. HIDE DEF Provided, Standing
  <2>4. RunsThrough(t, Provided', Standing(b)')
    BY ONLY <2>1, <2>2, <2>3, OtherRuns
  <2>. QED
    BY <1>1, <2>4 DEF ForwardAt
<1>9. AskedAt(b)' /\ ChainedAt(b)'
  <2>1. \A k \in 1..Len(t) : /\ t[k].do = "ensure" => ~t[k].asked /\ ~t[k].missed
                             /\ t[k].do # "build" /\ (t[k].do = "push" => t[k].img \notin ToolImage)
    BY <1>6 DEF FitOps
  <2>2. AskedAt(b)'
    BY <1>1, <2>1 DEF AskedAt
  <2>3. ChainedAt(b)'
    BY <1>1, <2>1 DEF ChainedAt
  <2>. QED
    BY <2>2, <2>3
<1>10. LeftAt(b)'
  <2>. SUFFICES ASSUME NEW k \in 1..pos'[b], NEW i \in Leaves(job[b].steps[k])
       PROVE  Available(i)' \/ (k = pos'[b] /\ \E j \in 1..Len(t) : i \in Gives(t[j]))
    BY <1>1 DEF LeftAt
  <2>1. CASE k = pos[b] + 1
    <3>1. i \in Prepared(step) \/ Coming(t, Len(t) + 1, i)
      BY <1>3, <2>1 DEF Takes, step
    <3>2. Coming(t, Len(t) + 1, i) => \E j \in 1..Len(t) : i \in Gives(t[j])
      BY <1>6 DEF Coming
    <3>. QED
      BY <1>1, <1>4, <2>1, <3>1, <3>2
  <2>2. CASE k # pos[b] + 1
    <3>1. k \in 1..pos[b]
      BY <1>1, <2>2
    <3>. QED
      BY <1>4, <3>1
  <2>. QED
    BY <2>1, <2>2
<1>. QED
  BY <1>7, <1>8, <1>9, <1>10 DEF FineAt

LEMMA NextStepExplains ==
  ASSUME IInv, IInv', Explains, NEW b \in Builds, NextStep(b)
  PROVE  Explains'
<1>1. Typed /\ Typed' /\ TypeOK
  BY DEF IInv, Typed
<1>2. /\ exited = "no" /\ UNCHANGED <<runtime, job, local, remote, workdir, config, err, exited, faults, skipped>>
      /\ Builds' = Builds
  BY DEF NextStep, images, history, Builds
<1>3. \A c \in Builds : pos'[c] \in {pos[c], pos[c] + 1}
  BY <1>1 DEF NextStep, TypeOK
<1>4. Remembers
  BY <1>2 DEF Remembers
<1>5. ASSUME Calm'  PROVE Fine' /\ \A c \in Builds : ~err[c]
  <2>1. Calm
    BY <1>1, <1>2, <1>3, <1>4, <1>5, CalmBefore
  <2>2. Fine /\ \A c \in Builds : ~err[c]
    BY <1>2, <2>1 DEF Explains
  <2>3. ~Alone(b)'
    BY <1>2, <1>5 DEF Calm
  <2>4. ToolsPullable'
    BY <1>1, <2>2, NextStepStock DEF Fine
  <2>5. \A c \in Builds : FineAt(c)'
    BY <1>1, <2>2, <2>3, NextStepBegins, NextStepOthers
  <2>. QED
    BY <1>2, <2>2, <2>4, <2>5 DEF Fine
<1>6. BaseOffered'
  BY <1>2 DEF Explains, BaseOffered
<1>. QED
  BY <1>2, <1>5, <1>6 DEF Explains

\* A killed process does nothing more.
LEMMA KillExplains ==
  ASSUME IInv, IInv', Explains, exited' \in {exited, "killed"},
         UNCHANGED <<runtime, job, local, remote, workdir, config, ctr, disk, pos, todo, err, run, faults, skipped, claimed>>
  PROVE  Explains'
<1>1. Typed /\ Typed' /\ Remembers /\ Builds' = Builds
  BY DEF IInv, Typed, Remembers, Builds
<1>2. Calm' => Calm
  BY <1>1, CalmBefore
<1>3. BaseOffered'
  BY DEF Explains, BaseOffered
<1>4. CASE exited' = "killed"
  BY <1>1, <1>2, <1>3, <1>4 DEF Explains
<1>5. CASE exited' = exited
  <2>1. UNCHANGED vars
    BY <1>5 DEF vars
  <2>2. (Calm <=> Calm') /\ (Unpublished <=> Unpublished') /\ (Fine <=> Fine')
    BY <2>1 DEF vars, Calm, Unpublished, Fine, ReleasedTogether, Builds, Alone, HostRefuses, Nameless, Auth, BuiltNotPushed,
                ScansUnpublished, ToolsPullable, FineAt, SaneAt, ForwardAt, AskedAt, ChainedAt, LeftAt, Current,
                Provided, Available, Standing, Pullable, PushAhead, World
  <2>. QED
    BY <1>1, <1>3, <1>5, <2>2 DEF Explains
<1>. QED
  BY <1>4, <1>5

\* A new run begins with nothing ahead.
LEMMA FreshFine ==
  ToolsPullable /\ Fresh => Fine
<1>. SUFFICES ASSUME ToolsPullable, Fresh  PROVE Fine
  OBVIOUS
<1>1. Len(<<>>) = 0 /\ 1..0 = {}
  OBVIOUS
<1>2. ASSUME NEW b \in Builds  PROVE FineAt(b)
  BY <1>1 DEF Fresh, FineAt, SaneAt, ForwardAt, RunsThrough, AskedAt, ChainedAt, LeftAt
<1>. QED
  BY <1>2 DEF Fine

LEMMA InitExplains ==
  ASSUME Init
  PROVE  Explains
<1>1. /\ runtime \in Runtimes /\ job \in Jobs /\ local \in Stores /\ remote = Registry /\ exited = "no" /\ run = 1
      /\ \A b \in Builds : pos[b] = 0 /\ todo[b] = <<>> /\ ~err[b]
  BY DEF Init
<1>2. BaseOffered
  BY <1>1, ServedAssumption DEF BaseOffered
<1>3. ToolsPullable
  BY <1>1, ServedAssumption DEF ToolsPullable, Pullable
<1>4. Fine
  <2>1. Fresh
    BY DEF Init, Fresh
  <2>. QED
    BY <1>3, <2>1, FreshFine
<1>. QED
  BY <1>1, <1>2, <1>4 DEF Explains

LEMMA RerunExplains ==
  ASSUME IInv, Explains, Rerun
  PROVE  Explains'
<1>1. /\ run' = run + 1 /\ exited' = "no" /\ UNCHANGED <<runtime, job>> /\ Builds' = Builds
      /\ \A b \in Builds : pos'[b] = 0 /\ todo'[b] = <<>> /\ ~err'[b]
      /\ remote' = [i \in Image |-> [p \in Platform |-> Older(remote[i][p])]]
  BY DEF Rerun, Builds
<1>2. run' > 1
  BY <1>1 DEF IInv, TypeOK
<1>3. BaseOffered'
  <2>1. \A x : x # None => Older(x) # None
    BY DEF Older, None
  <2>2. Host \in Platform
    BY DEF Platform
  <2>. QED
    BY <1>1, <2>1, <2>2, ImagesInPlay DEF Explains, BaseOffered
<1>4. ToolsPullable'
  BY <1>2 DEF ToolsPullable, Pullable
<1>5. Fine'
  <2>1. Fresh'
    BY <1>1 DEF Rerun, Fresh
  <2>. QED
    BY <1>4, <2>1, FreshFine, PTL
<1>. QED
  BY <1>1, <1>3, <1>5 DEF Explains

\* No step fails without a cause: as long as no call fails on its own, nothing
\* that a step needs is missing when it asks for it (Pull and
\* BuildIntermidiateContainer before Create, Commit before Tag, Tag before Push,
\* the compilation before CopyFileTo, Start before Exec), unless one of the causes
\* that FailuresExplained lists is there, for which the code has no remedy.
THEOREM StepFailuresHaveCauses == Spec => []FailuresExplained
<1>1. Init => IInv /\ Explains
  BY InitKeeps, InitExplains
<1>2. IInv /\ Explains /\ [Next]_vars => (IInv /\ Explains)'
  <2>. SUFFICES ASSUME IInv, Explains, [Next]_vars  PROVE IInv' /\ Explains'
    OBVIOUS
  <2>1. ASSUME NEW b \in Builds, Act(b)  PROVE IInv' /\ Explains'
    BY <2>1, OperationKeeps, OperationExplains
  <2>2. ASSUME NEW b \in Builds, NextStep(b)  PROVE IInv' /\ Explains'
    BY <2>2, NextStepKeeps, NextStepExplains
  <2>3. CASE Kill
    BY <2>3, KillKeeps, KillExplains DEF Kill, images, place, history
  <2>4. CASE Rerun
    BY <2>4, RerunKeeps, RerunExplains
  <2>5. CASE UNCHANGED vars
    BY <2>5, KillKeeps, KillExplains DEF vars
  <2>. QED
    BY <2>1, <2>2, <2>3, <2>4, <2>5, NextCases
<1>3. IInv /\ Explains => FailuresExplained
  <2>. SUFFICES ASSUME IInv, Explains, exited \in {"exit", "panic"} \/ \E b \in Builds : err[b],
                       faults = 0, skipped = {}, ~ReleasedTogether
       PROVE  \/ BuiltNotPushed
              \/ \E b \in Builds :
                   \/ ~job[b].cfg.token \/ Alone(b) \/ ScansUnpublished(b) \/ HostRefuses(b) \/ Nameless(b)
                   \/ runtime = "podman" /\ (Auth(b) = "urlsafe" \/ job[b].cfg.links)
    <3>1. IInv => faults \in Nat
      <4>1. IInv => faults \in 0..MaxFaults
        BY DEF IInv, TypeOK
      <4>. QED
        BY ONLY <4>1
    <3>. QED
      BY <3>1 DEF FailuresExplained
  <2>1. CASE Calm
    <3>1. Unpublished
      BY <2>1 DEF Explains
    <3>. QED
      BY <3>1 DEF Unpublished
  <2>2. CASE ~Calm
    BY <2>2 DEF Calm
  <2>. QED
    BY <2>1, <2>2
<1>. QED
  BY <1>1, <1>2, <1>3, PTL DEF Spec
================================================================================
