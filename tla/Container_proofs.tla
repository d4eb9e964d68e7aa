--------------------------- MODULE Container_proofs ---------------------------
(***************************************************************************)
(* The builds of a group on a container runtime, for any set of jobs, any  *)
(* image stores and registries, any number of faults and runs.             *)
(***************************************************************************)
EXTENDS Container, SequenceTheorems, WellFoundedInduction, TLAPS

-----------------------------------------------------------------------------
(* The operations the steps of a build are made of.                        *)

FailKind == {"exit", "err", "log", "next", "defer"}

PullOps == [do : {"pull"}, fail : FailKind, imgs : Seq(BaseImage \cup ToolImage) \ {<<>>}]
EnsureOps(X, body) ==
  [do : {"ensure"}, fail : {"exit"}, img : X, plats : Seq(Platform), body : {body}, left : Seq(Platform),
   missed : BOOLEAN, asked : BOOLEAN]
BuildOps(X, body) == [do : {"build", "buildMulti"}, fail : {"exit"}, img : X, body : {body}]
RetagOps(X) == {o \in [do : {"tag"}, fail : {"exit"}, src : X, img : X] : o.src = o.img}
PublishOps(c) == [do : {"tag"}, fail : {"err"}, src : {AppTag(c)}, img : {AppURI(c)}]
PushOps(X) == [do : {"push"}, fail : {"exit", "err"}, img : X]
TagCommitOps(X) == [do : {"tagCommit"}, fail : {"exit", "err"}, img : X]
InspectOps(c) == [do : {"inspect"}, fail : {"exit"}, img : {AppURI(c)}]
CreateOps == [do : {"create"}, fail : {"exit"}, img : BaseImage \cup ToolImage, auto : BOOLEAN]
StartOps == [do : {"start"}, fail : FailKind, mounts : BOOLEAN]
PutOps == [do : {"put"}, fail : FailKind, script : BOOLEAN]
WaitOps(K) == [do : {"wait"}, fail : K, makes : BOOLEAN]
CommitOps(c) == [do : {"commit"}, fail : {"exit"}, img : {AppTag(c)}]
BareOps == [do : {"copyFile", "copyDir", "exec", "stop", "check", "refuse"}, fail : FailKind]
MarkOps == [do : {"mark"}, fail : FailKind]
BindOps == [do : {"bind", "unconfig"}, fail : FailKind]
ConfigOps(c) == [do : {"config"}, fail : {"err"}, language : {Language(c)}]

\* The operations of every step but the production steps, gorelease and github:
\* a wait that fails makes the step fail.
QuietOps(c) ==
  PullOps \cup EnsureOps(ToolImage, "tool") \cup BuildOps(ToolImage, "tool") \cup RetagOps(ToolImage)
  \cup PushOps(ToolImage) \cup TagCommitOps({AppTag(c)}) \cup InspectOps(c) \cup CreateOps \cup StartOps
  \cup PutOps \cup WaitOps({"exit", "err"}) \cup CommitOps(c) \cup BareOps
PlainOps(c) == QuietOps(c) \cup MarkOps
ReleaseOps(c) == PlainOps(c) \cup WaitOps({"defer"}) \cup BindOps \cup ConfigOps(c)
\* A comment that fails is only logged.
CommentOps(c) == PlainOps(c) \cup WaitOps({"next"})
GithubOps(c) == IF c.pr THEN CommentOps(c) ELSE PlainOps(c)
ProdOps(c) ==
  QuietOps(c) \cup EnsureOps({AppTag(c)}, "fresh") \cup BuildOps({AppTag(c)}, "fresh") \cup RetagOps({AppTag(c)})
  \cup PushOps({AppTag(c), AppURI(c)}) \cup PublishOps(c) \cup TagCommitOps({AppURI(c)})

StepOps(step, c) ==
  IF step = "gorelease" THEN ReleaseOps(c)
  ELSE IF step \in ProdStep THEN ProdOps(c)
  ELSE IF step = "github" THEN GithubOps(c) ELSE PlainOps(c)
\* All of them.
AnyOps(c) == ReleaseOps(c) \cup GithubOps(c) \cup ProdOps(c)

Current(b) == job[b].steps[pos[b]]

TodoTyped ==
  \A b \in Builds : IF pos[b] = 0 THEN todo[b] = <<>> ELSE todo[b] \in Seq(StepOps(Current(b), job[b].cfg))

-----------------------------------------------------------------------------
(* Starts and ends of containers.                                          *)

Inside == {"exec", "copyFile", "copyDir", "commit", "check", "refuse"}
\* Behind k the container is waited for or stopped, and on the way there only
\* an exit can end the step.
Ends(s, k) ==
  \E l \in (k + 1)..Len(s) :
    /\ s[l].do = "wait" \/ (s[l].do = "stop" /\ s[l].fail = "exit")
    /\ \A m \in (k + 1)..(l - 1) : s[m].do \in Inside /\ s[m].fail = "exit"
StartsEnd(s) == \A k \in 1..Len(s) : s[k].do = "start" => Ends(s, k)

StartsWillEnd == \A b \in Builds : StartsEnd(todo[b])
RunningWillEnd ==
  runtime # "host" /\ exited = "no" => \A b \in Builds : ctr[b].state = "running" => Ends(todo[b], 0)

\* A container whose wait failed: the build failed with it, or it commented.
AdriftReported ==
  runtime # "host" /\ exited = "no" =>
    \A b \in Builds : ctr[b].state = "adrift" => err[b] \/ Commenting(b)

-----------------------------------------------------------------------------
(* From the compilation to the pushed image.                               *)

\* The application is still to be made, and nothing but an error avoids it.
Makes(s) ==
  \E l \in 1..Len(s) :
    /\ s[l].do = "wait" /\ s[l].makes
    /\ \A m \in 1..l : s[m].fail \in {"exit", "err"}
Compiled ==
  exited = "no" =>
    \A b \in Builds : \A k \in 1..pos[b] :
      job[b].steps[k] \in CompileStep =>
        disk[b] \in OfThisRun(b) \/ err[b] \/ (k = pos[b] /\ Makes(todo[b]))

Copies == {"copyFile", "copyDir"}
\* Some operation of one of the kinds K precedes k, in the same container.
From(s, k, K) ==
  \E j \in 1..(k - 1) : s[j].do \in K /\ \A m \in (j + 1)..(k - 1) : s[m].do \notin K \cup {"create"}
Untouched(s, k, K) == \A m \in 1..(k - 1) : s[m].do \notin K \cup {"create"}

Packaging(b) ==
  runtime # "host" /\ pos[b] > 0 /\ Current(b) \in ProdStep /\ ~job[b].cfg.custom /\ Compiles(b)
TaggedBefore(s, k, i) == k > 1 /\ s[k - 1].do = "tagCommit" /\ s[k - 1].img = i

Sourced ==
  \A b \in Builds : Packaging(b) =>
    LET s == todo[b] IN
    \A k \in 1..Len(s) :
      /\ s[k].fail = "exit" /\ s[k].do \notin {"pull", "ensure", "tag", "build", "buildMulti"}
      /\ s[k].do \in Copies => disk[b] \in OfThisRun(b) \/ err[b]
      /\ s[k].do = "commit" =>
           From(s, k, Copies) \/ (Untouched(s, k, Copies) /\ (ctr[b].body \in OfThisRun(b) \/ err[b]))
      /\ s[k].do = "tagCommit" =>
           \/ From(s, k, {"commit"})
           \/ Untouched(s, k, {"commit"}) /\ (ctr[b].made.body \in OfThisRun(b) \/ err[b])
      /\ s[k].do = "push" => s[k].img = AppURI(job[b].cfg) /\
           \/ TaggedBefore(s, k, s[k].img)
           \/ k = 1 /\ (local[s[k].img].body \in OfThisRun(b) \/ err[b])

-----------------------------------------------------------------------------
(* What is offered once stays as it was offered.                           *)

Offers(o, i) == o.do \in {"push", "ensure", "buildMulti"} /\ o.img = i
OffersOnce(s) ==
  \A k, l \in 1..Len(s) : k < l => \A i \in Image \ ToolImage : ~(Offers(s[k], i) /\ Offers(s[l], i))

OfferedOnce == \A b \in Builds : OffersOnce(todo[b])
ToolsAreTools ==
  \A i \in ToolImage : local[i].body \in {None, "tool"} /\ \A p \in Platform : remote[i][p] \in {None, "tool"}
ClaimsKept ==
  runtime # "host" => \A x \in claimed :
    /\ x.img \in Image /\ x.plat \in Platform
    /\ \/ x.img \in ToolImage /\ x.body = "tool"
       \/ \E b \in Builds :
            /\ x.img \in {AppTag(job[b].cfg), AppURI(job[b].cfg)}
            /\ \A k \in 1..Len(todo[b]) : ~Offers(todo[b][k], x.img)
            /\ \A k \in (pos[b] + 1)..Len(job[b].steps) : job[b].steps[k] \notin ProdStep

-----------------------------------------------------------------------------
(* Goreleaser's file.                                                      *)

\* The file will be removed: what comes before can only exit or go on behind a mark.
Deferred(s, m, l) == s[m].fail = "defer" /\ \E n \in (m + 1)..(l - 1) : s[n].do = "mark"
CleansAt(s, k, l) ==
  /\ s[l].do = "unconfig"
  /\ \A m \in (k + 1)..(l - 1) :
       /\ s[m].do \notin {"config", "ensure", "pull"}
       /\ s[m].do = "mark" \/ s[m].fail = "exit" \/ Deferred(s, m, l)
Cleans(s, k) == \E l \in (k + 1)..Len(s) : CleansAt(s, k, l)
ConfigsClean(s) == \A k \in 1..Len(s) : s[k].do = "config" => Cleans(s, k)
Binds(s) == \E k \in 1..Len(s) : s[k].do = "bind" /\ \A m \in 1..(k - 1) : s[m].do # "config"

ConfigsWillClean == \A b \in Builds : ConfigsClean(todo[b])
\* What a mark introduces neither commits nor binds.
MarkedPlain(s) ==
  \A k, l \in 1..Len(s) : k < l /\ s[k].do = "mark" => s[l].do \notin {"bind", "commit", "mark"}
MarksArePlain == \A b \in Builds : MarkedPlain(todo[b])
BindsOwn ==
  exited = "no" =>
    \A b \in Builds : Binds(todo[b]) =>
      \/ config \in {None, Language(job[b].cfg)}
      \/ \E c \in Builds : c # b /\ Cleans(todo[c], 0) /\ config = Language(job[c].cfg)

-----------------------------------------------------------------------------
\* On Docker and Podman what is committed is a container that was created.
Created ==
  runtime # "host" => \A b \in Builds :
    \A k \in 1..Len(todo[b]) : todo[b][k].do = "commit" =>
      ctr[b].body \in Body \/ \E j \in 1..(k - 1) : todo[b][j].do = "create"

IInv ==
  /\ TypeOK /\ TodoTyped /\ Created
  /\ StartsWillEnd /\ RunningWillEnd /\ AdriftReported
  /\ Compiled /\ Sourced
  /\ OfferedOnce /\ ToolsAreTools /\ ClaimsKept
  /\ MarksArePlain /\ ConfigsWillClean /\ BindsOwn
  /\ PushedIsRemote /\ StaleIsReported

-----------------------------------------------------------------------------
(* Sequences: what is left of one, and two in a row.                       *)

\* t is what is left of s behind its first n elements.
Rest(s, n, t) ==
  /\ n \in 0..Len(s) /\ Len(t) = Len(s) - n
  /\ \A k \in 1..Len(t) : t[k] = s[k + n]

\* u is s followed by t.
Joined(s, t, u) ==
  /\ Len(u) = Len(s) + Len(t)
  /\ \A k \in 1..Len(s) : u[k] = s[k]
  /\ \A k \in 1..Len(t) : u[k + Len(s)] = t[k]

LEMMA TailRest ==
  ASSUME NEW S, NEW s \in Seq(S), s # <<>>
  PROVE  /\ Head(s) \in S /\ Head(s) = s[1] /\ Len(s) \in Nat /\ Len(s) > 0
         /\ Tail(s) \in Seq(S) /\ Rest(s, 1, Tail(s))
<1>1. Len(s) \in Nat /\ Len(s) > 0
  BY EmptySeq, LenProperties
<1>2. /\ Head(s) \in S /\ Tail(s) \in Seq(S) /\ Len(Tail(s)) = Len(s) - 1
      /\ \A k \in 1..Len(Tail(s)) : Tail(s)[k] = s[k + 1]
  BY HeadTailProperties
<1>3. Head(s) = s[1]
  BY <1>1
<1> QED
  BY <1>1, <1>2, <1>3 DEF Rest

LEMMA EmptyRest ==
  ASSUME NEW S, NEW s \in Seq(S)
  PROVE  <<>> \in Seq(S) /\ Len(<<>>) = 0 /\ Rest(s, Len(s), <<>>)
<1>1. Len(s) \in Nat /\ Len(<<>>) = 0 /\ <<>> \in Seq(S)
  BY EmptySeq, LenProperties
<1> QED
  BY <1>1 DEF Rest

LEMMA JoinedConcat ==
  ASSUME NEW S, NEW s \in Seq(S), NEW t \in Seq(S)
  PROVE  /\ s \o t \in Seq(S) /\ Joined(s, t, s \o t)
         /\ Len(s) \in Nat /\ Len(t) \in Nat
<1>1. Len(s) \in Nat /\ Len(t) \in Nat
  BY LenProperties
<1>2. /\ s \o t \in Seq(S) /\ Len(s \o t) = Len(s) + Len(t)
      /\ \A k \in 1..(Len(s) + Len(t)) : (s \o t)[k] = IF k <= Len(s) THEN s[k] ELSE t[k - Len(s)]
  BY ConcatProperties
<1> HIDE DEF Joined
<1>3. \A k \in 1..Len(s) : (s \o t)[k] = s[k]
  BY <1>1, <1>2
<1>4. \A k \in 1..Len(t) : (s \o t)[k + Len(s)] = t[k]
  <2> SUFFICES ASSUME NEW k \in 1..Len(t) PROVE (s \o t)[k + Len(s)] = t[k]
    OBVIOUS
  <2>1. k + Len(s) \in 1..(Len(s) + Len(t)) /\ ~(k + Len(s) <= Len(s)) /\ (k + Len(s)) - Len(s) = k
    BY <1>1
  <2> QED
    BY <1>2, <2>1
<1> QED
  BY <1>1, <1>2, <1>3, <1>4 DEF Joined

LEMMA MinProperty ==
  ASSUME NEW S \in SUBSET Nat, S # {}
  PROVE  /\ Min(S) \in S
         /\ \A y \in S : Min(S) <= y
<1>1. PICK x \in S : \A y \in S : ~(<<y, x>> \in OpToRel(<, Nat))
  BY NatLessThanWellFounded, WFMin
<1>2. \A y \in S : ~(y < x)
  BY <1>1 DEF OpToRel
<1>3. \A y \in S : x <= y
  BY <1>2
<1> QED
  BY <1>3 DEF Min

\* Behind the first mark, or from the beginning if there is none.
LEMMA AfterMarkRest ==
  ASSUME NEW S, NEW s \in Seq(S)
  PROVE  /\ AfterMark(s) \in Seq(S)
         /\ \E n \in 0..Len(s) :
              /\ Rest(s, n, AfterMark(s))
              /\ \A k \in 1..Len(s) : s[k].do = "mark" => n > 0 /\ n <= k
              /\ n > 0 => s[n].do = "mark"
<1> DEFINE I == {i \in 1..Len(s) : s[i].do = "mark"}
           n == IF I # {} THEN Min(I) ELSE 0
<1>1. Len(s) \in Nat
  BY LenProperties
<1>2. AfterMark(s) = SubSeq(s, n + 1, Len(s))
  BY DEF AfterMark, SelectInSeq
<1>3. /\ n \in 0..Len(s)
      /\ \A k \in 1..Len(s) : s[k].do = "mark" => n > 0 /\ n <= k
      /\ n > 0 => s[n].do = "mark"
  <2>1. CASE I = {}
    BY <1>1, <2>1
  <2>2. CASE I # {}
    <3>1. I \in SUBSET Nat
      BY <1>1
    <3>2. Min(I) \in I /\ \A k \in I : Min(I) <= k
      BY <2>2, <3>1, MinProperty
    <3>3. n = Min(I) /\ n \in 1..Len(s) /\ s[n].do = "mark"
      BY <2>2, <3>2
    <3>4. \A k \in 1..Len(s) : s[k].do = "mark" => n <= k
      BY <3>2, <3>3
    <3> HIDE DEF n, I
    <3> QED
      BY <1>1, <3>3, <3>4
  <2> QED
    BY <2>1, <2>2
<1> HIDE DEF n
<1>4. \A i \in (n + 1)..Len(s) : s[i] \in S
  BY <1>1, <1>3, ElementOfSeq
<1>5. /\ AfterMark(s) \in Seq(S)
      /\ Len(AfterMark(s)) = IF n + 1 <= Len(s) THEN Len(s) - (n + 1) + 1 ELSE 0
      /\ \A i \in 1..(Len(s) - (n + 1) + 1) : AfterMark(s)[i] = s[(n + 1) + i - 1]
  BY <1>1, <1>2, <1>3, <1>4, SubSeqProperties
<1>6. Rest(s, n, AfterMark(s))
  <2>1. Len(AfterMark(s)) = Len(s) - n
    BY <1>1, <1>3, <1>5
  <2>2. ASSUME NEW k \in 1..Len(AfterMark(s)) PROVE AfterMark(s)[k] = s[k + n]
    <3>1. k \in 1..(Len(s) - (n + 1) + 1) /\ (n + 1) + k - 1 = k + n
      BY <1>1, <1>3, <2>1
    <3> QED
      BY <1>5, <3>1
  <2> QED
    BY <1>3, <2>1, <2>2 DEF Rest
<1> QED
  BY <1>3, <1>5, <1>6

-----------------------------------------------------------------------------
(* What is left of a sequence, or two in a row, keep what the invariant    *)
(* says of the operations ahead.                                           *)

LEMMA EndsRest ==
  ASSUME NEW s, NEW n, NEW t, Len(s) \in Nat, Rest(s, n, t), NEW k \in Nat
  PROVE  Ends(t, k) <=> Ends(s, k + n)
<1>1. n \in 0..Len(s) /\ n \in Nat /\ Len(t) = Len(s) - n /\ \A m \in 1..Len(t) : t[m] = s[m + n]
  BY DEF Rest
<1>2. \A m \in (k + n + 1)..Len(s) : m - n \in (k + 1)..Len(t) /\ t[m - n] = s[m]
  <2> SUFFICES ASSUME NEW m \in (k + n + 1)..Len(s) PROVE m - n \in (k + 1)..Len(t) /\ t[m - n] = s[m]
    OBVIOUS
  <2>1. m - n \in (k + 1)..Len(t) /\ m - n \in 1..Len(t) /\ (m - n) + n = m
    BY <1>1
  <2> QED
    BY <1>1, <2>1
<1>3. ASSUME Ends(t, k) PROVE Ends(s, k + n)
  <2>1. PICK l \in (k + 1)..Len(t) :
          /\ t[l].do = "wait" \/ (t[l].do = "stop" /\ t[l].fail = "exit")
          /\ \A m \in (k + 1)..(l - 1) : t[m].do \in Inside /\ t[m].fail = "exit"
    BY <1>3 DEF Ends
  <2> DEFINE q == l + n
  <2>2. q \in (k + n + 1)..Len(s) /\ s[q] = t[l]
    BY <1>1
  <2>3. ASSUME NEW m \in (k + n + 1)..(q - 1) PROVE s[m].do \in Inside /\ s[m].fail = "exit"
    <3>1. m - n \in (k + 1)..(l - 1) /\ m \in (k + n + 1)..Len(s)
      BY <1>1
    <3> QED
      BY <1>2, <2>1, <3>1
  <2> HIDE DEF q
  <2> QED
    BY <2>1, <2>2, <2>3 DEF Ends
<1>4. ASSUME Ends(s, k + n) PROVE Ends(t, k)
  <2>1. PICK l \in (k + n + 1)..Len(s) :
          /\ s[l].do = "wait" \/ (s[l].do = "stop" /\ s[l].fail = "exit")
          /\ \A m \in (k + n + 1)..(l - 1) : s[m].do \in Inside /\ s[m].fail = "exit"
    BY <1>4 DEF Ends
  <2>2. l - n \in (k + 1)..Len(t) /\ t[l - n] = s[l]
    BY <1>2
  <2>3. ASSUME NEW m \in (k + 1)..((l - n) - 1) PROVE t[m].do \in Inside /\ t[m].fail = "exit"
    <3>1. m + n \in (k + n + 1)..(l - 1) /\ m \in 1..Len(t)
      BY <1>1
    <3> QED
      BY <1>1, <2>1, <3>1
  <2> QED
    BY <2>1, <2>2, <2>3 DEF Ends
<1> QED
  BY <1>3, <1>4

LEMMA StartsEndRest ==
  ASSUME NEW s, NEW n, NEW t, Len(s) \in Nat, Rest(s, n, t), StartsEnd(s)
  PROVE  StartsEnd(t)
<1> SUFFICES ASSUME NEW k \in 1..Len(t), t[k].do = "start" PROVE Ends(t, k)
  BY DEF StartsEnd
<1>1. k \in Nat /\ k + n \in 1..Len(s) /\ t[k] = s[k + n]
  BY DEF Rest
<1>2. Ends(s, k + n)
  BY <1>1 DEF StartsEnd
<1> QED
  BY <1>1, <1>2, EndsRest

\* An end in the first or in the second part is one of the whole.
LEMMA EndsJoined ==
  ASSUME NEW s, NEW t, NEW u, Len(s) \in Nat, Len(t) \in Nat, Joined(s, t, u)
  PROVE  /\ \A k \in Nat : Ends(s, k) => Ends(u, k)
         /\ \A k \in Nat : Ends(t, k) => Ends(u, k + Len(s))
<1>1. Rest(u, Len(s), t) /\ Len(u) \in Nat
  BY DEF Rest, Joined
<1>2. ASSUME NEW k \in Nat, Ends(s, k) PROVE Ends(u, k)
  <2>1. PICK l \in (k + 1)..Len(s) :
          /\ s[l].do = "wait" \/ (s[l].do = "stop" /\ s[l].fail = "exit")
          /\ \A m \in (k + 1)..(l - 1) : s[m].do \in Inside /\ s[m].fail = "exit"
    BY <1>2 DEF Ends
  <2>2. /\ l \in (k + 1)..Len(u) /\ u[l] = s[l]
        /\ \A m \in (k + 1)..(l - 1) : u[m] = s[m]
    BY DEF Joined
  <2> QED
    BY <2>1, <2>2 DEF Ends
<1>3. ASSUME NEW k \in Nat, Ends(t, k) PROVE Ends(u, k + Len(s))
  BY <1>1, <1>3, EndsRest
<1> QED
  BY <1>2, <1>3

LEMMA StartsEndJoined ==
  ASSUME NEW s, NEW t, NEW u, Len(s) \in Nat, Len(t) \in Nat, Joined(s, t, u), StartsEnd(s), StartsEnd(t)
  PROVE  StartsEnd(u)
<1> SUFFICES ASSUME NEW k \in 1..Len(u), u[k].do = "start" PROVE Ends(u, k)
  BY DEF StartsEnd
<1>1. Len(u) = Len(s) + Len(t) /\ k \in Nat
  BY DEF Joined
<1>2. CASE k <= Len(s)
  <2>1. k \in 1..Len(s) /\ u[k] = s[k]
    BY <1>1, <1>2 DEF Joined
  <2>2. Ends(s, k)
    BY <2>1 DEF StartsEnd
  <2> QED
    BY <1>1, <2>2, EndsJoined
<1>3. CASE k > Len(s)
  <2>1. k - Len(s) \in 1..Len(t) /\ k - Len(s) \in Nat /\ (k - Len(s)) + Len(s) = k
    BY <1>1, <1>3
  <2>2. u[k] = t[k - Len(s)]
    BY <2>1 DEF Joined
  <2>3. Ends(t, k - Len(s))
    BY <2>1, <2>2 DEF StartsEnd
  <2>4. Ends(u, (k - Len(s)) + Len(s))
    BY <2>1, <2>3, EndsJoined
  <2> QED
    BY <2>1, <2>4
<1> QED
  BY <1>1, <1>2, <1>3

LEMMA CleansShift ==
  ASSUME NEW s, NEW n, NEW t, Len(s) \in Nat, Rest(s, n, t), NEW k \in Nat, NEW l \in (k + 1)..Len(t)
  PROVE  CleansAt(t, k, l) <=> CleansAt(s, k + n, l + n)
<1> DEFINE q == l + n
           h == k + n
<1>1. n \in 0..Len(s) /\ n \in Nat /\ Len(t) = Len(s) - n /\ \A m \in 1..Len(t) : t[m] = s[m + n]
  BY DEF Rest
<1>2. q \in Nat /\ h \in Nat /\ t[l] = s[q]
  BY <1>1
<1>3. \A m \in (h + 1)..(q - 1) : m - n \in (k + 1)..(l - 1) /\ t[m - n] = s[m]
  <2> SUFFICES ASSUME NEW m \in (h + 1)..(q - 1) PROVE m - n \in (k + 1)..(l - 1) /\ t[m - n] = s[m]
    OBVIOUS
  <2>1. m - n \in (k + 1)..(l - 1) /\ m - n \in 1..Len(t) /\ (m - n) + n = m
    BY <1>1
  <2> QED
    BY <1>1, <2>1
<1>4. \A m \in (k + 1)..(l - 1) : m + n \in (h + 1)..(q - 1) /\ t[m] = s[m + n]
  BY <1>1
<1>5. ASSUME NEW m \in (k + 1)..(l - 1)
      PROVE  Deferred(t, m, l) <=> Deferred(s, m + n, q)
  <2>1. \A j \in (m + 1)..(l - 1) : j + n \in ((m + n) + 1)..(q - 1) /\ t[j] = s[j + n]
    BY <1>1
  <2>2. \A j \in ((m + n) + 1)..(q - 1) : j - n \in (m + 1)..(l - 1) /\ t[j - n] = s[j]
    <3> SUFFICES ASSUME NEW j \in ((m + n) + 1)..(q - 1) PROVE j - n \in (m + 1)..(l - 1) /\ t[j - n] = s[j]
      OBVIOUS
    <3>1. j - n \in (m + 1)..(l - 1) /\ j \in (h + 1)..(q - 1)
      BY <1>1
    <3> QED
      BY ONLY <1>3, <3>1
  <2>3. t[m] = s[m + n]
    BY <1>4
  <2> HIDE DEF q, h
  <2> QED
    BY <2>1, <2>2, <2>3 DEF Deferred
<1>6. ASSUME CleansAt(t, k, l) PROVE CleansAt(s, h, q)
  <2>1. ASSUME NEW m \in (h + 1)..(q - 1)
        PROVE  /\ s[m].do \notin {"config", "ensure", "pull"}
               /\ s[m].do = "mark" \/ s[m].fail = "exit" \/ Deferred(s, m, q)
    <3>1. m - n \in (k + 1)..(l - 1) /\ t[m - n] = s[m] /\ (m - n) + n = m
      <4>1. m \in Nat /\ (m - n) + n = m
        BY <1>1, <1>2
      <4> QED
        BY ONLY <1>3, <4>1, m \in (h + 1)..(q - 1)
    <3>2. Deferred(t, m - n, l) => Deferred(s, m, q)
      BY <1>5, <3>1
    <3> QED
      BY <1>6, <3>1, <3>2 DEF CleansAt
  <2> HIDE DEF q, h
  <2> QED
    BY <1>2, <1>6, <2>1 DEF CleansAt
<1>7. ASSUME CleansAt(s, h, q) PROVE CleansAt(t, k, l)
  <2>1. ASSUME NEW m \in (k + 1)..(l - 1)
        PROVE  /\ t[m].do \notin {"config", "ensure", "pull"}
               /\ t[m].do = "mark" \/ t[m].fail = "exit" \/ Deferred(t, m, l)
    <3>1. m + n \in (h + 1)..(q - 1) /\ t[m] = s[m + n]
      BY <1>4
    <3> HIDE DEF q, h
    <3> QED
      BY <1>5, <1>7, <3>1 DEF CleansAt
  <2> HIDE DEF q, h
  <2> QED
    BY <1>2, <1>7, <2>1 DEF CleansAt
<1> QED
  BY <1>6, <1>7

LEMMA CleansRest ==
  ASSUME NEW s, NEW n, NEW t, Len(s) \in Nat, Rest(s, n, t), NEW k \in Nat
  PROVE  Cleans(t, k) <=> Cleans(s, k + n)
<1>1. n \in 0..Len(s) /\ n \in Nat /\ Len(t) = Len(s) - n
  BY DEF Rest
<1>2. ASSUME NEW l \in (k + 1)..Len(t), CleansAt(t, k, l) PROVE Cleans(s, k + n)
  <2>1. l + n \in (k + n + 1)..Len(s) /\ CleansAt(s, k + n, l + n)
    BY <1>1, <1>2, CleansShift
  <2> QED
    BY <2>1 DEF Cleans
<1>3. ASSUME NEW l \in (k + n + 1)..Len(s), CleansAt(s, k + n, l) PROVE Cleans(t, k)
  <2>1. l - n \in (k + 1)..Len(t) /\ (l - n) + n = l
    BY <1>1
  <2>2. CleansAt(t, k, l - n)
    BY <1>3, <2>1, CleansShift
  <2> QED
    BY <2>1, <2>2 DEF Cleans
<1> QED
  BY <1>2, <1>3 DEF Cleans

LEMMA ConfigsCleanRest ==
  ASSUME NEW s, NEW n, NEW t, Len(s) \in Nat, Rest(s, n, t), ConfigsClean(s)
  PROVE  ConfigsClean(t)
<1> SUFFICES ASSUME NEW k \in 1..Len(t), t[k].do = "config" PROVE Cleans(t, k)
  BY DEF ConfigsClean
<1>1. k \in Nat /\ k + n \in 1..Len(s) /\ t[k] = s[k + n]
  BY DEF Rest
<1>2. Cleans(s, k + n)
  BY <1>1 DEF ConfigsClean
<1> QED
  BY <1>1, <1>2, CleansRest

\* In front of a sequence come only operations that write no configuration.
LEMMA ConfigsCleanJoined ==
  ASSUME NEW s, NEW t, NEW u, Len(s) \in Nat, Len(t) \in Nat, Joined(s, t, u), ConfigsClean(t),
         \A k \in 1..Len(s) : s[k].do # "config"
  PROVE  ConfigsClean(u)
<1>1. Rest(u, Len(s), t) /\ Len(u) \in Nat /\ Len(u) = Len(s) + Len(t)
  BY DEF Rest, Joined
<1> SUFFICES ASSUME NEW k \in 1..Len(u), u[k].do = "config" PROVE Cleans(u, k)
  BY DEF ConfigsClean
<1>2. ~(k <= Len(s))
  BY DEF Joined
<1>3. k - Len(s) \in 1..Len(t) /\ k - Len(s) \in Nat /\ (k - Len(s)) + Len(s) = k
  BY <1>1, <1>2
<1>4. t[k - Len(s)] = u[k]
  BY <1>3 DEF Joined
<1>5. Cleans(t, k - Len(s))
  BY <1>3, <1>4 DEF ConfigsClean
<1>6. Cleans(u, (k - Len(s)) + Len(s))
  BY <1>1, <1>3, <1>5, CleansRest
<1> QED
  BY <1>3, <1>6

LEMMA MarkedPlainRest ==
  ASSUME NEW s, NEW n, NEW t, Len(s) \in Nat, Rest(s, n, t), MarkedPlain(s)
  PROVE  MarkedPlain(t)
<1> SUFFICES ASSUME NEW k \in 1..Len(t), NEW l \in 1..Len(t), k < l, t[k].do = "mark"
             PROVE  t[l].do \notin {"bind", "commit", "mark"}
  BY DEF MarkedPlain
<1>1. /\ k + n \in 1..Len(s) /\ l + n \in 1..Len(s) /\ k + n < l + n
      /\ t[k] = s[k + n] /\ t[l] = s[l + n]
  BY DEF Rest
<1> QED
  BY <1>1 DEF MarkedPlain

LEMMA MarkedPlainJoined ==
  ASSUME NEW s, NEW t, NEW u, Len(s) \in Nat, Len(t) \in Nat, Joined(s, t, u), MarkedPlain(t),
         \A k \in 1..Len(s) : s[k].do # "mark"
  PROVE  MarkedPlain(u)
<1> SUFFICES ASSUME NEW k \in 1..Len(u), NEW l \in 1..Len(u), k < l, u[k].do = "mark"
             PROVE  u[l].do \notin {"bind", "commit", "mark"}
  BY DEF MarkedPlain
<1>1. Len(u) = Len(s) + Len(t) /\ ~(k <= Len(s))
  BY DEF Joined
<1>2. /\ k - Len(s) \in 1..Len(t) /\ l - Len(s) \in 1..Len(t) /\ k - Len(s) < l - Len(s)
      /\ (k - Len(s)) + Len(s) = k /\ (l - Len(s)) + Len(s) = l
  BY <1>1
<1>3. u[k] = t[k - Len(s)] /\ u[l] = t[l - Len(s)]
  BY <1>2 DEF Joined
<1> QED
  BY <1>2, <1>3 DEF MarkedPlain

LEMMA MakesRest ==
  ASSUME NEW s, NEW t, Len(s) \in Nat, Rest(s, 1, t), Makes(s), ~(s[1].do = "wait" /\ s[1].makes)
  PROVE  Makes(t)
<1>1. Len(t) = Len(s) - 1 /\ \A m \in 1..Len(t) : t[m] = s[m + 1]
  BY DEF Rest
<1>2. PICK l \in 1..Len(s) : /\ s[l].do = "wait" /\ s[l].makes
                             /\ \A m \in 1..l : s[m].fail \in {"exit", "err"}
  BY DEF Makes
<1>3. l # 1
  BY <1>2
<1>4. l - 1 \in 1..Len(t) /\ (l - 1) + 1 = l
  BY <1>1, <1>3
<1>5. t[l - 1] = s[l]
  BY <1>1, <1>4
<1>6. \A m \in 1..(l - 1) : m \in 1..Len(t) /\ t[m] = s[m + 1] /\ m + 1 \in 1..l
  BY <1>1
<1>7. \A m \in 1..(l - 1) : t[m].fail \in {"exit", "err"}
  BY <1>2, <1>6
<1> QED
  BY <1>2, <1>4, <1>5, <1>7 DEF Makes

LEMMA MakesJoined ==
  ASSUME NEW s, NEW t, NEW u, Len(s) \in Nat, Len(t) \in Nat, Joined(s, t, u)
  PROVE  /\ Makes(s) => Makes(u)
         /\ Makes(t) /\ (\A k \in 1..Len(s) : s[k].fail \in {"exit", "err"}) => Makes(u)
<1>1. /\ Len(u) = Len(s) + Len(t)
      /\ \A k \in 1..Len(s) : u[k] = s[k]
      /\ \A k \in 1..Len(t) : u[k + Len(s)] = t[k]
  BY DEF Joined
<1>2. ASSUME Makes(s) PROVE Makes(u)
  <2>1. PICK l \in 1..Len(s) : /\ s[l].do = "wait" /\ s[l].makes
                               /\ \A m \in 1..l : s[m].fail \in {"exit", "err"}
    BY <1>2 DEF Makes
  <2>2. l \in 1..Len(u) /\ u[l] = s[l] /\ \A m \in 1..l : u[m] = s[m]
    BY <1>1
  <2> QED
    BY <2>1, <2>2 DEF Makes
<1>3. ASSUME Makes(t), \A k \in 1..Len(s) : s[k].fail \in {"exit", "err"} PROVE Makes(u)
  <2>1. PICK l \in 1..Len(t) : /\ t[l].do = "wait" /\ t[l].makes
                               /\ \A m \in 1..l : t[m].fail \in {"exit", "err"}
    BY <1>3 DEF Makes
  <2> DEFINE q == l + Len(s)
  <2>2. q \in 1..Len(u) /\ u[q] = t[l]
    BY <1>1
  <2>3. ASSUME NEW m \in 1..q PROVE u[m].fail \in {"exit", "err"}
    <3>1. CASE m <= Len(s)
      BY <1>1, <1>3, <3>1
    <3>2. CASE m > Len(s)
      <4>1. m - Len(s) \in 1..l /\ m - Len(s) \in 1..Len(t) /\ (m - Len(s)) + Len(s) = m
        BY <3>2
      <4> QED
        BY <1>1, <2>1, <4>1
    <3> QED
      BY <3>1, <3>2
  <2> HIDE DEF q
  <2> QED
    BY <2>1, <2>2, <2>3 DEF Makes
<1> QED
  BY <1>2, <1>3

LEMMA OffersOnceRest ==
  ASSUME NEW s, NEW n, NEW t, Len(s) \in Nat, Rest(s, n, t), OffersOnce(s)
  PROVE  OffersOnce(t)
<1> SUFFICES ASSUME NEW k \in 1..Len(t), NEW l \in 1..Len(t), k < l, NEW i \in Image \ ToolImage
             PROVE  ~(Offers(t[k], i) /\ Offers(t[l], i))
  BY DEF OffersOnce
<1>1. /\ k + n \in 1..Len(s) /\ l + n \in 1..Len(s) /\ k + n < l + n
      /\ t[k] = s[k + n] /\ t[l] = s[l + n]
  BY DEF Rest
<1> QED
  BY <1>1 DEF OffersOnce

\* An operation is replaced by others that offer no more than it did.
LEMMA OffersOnceExpanded ==
  ASSUME NEW s, NEW t, NEW ops, NEW u, Len(s) \in Nat, Len(s) > 0, Rest(s, 1, t), Len(ops) \in Nat,
         Joined(ops, t, u), OffersOnce(s), OffersOnce(ops),
         \A k \in 1..Len(ops), i \in Image \ ToolImage : Offers(ops[k], i) => Offers(s[1], i)
  PROVE  OffersOnce(u)
<1>1. /\ Len(t) = Len(s) - 1 /\ \A m \in 1..Len(t) : t[m] = s[m + 1]
      /\ Len(u) = Len(ops) + Len(t)
      /\ \A k \in 1..Len(ops) : u[k] = ops[k]
      /\ \A k \in 1..Len(t) : u[k + Len(ops)] = t[k]
  BY DEF Rest, Joined
<1> SUFFICES ASSUME NEW k \in 1..Len(u), NEW l \in 1..Len(u), k < l, NEW i \in Image \ ToolImage,
                    Offers(u[k], i), Offers(u[l], i)
             PROVE  FALSE
  BY DEF OffersOnce
<1>2. CASE l <= Len(ops)
  <2>1. k \in 1..Len(ops) /\ l \in 1..Len(ops)
    BY <1>2
  <2> QED
    BY <1>1, <2>1 DEF OffersOnce
<1>3. CASE k <= Len(ops) /\ l > Len(ops)
  <2>1. k \in 1..Len(ops) /\ u[k] = ops[k]
    BY <1>1, <1>3
  <2>2. l - Len(ops) \in 1..Len(t) /\ (l - Len(ops)) + Len(ops) = l
    BY <1>1, <1>3
  <2> DEFINE q == l - Len(ops)
  <2>3. u[l] = t[q] /\ q \in 1..Len(t) /\ q + 1 \in 1..Len(s) /\ 1 < q + 1 /\ 1 \in 1..Len(s)
    BY <1>1, <2>2
  <2>4. Offers(s[1], i)
    BY <2>1
  <2> HIDE DEF q
  <2>5. u[l] = s[q + 1]
    BY <1>1, <2>3
  <2> QED
    BY <2>3, <2>4, <2>5 DEF OffersOnce
<1>4. CASE k > Len(ops)
  <2>1. /\ k - Len(ops) \in 1..Len(t) /\ (k - Len(ops)) + Len(ops) = k
        /\ l - Len(ops) \in 1..Len(t) /\ (l - Len(ops)) + Len(ops) = l /\ k - Len(ops) < l - Len(ops)
    BY <1>1, <1>4
  <2>2. u[k] = t[k - Len(ops)] /\ u[l] = t[l - Len(ops)]
    BY <1>1, <2>1
  <2>3. OffersOnce(t)
    BY OffersOnceRest
  <2> QED
    BY <2>1, <2>2, <2>3 DEF OffersOnce
<1> QED
  BY <1>1, <1>2, <1>3, <1>4

LEMMA BindsRest ==
  ASSUME NEW s, NEW t, Len(s) \in Nat, Rest(s, 1, t), Binds(t), s[1].do # "config"
  PROVE  Binds(s)
<1>1. Len(t) = Len(s) - 1 /\ \A m \in 1..Len(t) : t[m] = s[m + 1]
  BY DEF Rest
<1>2. PICK k \in 1..Len(t) : t[k].do = "bind" /\ \A m \in 1..(k - 1) : t[m].do # "config"
  BY DEF Binds
<1> DEFINE q == k + 1
<1>3. q \in 1..Len(s) /\ s[q] = t[k]
  BY <1>1
<1>4. ASSUME NEW m \in 1..(q - 1) PROVE s[m].do # "config"
  <2>1. CASE m = 1
    BY <2>1
  <2>2. CASE m # 1
    <3>1. m - 1 \in 1..(k - 1) /\ m - 1 \in 1..Len(t) /\ (m - 1) + 1 = m
      BY <1>1, <2>2
    <3> QED
      BY <1>1, <1>2, <3>1
  <2> QED
    BY <2>1, <2>2
<1> HIDE DEF q
<1> QED
  BY <1>2, <1>3, <1>4 DEF Binds

\* Nothing binds behind a mark.
LEMMA BindsMarked ==
  ASSUME NEW s, NEW n, NEW t, Len(s) \in Nat, Rest(s, n, t), n > 0, s[n].do = "mark", MarkedPlain(s)
  PROVE  ~Binds(t) /\ \A k \in 1..Len(t) : t[k].do \notin {"commit", "mark"}
<1>1. \A k \in 1..Len(t) : k + n \in 1..Len(s) /\ n < k + n /\ n \in 1..Len(s) /\ t[k] = s[k + n]
  BY DEF Rest
<1>2. \A k \in 1..Len(t) : t[k].do \notin {"bind", "commit", "mark"}
  BY <1>1 DEF MarkedPlain
<1> QED
  BY <1>2 DEF Binds

LEMMA BindsJoined ==
  ASSUME NEW s, NEW t, NEW u, Len(s) \in Nat, Len(t) \in Nat, Joined(s, t, u), Binds(u),
         \A k \in 1..Len(s) : s[k].do \notin {"bind", "config"}
  PROVE  Binds(t)
<1>1. /\ Len(u) = Len(s) + Len(t)
      /\ \A k \in 1..Len(s) : u[k] = s[k]
      /\ \A k \in 1..Len(t) : u[k + Len(s)] = t[k]
  BY DEF Joined
<1>2. PICK k \in 1..Len(u) : u[k].do = "bind" /\ \A m \in 1..(k - 1) : u[m].do # "config"
  BY DEF Binds
<1>3. ~(k <= Len(s))
  BY <1>1, <1>2
<1>4. k - Len(s) \in 1..Len(t) /\ (k - Len(s)) + Len(s) = k
  BY <1>1, <1>3
<1>5. t[k - Len(s)] = u[k]
  BY <1>1, <1>4
<1>6. \A m \in 1..((k - Len(s)) - 1) : m + Len(s) \in 1..(k - 1) /\ m \in 1..Len(t)
  BY <1>1, <1>3
<1>7. \A m \in 1..((k - Len(s)) - 1) : t[m].do # "config"
  BY <1>1, <1>2, <1>6
<1> QED
  BY <1>2, <1>4, <1>5, <1>7 DEF Binds

LEMMA FromRest ==
  ASSUME NEW s, NEW t, Len(s) \in Nat, Rest(s, 1, t), NEW k \in 1..Len(t), NEW K
  PROVE  /\ From(s, k + 1, K) => From(t, k, K) \/ (s[1].do \in K /\ Untouched(t, k, K))
         /\ Untouched(s, k + 1, K) => Untouched(t, k, K) /\ s[1].do \notin K \cup {"create"}
<1>1. Len(t) = Len(s) - 1 /\ \A m \in 1..Len(t) : t[m] = s[m + 1]
  BY DEF Rest
<1>2. \A m \in 1..(k - 1) : m \in 1..Len(t) /\ t[m] = s[m + 1] /\ m + 1 \in 1..((k + 1) - 1)
  BY <1>1
<1>3. ASSUME Untouched(s, k + 1, K)
      PROVE  Untouched(t, k, K) /\ s[1].do \notin K \cup {"create"}
  <2>1. 1 \in 1..((k + 1) - 1)
    OBVIOUS
  <2> QED
    BY <1>2, <1>3, <2>1 DEF Untouched
<1>4. ASSUME From(s, k + 1, K)
      PROVE  From(t, k, K) \/ (s[1].do \in K /\ Untouched(t, k, K))
  <2>1. PICK j \in 1..((k + 1) - 1) :
          s[j].do \in K /\ \A m \in (j + 1)..((k + 1) - 1) : s[m].do \notin K \cup {"create"}
    BY <1>4 DEF From
  <2>2. CASE j = 1
    <3>1. \A m \in 1..(k - 1) : m + 1 \in (j + 1)..((k + 1) - 1)
      BY <2>2
    <3> QED
      BY <1>2, <2>1, <2>2, <3>1 DEF Untouched
  <2>3. CASE j # 1
    <3>1. j - 1 \in 1..(k - 1) /\ (j - 1) + 1 = j
      BY <2>3
    <3>2. t[j - 1] = s[j]
      BY <1>2, <3>1
    <3>3. \A m \in ((j - 1) + 1)..(k - 1) : m \in 1..(k - 1) /\ m + 1 \in (j + 1)..((k + 1) - 1)
      BY <3>1
    <3>4. \A m \in ((j - 1) + 1)..(k - 1) : t[m].do \notin K \cup {"create"}
      BY <1>2, <2>1, <3>3
    <3> QED
      BY <2>1, <3>1, <3>2, <3>4 DEF From
  <2> QED
    BY <2>2, <2>3
<1> QED
  BY <1>3, <1>4

-----------------------------------------------------------------------------
(* The programs of the steps.                                              *)

CommitsCreated(s) ==
  \A k \in 1..Len(s) : s[k].do = "commit" => \E j \in 1..(k - 1) : s[j].do = "create"
\* A part of a program: what it starts it ends, what it commits it created.
Piece(s, c) == s \in Seq(QuietOps(c)) /\ StartsEnd(s) /\ CommitsCreated(s)

LEMMA CommitsCreatedJoined ==
  ASSUME NEW s, NEW t, NEW u, Len(s) \in Nat, Len(t) \in Nat, Joined(s, t, u), CommitsCreated(s),
         CommitsCreated(t) \/ \E j \in 1..Len(s) : s[j].do = "create"
  PROVE  CommitsCreated(u)
<1>1. /\ Len(u) = Len(s) + Len(t)
      /\ \A k \in 1..Len(s) : u[k] = s[k]
      /\ \A k \in 1..Len(t) : u[k + Len(s)] = t[k]
  BY DEF Joined
<1> SUFFICES ASSUME NEW k \in 1..Len(u), u[k].do = "commit"
             PROVE  \E j \in 1..(k - 1) : u[j].do = "create"
  BY DEF CommitsCreated
<1>2. CASE k <= Len(s)
  <2>1. k \in 1..Len(s)
    BY <1>2
  <2>2. PICK j \in 1..(k - 1) : s[j].do = "create"
    BY <1>1, <2>1 DEF CommitsCreated
  <2>3. j \in 1..Len(s)
    BY <2>1
  <2> QED
    BY <1>1, <2>2, <2>3
<1>3. CASE k > Len(s) /\ \E j \in 1..Len(s) : s[j].do = "create"
  BY <1>1, <1>3
<1>4. CASE k > Len(s) /\ CommitsCreated(t)
  <2>1. k - Len(s) \in 1..Len(t) /\ (k - Len(s)) + Len(s) = k
    BY <1>1, <1>4
  <2>2. t[k - Len(s)].do = "commit"
    BY <1>1, <2>1
  <2>3. PICK j \in 1..((k - Len(s)) - 1) : t[j].do = "create"
    BY <1>4, <2>1, <2>2 DEF CommitsCreated
  <2>4. j \in 1..Len(t) /\ j + Len(s) \in 1..(k - 1)
    BY <2>1
  <2> QED
    BY <1>1, <2>3, <2>4
<1> QED
  BY <1>2, <1>3, <1>4

LEMMA PieceJoined ==
  ASSUME NEW c, NEW s, NEW t, Piece(s, c), Piece(t, c)
  PROVE  Piece(s \o t, c)
<1> DEFINE Q == QuietOps(c)
<1>1. s \in Seq(Q) /\ t \in Seq(Q)
  BY DEF Piece
<1> HIDE DEF Q
<1>2. s \o t \in Seq(Q) /\ Joined(s, t, s \o t) /\ Len(s) \in Nat /\ Len(t) \in Nat
  BY <1>1, JoinedConcat
<1>3. StartsEnd(s \o t)
  BY <1>2, StartsEndJoined DEF Piece
<1>4. CommitsCreated(s \o t)
  BY <1>2, CommitsCreatedJoined DEF Piece
<1> QED
  BY <1>2, <1>3, <1>4 DEF Piece, Q

\* Most parts wait for a container right behind its start, and commit nothing.
LEMMA WaitingPiece ==
  ASSUME NEW c, NEW s \in Seq(QuietOps(c)),
         \A k \in 1..Len(s) : /\ s[k].do # "commit"
                              /\ s[k].do = "start" => k + 1 <= Len(s) /\ s[k + 1].do = "wait"
  PROVE  Piece(s, c)
<1>1. Len(s) \in Nat
  BY LenProperties
<1>2. ASSUME NEW k \in 1..Len(s), s[k].do = "start" PROVE Ends(s, k)
  <2>1. k + 1 \in (k + 1)..Len(s) /\ s[k + 1].do = "wait" /\ (k + 1)..((k + 1) - 1) = {}
    BY <1>1, <1>2
  <2> QED
    BY <2>1 DEF Ends
<1> QED
  BY <1>2 DEF Piece, StartsEnd, CommitsCreated

LEMMA QuietParts ==
  ASSUME NEW c
  PROVE  /\ PullOps \subseteq QuietOps(c) /\ EnsureOps(ToolImage, "tool") \subseteq QuietOps(c)
         /\ TagCommitOps({AppTag(c)}) \subseteq QuietOps(c) /\ InspectOps(c) \subseteq QuietOps(c)
         /\ CreateOps \subseteq QuietOps(c) /\ StartOps \subseteq QuietOps(c) /\ PutOps \subseteq QuietOps(c)
         /\ WaitOps({"exit", "err"}) \subseteq QuietOps(c) /\ CommitOps(c) \subseteq QuietOps(c) /\ BareOps \subseteq QuietOps(c)
         /\ BuildOps(ToolImage, "tool") \subseteq QuietOps(c) /\ RetagOps(ToolImage) \subseteq QuietOps(c)
         /\ PushOps(ToolImage) \subseteq QuietOps(c)
BY DEF QuietOps

\* The operations the programs are written with.
LEMMA QuietElements ==
  ASSUME NEW c
  PROVE  /\ \A f \in FailKind :
              /\ {Check(f), Exec(f), Stop(f), CopyFile(f), CopyDir(f), Refuse(f)} \subseteq QuietOps(c)
              /\ {Start(f), StartIn(f), Put(f), PutFile(f)} \subseteq QuietOps(c)
         /\ \A f \in {"exit", "err"}, x \in BOOLEAN, i \in BaseImage \cup ToolImage :
              Create(i, x, "exit") \in QuietOps(c) /\ Wait(x, f) \in QuietOps(c)
         /\ \A f \in FailKind, imgs \in Seq(BaseImage \cup ToolImage) \ {<<>>} : Pull(imgs, f) \in QuietOps(c)
         /\ Commit(AppTag(c), "exit") \in QuietOps(c) /\ TagCommitted(AppTag(c), "err") \in QuietOps(c)
         /\ Inspect(AppURI(c), "exit") \in QuietOps(c)
<1>1. ASSUME NEW f \in FailKind
      PROVE  /\ {Check(f), Exec(f), Stop(f), CopyFile(f), CopyDir(f), Refuse(f)} \subseteq BareOps
             /\ {Start(f), StartIn(f)} \subseteq StartOps
             /\ {Put(f), PutFile(f)} \subseteq PutOps
  BY DEF BareOps, StartOps, PutOps, Check, Exec, Stop, CopyFile, CopyDir, Refuse, Op, Start, StartIn, Put, PutFile
<1>2. ASSUME NEW f \in {"exit", "err"}, NEW x \in BOOLEAN, NEW i \in BaseImage \cup ToolImage
      PROVE  Create(i, x, "exit") \in CreateOps /\ Wait(x, f) \in WaitOps({"exit", "err"})
  BY DEF CreateOps, WaitOps, Create, Wait
<1>3. ASSUME NEW f \in FailKind, NEW imgs \in Seq(BaseImage \cup ToolImage) \ {<<>>}
      PROVE  Pull(imgs, f) \in PullOps
  BY DEF PullOps, Pull
<1>4. /\ Commit(AppTag(c), "exit") \in CommitOps(c) /\ TagCommitted(AppTag(c), "err") \in TagCommitOps({AppTag(c)})
      /\ Inspect(AppURI(c), "exit") \in InspectOps(c)
  BY DEF CommitOps, TagCommitOps, InspectOps, Commit, TagCommitted, Inspect
<1>5. /\ PullOps \subseteq QuietOps(c) /\ TagCommitOps({AppTag(c)}) \subseteq QuietOps(c)
      /\ InspectOps(c) \subseteq QuietOps(c)
      /\ CreateOps \subseteq QuietOps(c) /\ StartOps \subseteq QuietOps(c) /\ PutOps \subseteq QuietOps(c)
      /\ WaitOps({"exit", "err"}) \subseteq QuietOps(c) /\ CommitOps(c) \subseteq QuietOps(c) /\ BareOps \subseteq QuietOps(c)
  BY QuietParts
<1>6. ASSUME NEW f \in FailKind
      PROVE  /\ {Check(f), Exec(f), Stop(f), CopyFile(f), CopyDir(f), Refuse(f)} \subseteq QuietOps(c)
             /\ {Start(f), StartIn(f), Put(f), PutFile(f)} \subseteq QuietOps(c)
  BY <1>1, <1>5
<1>7. ASSUME NEW f \in {"exit", "err"}, NEW x \in BOOLEAN, NEW i \in BaseImage \cup ToolImage
      PROVE  Create(i, x, "exit") \in QuietOps(c) /\ Wait(x, f) \in QuietOps(c)
  BY <1>2, <1>5
<1>8. ASSUME NEW f \in FailKind, NEW imgs \in Seq(BaseImage \cup ToolImage) \ {<<>>}
      PROVE  Pull(imgs, f) \in QuietOps(c)
  BY <1>3, <1>5
<1> QED
  BY <1>4, <1>5, <1>6, <1>7, <1>8

\* What an operation is, told from its name.
LEMMA KindOf ==
  ASSUME NEW c, NEW o \in AnyOps(c)
  PROVE  /\ o.fail \in FailKind
         /\ o.do = "pull" => o \in PullOps
         /\ o.do = "ensure" => o \in EnsureOps(ToolImage, "tool") \cup EnsureOps({AppTag(c)}, "fresh")
         /\ o.do \in {"build", "buildMulti"} => o \in BuildOps(ToolImage, "tool") \cup BuildOps({AppTag(c)}, "fresh")
         /\ o.do = "tag" => o \in RetagOps(ToolImage \cup {AppTag(c)}) \cup PublishOps(c)
         /\ o.do = "push" => o \in PushOps(ToolImage \cup {AppTag(c), AppURI(c)})
         /\ o.do = "tagCommit" => o \in TagCommitOps({AppTag(c), AppURI(c)})
         /\ o.do = "inspect" => o \in InspectOps(c)
         /\ o.do = "create" => o \in CreateOps
         /\ o.do = "start" => o \in StartOps
         /\ o.do = "put" => o \in PutOps
         /\ o.do = "wait" => o \in WaitOps({"exit", "err", "next", "defer"})
         /\ o.do = "commit" => o \in CommitOps(c)
         /\ o.do = "config" => o \in ConfigOps(c)
BY DEF AnyOps, GithubOps, CommentOps, ReleaseOps, ProdOps, PlainOps, QuietOps, MarkOps, BindOps, ConfigOps, PullOps, EnsureOps, BuildOps, RetagOps,
       PublishOps, PushOps, TagCommitOps, InspectOps, CreateOps, StartOps, PutOps, WaitOps, CommitOps, BareOps, FailKind

\* Only the release has bindings and configurations, only it and github marks,
\* and only production steps offer an image that is no tool.
LEMMA WhoDoes ==
  ASSUME NEW c
  PROVE  /\ \A o \in QuietOps(c) \cup ProdOps(c) : o.do \notin {"mark", "bind", "config", "unconfig"}
         /\ \A o \in PlainOps(c) \cup CommentOps(c) : o.do \notin {"bind", "config", "unconfig"}
         /\ \A o \in PlainOps(c) \cup CommentOps(c) \cup ReleaseOps(c) : \A i \in Image \ ToolImage : ~Offers(o, i)
BY DEF AnyOps, GithubOps, CommentOps, ReleaseOps, ProdOps, PlainOps, QuietOps, MarkOps, BindOps, ConfigOps, PullOps, EnsureOps, BuildOps, RetagOps,
       PublishOps, PushOps, TagCommitOps, InspectOps, CreateOps, StartOps, PutOps, WaitOps, CommitOps, BareOps, FailKind,
       Offers

\* A program the rest of the invariant can start from.
Ready(s, S) ==
  /\ s \in Seq(S) /\ StartsEnd(s) /\ CommitsCreated(s)
  /\ MarkedPlain(s) /\ ConfigsClean(s) /\ ~Binds(s) /\ OffersOnce(s)

LEMMA QuietReady ==
  ASSUME NEW c, NEW s, Piece(s, c)
  PROVE  Ready(s, PlainOps(c))
<1> DEFINE Q == QuietOps(c)
<1>1. s \in Seq(Q) /\ \A k \in 1..Len(s) : s[k] \in Q
  BY ElementOfSeq DEF Piece
<1>2. \A o \in Q : o.do \notin {"mark", "bind", "config", "unconfig"}
  BY WhoDoes
<1>3. \A o \in Q : \A i \in Image \ ToolImage : ~Offers(o, i)
  BY WhoDoes DEF ReleaseOps, PlainOps
<1>4. Q \subseteq PlainOps(c)
  BY DEF PlainOps
<1> HIDE DEF Q
<1>5. MarkedPlain(s) /\ ConfigsClean(s) /\ ~Binds(s)
  BY <1>1, <1>2 DEF MarkedPlain, ConfigsClean, Binds
<1>6. OffersOnce(s)
  BY <1>1, <1>3 DEF OffersOnce
<1>7. s \in Seq(PlainOps(c))
  BY <1>1, <1>4, SeqMonotonic
<1> QED
  BY <1>5, <1>6, <1>7 DEF Piece, Ready

-----------------------------------------------------------------------------
(* The parts the programs are put together from.                           *)

LEMMA SinglePiece ==
  ASSUME NEW c, NEW o \in QuietOps(c), o.do \notin {"commit", "start"}
  PROVE  Piece(<<o>>, c) /\ Len(<<o>>) = 1 /\ <<o>>[1] = o
<1> DEFINE Q == QuietOps(c)
<1>1. o \in Q
  OBVIOUS
<1> HIDE DEF Q
<1>2. <<o>> \in Seq(Q) /\ Len(<<o>>) = 1 /\ <<o>>[1] = o
  BY <1>1
<1>3. \A k \in 1..Len(<<o>>) : <<o>>[k].do # "commit" /\ <<o>>[k].do # "start"
  BY <1>2
<1>4. <<o>> \in Seq(QuietOps(c))
  BY <1>2 DEF Q
<1>5. Piece(<<o>>, c)
  BY <1>3, <1>4, WaitingPiece
<1> QED
  BY <1>2, <1>5

LEMMA EmptyPiece ==
  ASSUME NEW c
  PROVE  Piece(<<>>, c)
BY DEF Piece, StartsEnd, CommitsCreated

LEMMA PullPieces ==
  ASSUME NEW c, NEW f \in FailKind
  PROVE  /\ \A i \in BaseImage \cup ToolImage : Piece(<<Pull(<<i>>, f)>>, c)
         /\ Piece(<<Pull(<<Base("golang"), Base("alpine")>>, f)>>, c)
<1> DEFINE X == BaseImage \cup ToolImage
<1>1. ASSUME NEW imgs \in Seq(X) \ {<<>>}
      PROVE  Piece(<<Pull(imgs, f)>>, c)
  <2>1. Pull(imgs, f) \in QuietOps(c)
    BY QuietElements
  <2>2. Pull(imgs, f).do = "pull"
    BY DEF Pull
  <2> QED
    BY <2>1, <2>2, SinglePiece
<1>2. Base("golang") \in X /\ Base("alpine") \in X
  BY DEF BaseImage
<1> HIDE DEF X
<1>3. <<Base("golang"), Base("alpine")>> \in Seq(X) \ {<<>>}
  BY <1>2
<1>4. ASSUME NEW i \in X PROVE <<i>> \in Seq(X) \ {<<>>}
  OBVIOUS
<1> QED
  BY <1>1, <1>3, <1>4 DEF X

LEMMA PlatformsTyped ==
  ASSUME NEW c
  PROVE  GetPlatforms(c) \in Seq(Platform) /\ Len(GetPlatforms(c)) \in {1, 2}
<1>1. Host \in Platform /\ Alien \in Platform
  BY DEF Platform
<1>2. CASE c.host = "linux"
  BY <1>1, <1>2 DEF GetPlatforms
<1>3. CASE c.host # "linux"
  BY <1>1, <1>3 DEF GetPlatforms
<1> QED
  BY <1>2, <1>3

LEMMA EnsureTyped ==
  ASSUME NEW c, NEW i, NEW body
  PROVE  \E o \in EnsureOps({i}, body) :
           BuildIntermidiateContainer(i, c, body) = <<o>> /\ o.do = "ensure" /\ o.fail = "exit" /\ o.img = i
<1> DEFINE o == [do |-> "ensure", fail |-> "exit", img |-> i, plats |-> GetPlatforms(c), body |-> body,
                 left |-> <<>>, missed |-> FALSE, asked |-> FALSE]
<1>1. GetPlatforms(c) \in Seq(Platform)
  BY PlatformsTyped
<1>2. o \in EnsureOps({i}, body)
  BY <1>1 DEF EnsureOps
<1> QED
  BY <1>2 DEF BuildIntermidiateContainer

LEMMA EnsurePiece ==
  ASSUME NEW c, NEW i \in ToolImage
  PROVE  /\ Piece(BuildIntermidiateContainer(i, c, "tool"), c)
         /\ \A k \in 1..Len(BuildIntermidiateContainer(i, c, "tool")) :
              BuildIntermidiateContainer(i, c, "tool")[k].fail = "exit"
<1>1. PICK o \in EnsureOps({i}, "tool") :
        BuildIntermidiateContainer(i, c, "tool") = <<o>> /\ o.do = "ensure" /\ o.fail = "exit" /\ o.img = i
  BY EnsureTyped
<1>2. o \in EnsureOps(ToolImage, "tool")
  BY DEF EnsureOps
<1>3. o \in QuietOps(c)
  BY <1>2, QuietParts
<1>4. Piece(<<o>>, c)
  BY <1>1, <1>3, SinglePiece
<1> QED
  BY <1>1, <1>4

LEMMA CheckPiece ==
  ASSUME NEW c, NEW f \in FailKind
  PROVE  Piece(<<Check(f)>>, c) /\ <<Check(f)>>[1].fail = f /\ Len(<<Check(f)>>) = 1
<1>1. Check(f) \in QuietOps(c)
  BY QuietElements
<1>2. Check(f).do = "check" /\ Check(f).fail = f
  BY DEF Check, Op
<1> QED
  BY <1>1, <1>2, SinglePiece

\* A container with a script or a file, started and waited for.
LEMMA ScriptPiece ==
  ASSUME NEW c, NEW i \in BaseImage \cup ToolImage, NEW x \in BOOLEAN, NEW p, NEW q, NEW f \in FailKind,
         NEW g \in {"exit", "err"}, NEW m \in BOOLEAN,
         p \in {Put("exit"), PutFile("exit")}, q \in {Start(f), StartIn(f)}
  PROVE  Piece(<<Create(i, x, "exit"), p, q, Wait(m, g)>>, c)
<1> DEFINE Q == QuietOps(c)
           a == Create(i, x, "exit")
           w == Wait(m, g)
<1>1. a \in Q /\ p \in Q /\ q \in Q /\ w \in Q
  BY QuietElements DEF FailKind
<1>2. a.do = "create" /\ p.do = "put" /\ q.do = "start" /\ w.do = "wait"
  BY DEF Create, Put, PutFile, Start, StartIn, Wait
<1> HIDE DEF Q, a, w
<1>3. <<a, p, q, w>> \in Seq(Q)
  BY <1>1
<1>4. \A k \in 1..Len(<<a, p, q, w>>) :
        /\ <<a, p, q, w>>[k].do # "commit"
        /\ <<a, p, q, w>>[k].do = "start" => k + 1 <= Len(<<a, p, q, w>>) /\ <<a, p, q, w>>[k + 1].do = "wait"
  BY <1>2
<1> QED
  BY <1>3, <1>4, WaitingPiece DEF Q, a, w

Careful(s) == \A k \in 1..Len(s) : s[k].fail \in {"exit", "err"}

LEMMA MakingJoined ==
  ASSUME NEW c, NEW s, NEW t, Piece(s, c), Piece(t, c)
  PROVE  /\ Piece(s \o t, c)
         /\ Careful(s) /\ Careful(t) => Careful(s \o t)
         /\ Careful(s) /\ Makes(t) => Makes(s \o t)
         /\ Makes(s) => Makes(s \o t)
<1> DEFINE Q == QuietOps(c)
<1>1. s \in Seq(Q) /\ t \in Seq(Q)
  BY DEF Piece
<1> HIDE DEF Q
<1>2. Joined(s, t, s \o t) /\ Len(s) \in Nat /\ Len(t) \in Nat
  BY <1>1, JoinedConcat
<1>3. Piece(s \o t, c)
  BY PieceJoined
<1>4. Careful(s) /\ Makes(t) => Makes(s \o t)
  BY <1>2, MakesJoined DEF Careful
<1>5. Makes(s) => Makes(s \o t)
  BY <1>2, MakesJoined
<1>6. ASSUME Careful(s), Careful(t), NEW k \in 1..Len(s \o t) PROVE (s \o t)[k].fail \in {"exit", "err"}
  <2>1. CASE k <= Len(s)
    BY <1>2, <1>6, <2>1 DEF Careful, Joined
  <2>2. CASE k > Len(s)
    <3>1. k - Len(s) \in 1..Len(t) /\ (k - Len(s)) + Len(s) = k
      BY <1>2, <2>2 DEF Joined
    <3> QED
      BY <1>2, <1>6, <3>1 DEF Careful, Joined
  <2> QED
    BY <1>2, <2>1, <2>2
<1> QED
  BY <1>3, <1>4, <1>5, <1>6 DEF Careful

\* What is pulled, built and checked before a container compiles.
LEMMA CarefulParts ==
  ASSUME NEW c
  PROVE  /\ \A i \in BaseImage \cup ToolImage : Careful(<<Pull(<<i>>, "err")>>)
         /\ Careful(<<Pull(<<Base("golang"), Base("alpine")>>, "err")>>)
         /\ \A i \in ToolImage : Careful(BuildIntermidiateContainer(i, c, "tool"))
         /\ Careful(<<Check("exit")>>)
<1>1. \A imgs : Careful(<<Pull(imgs, "err")>>)
  BY DEF Careful, Pull
<1>2. Careful(<<Check("exit")>>)
  BY DEF Careful, Check, Op
<1>3. \A i \in ToolImage : Careful(BuildIntermidiateContainer(i, c, "tool"))
  BY EnsurePiece DEF Careful
<1> QED
  BY <1>1, <1>2, <1>3

Creates(s) == \E j \in 1..Len(s) : s[j].do = "create"

LEMMA CreatesJoined ==
  ASSUME NEW c, NEW s, NEW t, Piece(s, c), Piece(t, c), Creates(s) \/ Creates(t)
  PROVE  Creates(s \o t)
<1> DEFINE Q == QuietOps(c)
<1>1. s \in Seq(Q) /\ t \in Seq(Q)
  BY DEF Piece
<1> HIDE DEF Q
<1>2. Joined(s, t, s \o t) /\ Len(s) \in Nat /\ Len(t) \in Nat
  BY <1>1, JoinedConcat
<1>3. CASE Creates(s)
  BY <1>2, <1>3 DEF Creates, Joined
<1>4. CASE Creates(t)
  <2>1. PICK j \in 1..Len(t) : t[j].do = "create"
    BY <1>4 DEF Creates
  <2>2. j + Len(s) \in 1..Len(s \o t) /\ (s \o t)[j + Len(s)].do = "create"
    BY <1>2, <2>1 DEF Joined
  <2> QED
    BY <2>2 DEF Creates
<1> QED
  BY <1>3, <1>4

\* The script, with the secrets or without.
LEMMA ScriptsPiece ==
  ASSUME NEW c
  PROVE  Piece(PutScripts(c), c) /\ Careful(PutScripts(c))
<1> DEFINE p == Put("exit")
           r == PutFile("exit")
<1>1. p \in QuietOps(c) /\ r \in QuietOps(c)
  BY QuietElements DEF FailKind
<1>2. p.do = "put" /\ p.fail = "exit" /\ r.do = "put" /\ r.fail = "exit"
  BY DEF Put, PutFile
<1>3. PutScripts(c) = <<p>> \o IF c.secrets THEN <<r>> ELSE <<>>
  BY DEF PutScripts
<1> HIDE DEF p, r
<1>4. Piece(<<p>>, c) /\ Piece(<<r>>, c) /\ Len(<<p>>) = 1 /\ Len(<<r>>) = 1 /\ <<p>>[1] = p /\ <<r>>[1] = r
  BY <1>1, <1>2, SinglePiece
<1>5. Careful(<<p>>) /\ Careful(<<r>>) /\ Careful(<<>>)
  BY <1>2, <1>4 DEF Careful
<1>6. Piece(<<>>, c)
  BY EmptyPiece
<1>7. \A t \in {<<r>>, <<>>} : Piece(<<p>> \o t, c) /\ Careful(<<p>> \o t)
  BY <1>4, <1>5, <1>6, MakingJoined
<1> QED
  BY <1>3, <1>7

LEMMA BuildingPiece ==
  ASSUME NEW c, NEW i \in BaseImage \cup ToolImage, NEW x \in BOOLEAN
  PROVE  LET s == BuildingContainer(i, c, x, TRUE)
         IN  Piece(s, c) /\ Makes(s) /\ Creates(s)
<1> DEFINE Q == QuietOps(c)
           a == Create(i, x, "exit")
           q == StartIn("exit")
           w == Wait(TRUE, "err")
           p == PutScripts(c)
<1>1. a \in Q /\ q \in Q /\ w \in Q
  BY QuietElements DEF FailKind
<1>2. a.do = "create" /\ q.do = "start" /\ w.do = "wait" /\ a.fail = "exit" /\ q.fail = "exit" /\ w.fail = "err" /\ w.makes
  BY DEF Create, StartIn, Wait
<1>3. BuildingContainer(i, c, x, TRUE) = (<<a>> \o p) \o <<q, w>>
  BY DEF BuildingContainer
<1>4. Piece(p, c) /\ Careful(p)
  BY ScriptsPiece
<1>5. Piece(<<a>>, c) /\ Len(<<a>>) = 1 /\ <<a>>[1] = a
  BY <1>1, <1>2, SinglePiece
<1> HIDE DEF Q, a, q, w, p
<1>6. <<q, w>> \in Seq(Q) /\ Len(<<q, w>>) = 2 /\ <<q, w>>[1] = q /\ <<q, w>>[2] = w
  BY <1>1
<1>7. \A k \in 1..Len(<<q, w>>) :
        /\ <<q, w>>[k].do # "commit"
        /\ <<q, w>>[k].do = "start" => k + 1 <= Len(<<q, w>>) /\ <<q, w>>[k + 1].do = "wait"
  BY <1>2
<1>8. Piece(<<q, w>>, c)
  BY <1>6, <1>7, WaitingPiece DEF Q
<1>9. Makes(<<q, w>>)
  <2>1. \A m \in 1..2 : <<q, w>>[m].fail \in {"exit", "err"}
    BY <1>2
  <2> QED
    BY <1>2, <1>6, <2>1 DEF Makes
<1>10. Careful(<<a>>) /\ Creates(<<a>>)
  BY <1>2, <1>5 DEF Careful, Creates
<1>11. Piece(<<a>> \o p, c) /\ Careful(<<a>> \o p)
  BY <1>4, <1>5, <1>10, MakingJoined
<1>12. Creates(<<a>> \o p)
  BY <1>4, <1>5, <1>10, CreatesJoined
<1>13. Piece((<<a>> \o p) \o <<q, w>>, c) /\ Makes((<<a>> \o p) \o <<q, w>>)
  BY <1>8, <1>9, <1>11, MakingJoined
<1>14. Creates((<<a>> \o p) \o <<q, w>>)
  BY <1>8, <1>11, <1>12, CreatesJoined
<1> QED
  BY <1>3, <1>13, <1>14

LEMMA KeepPiece ==
  ASSUME NEW c, NEW s, Piece(s, c), Makes(s), Creates(s)
  PROVE  Piece(s \o KeepBuilder(c), c) /\ Makes(s \o KeepBuilder(c))
<1> DEFINE Q == QuietOps(c)
           a == Commit(AppTag(c), "exit")
           z == TagCommitted(AppTag(c), "err")
           t == KeepBuilder(c)
<1>1. a \in Q /\ z \in Q
  BY QuietElements
<1>2. a.do = "commit" /\ z.do = "tagCommit"
  BY DEF Commit, TagCommitted
<1>3. t \in {<<a, z>>, <<>>}
  BY DEF KeepBuilder
<1>4. s \in Seq(Q)
  BY DEF Piece
<1> HIDE DEF Q, a, z, t
<1>5. t \in Seq(Q) /\ \A k \in 1..Len(t) : t[k].do \in {"commit", "tagCommit"}
  <2>1. CASE t = <<a, z>>
    <3>1. <<a, z>> \in Seq(Q) /\ Len(<<a, z>>) = 2 /\ <<a, z>>[1] = a /\ <<a, z>>[2] = z
      BY <1>1
    <3> QED
      BY <1>2, <2>1, <3>1
  <2>2. CASE t = <<>>
    BY <2>2
  <2> QED
    BY <1>3, <2>1, <2>2
<1>6. s \o t \in Seq(Q) /\ Joined(s, t, s \o t) /\ Len(s) \in Nat /\ Len(t) \in Nat
  BY <1>4, <1>5, JoinedConcat
<1>7. StartsEnd(t)
  BY <1>5 DEF StartsEnd
<1>8. StartsEnd(s \o t)
  BY <1>6, <1>7, StartsEndJoined DEF Piece
<1>9. CommitsCreated(s \o t)
  BY <1>6, CommitsCreatedJoined DEF Piece, Creates
<1>10. Makes(s \o t)
  BY <1>6, MakesJoined
<1> QED
  BY <1>6, <1>8, <1>9, <1>10 DEF Piece, Q, t

\* Pull, build the tool image, check, and compile.
LEMMA CompilePiece ==
  ASSUME NEW c, NEW p, NEW e, NEW m, Piece(p, c), Careful(p), Piece(e, c), Careful(e), Piece(m, c), Makes(m)
  PROVE  Piece(p \o e \o m, c) /\ Makes(p \o e \o m)
BY MakingJoined

LEMMA BuildPiece ==
  ASSUME NEW c, NEW i \in BaseImage \cup ToolImage, NEW x \in BOOLEAN
  PROVE  LET s == <<Check("exit")>> \o BuildingContainer(i, c, x, TRUE)
         IN  /\ Piece(s, c) /\ Makes(s)
             /\ Piece(s \o KeepBuilder(c), c) /\ Makes(s \o KeepBuilder(c))
<1> DEFINE b == BuildingContainer(i, c, x, TRUE)
           h == <<Check("exit")>>
<1>1. Piece(b, c) /\ Makes(b) /\ Creates(b)
  BY BuildingPiece
<1>2. Piece(h, c) /\ Careful(h)
  BY CheckPiece, CarefulParts DEF FailKind
<1> HIDE DEF b, h
<1>3. Piece(h \o b, c) /\ Makes(h \o b) /\ Creates(h \o b)
  BY <1>1, <1>2, MakingJoined, CreatesJoined
<1>4. Piece((h \o b) \o KeepBuilder(c), c) /\ Makes((h \o b) \o KeepBuilder(c))
  BY <1>3, KeepPiece
<1> QED
  BY <1>3, <1>4 DEF b, h

LEMMA StepImages ==
  /\ {Base("golang"), Base("alpine"), Base("python"), Base("java"), Base("trivy"), Base("packer"), Base("pulumi"),
      Base("copier"), Base("goreleaser")} \subseteq BaseImage
  /\ {Tool("go"), Tool("go-debian"), Tool("go-cgo"), Tool("zig"), Tool("python"), Tool("maven"), Tool("protobuf"),
      Tool("packer"), Tool("pulumi"), Tool("gcloud"), Tool("goreleaser-zig"), Tool("gh")} \subseteq ToolImage
BY DEF BaseImage, ToolImage

\* The steps that compile.
LEMMA CompilePrograms ==
  ASSUME NEW c
  PROVE  /\ Piece(GoRun(c), c) /\ Makes(GoRun(c))
         /\ Piece(DebianRun(c), c) /\ Makes(DebianRun(c))
         /\ Piece(CGORun(c), c) /\ Piece(MavenRun(c), c)
         /\ Piece(ZigRun(c), c) /\ Makes(ZigRun(c))
         /\ Piece(PythonRun(c), c) /\ Makes(PythonRun(c))
<1>1. \A i \in ToolImage :
        Piece(BuildIntermidiateContainer(i, c, "tool"), c) /\ Careful(BuildIntermidiateContainer(i, c, "tool"))
  BY EnsurePiece, CarefulParts
<1>2. /\ Piece(<<Pull(<<Base("golang"), Base("alpine")>>, "err")>>, c)
      /\ Careful(<<Pull(<<Base("golang"), Base("alpine")>>, "err")>>)
      /\ \A i \in BaseImage : Piece(<<Pull(<<i>>, "err")>>, c) /\ Careful(<<Pull(<<i>>, "err")>>)
  BY PullPieces, CarefulParts DEF FailKind
<1>3. \A i \in ToolImage, x \in BOOLEAN :
        LET s == <<Check("exit")>> \o BuildingContainer(i, c, x, TRUE)
        IN  /\ Piece(s, c) /\ Makes(s)
            /\ Piece(s \o KeepBuilder(c), c) /\ Makes(s \o KeepBuilder(c))
  BY BuildPiece
<1>4. Piece(GoRun(c), c) /\ Makes(GoRun(c))
  BY <1>1, <1>2, <1>3, StepImages, CompilePiece DEF GoRun, GoPull, BuildGoImage, GoBuild
<1>5. Piece(DebianRun(c), c) /\ Makes(DebianRun(c))
  BY <1>1, <1>2, <1>3, StepImages, CompilePiece DEF DebianRun, DebianPull, BuildDebianImage, DebianBuild
<1>6. Piece(CGORun(c), c)
  BY <1>1, <1>2, <1>3, StepImages, CompilePiece DEF CGORun, CGOPull, BuildCGOImage, CGOBuild
<1>7. Piece(MavenRun(c), c)
  BY <1>1, <1>2, <1>3, StepImages, CompilePiece DEF MavenRun, BuildMavenImage, MavenBuild
<1>8. Piece(ZigRun(c), c) /\ Makes(ZigRun(c))
  BY <1>1, <1>2, <1>3, StepImages, CompilePiece DEF ZigRun, BuildZigImage, ZigBuild
<1>9. Piece(PythonRun(c), c) /\ Makes(PythonRun(c))
  BY <1>1, <1>2, <1>3, StepImages, CompilePiece DEF PythonRun, BuildPythonImage, PythonBuild
<1> QED
  BY <1>4, <1>5, <1>6, <1>7, <1>8, <1>9

\* A container that is checked for first and waited for in the end.
LEMMA CheckedScriptPiece ==
  ASSUME NEW c, NEW i \in BaseImage \cup ToolImage, NEW f \in FailKind, NEW g \in {"exit", "err"},
         NEW p, NEW q, NEW h \in FailKind, NEW j \in FailKind, p \in {Put(j), PutFile(j)}, q \in {Start(f), StartIn(f)}
  PROVE  Piece(<<Check(h), Create(i, FALSE, "exit"), p, q, Wait(FALSE, g)>>, c)
<1> DEFINE Q == QuietOps(c)
           z == Check(h)
           a == Create(i, FALSE, "exit")
           w == Wait(FALSE, g)
           s == <<z, a, p, q, w>>
<1>1. z \in Q /\ a \in Q /\ p \in Q /\ q \in Q /\ w \in Q
  <2>1. z \in Q /\ a \in Q /\ w \in Q
    BY QuietElements DEF FailKind
  <2>2. Put(j) \in Q /\ PutFile(j) \in Q /\ Start(f) \in Q /\ StartIn(f) \in Q
    BY QuietElements
  <2> QED
    BY <2>1, <2>2
<1>2. z.do = "check" /\ a.do = "create" /\ p.do = "put" /\ q.do = "start" /\ w.do = "wait"
  BY DEF Check, Op, Create, Put, PutFile, Start, StartIn, Wait
<1> HIDE DEF Q, z, a, w
<1>3. s \in Seq(Q)
  BY <1>1
<1>4. \A k \in 1..Len(s) : s[k].do # "commit" /\ (s[k].do = "start" => k + 1 <= Len(s) /\ s[k + 1].do = "wait")
  BY <1>2
<1> HIDE DEF s
<1>5. Piece(s, c)
  BY <1>3, <1>4, WaitingPiece DEF Q
<1> QED
  BY <1>5 DEF s, z, a, w

LEMMA CopierPiece ==
  ASSUME NEW c
  PROVE  Piece(CopierExecute, c)
<1> DEFINE Q == QuietOps(c)
           z == Check("err")
           a == Create(Base("copier"), FALSE, "exit")
           q == StartIn("err")
           w == Wait(FALSE, "err")
           s == <<z, a, q, w>>
<1>1. z \in Q /\ a \in Q /\ q \in Q /\ w \in Q
  BY QuietElements, StepImages DEF FailKind
<1>2. z.do = "check" /\ a.do = "create" /\ q.do = "start" /\ w.do = "wait"
  BY DEF Check, Op, Create, StartIn, Wait
<1> HIDE DEF Q, z, a, q, w
<1>3. s \in Seq(Q)
  BY <1>1
<1>4. \A k \in 1..Len(s) : s[k].do # "commit" /\ (s[k].do = "start" => k + 1 <= Len(s) /\ s[k + 1].do = "wait")
  BY <1>2
<1> HIDE DEF s
<1>5. Piece(s, c)
  BY <1>3, <1>4, WaitingPiece DEF Q
<1> QED
  BY <1>5 DEF s, z, a, q, w, CopierExecute

LEMMA TrivyPieces ==
  ASSUME NEW c
  PROVE  /\ Piece(<<Check("exit"), Create(Base("trivy"), FALSE, "exit")>>, c)
         /\ Piece(<<Inspect(AppURI(c), "exit")>>, c)
         /\ Piece(<<Put("exit"), Start("exit"), Wait(FALSE, "exit")>>, c)
<1> DEFINE Q == QuietOps(c)
           z == Check("exit")
           a == Create(Base("trivy"), FALSE, "exit")
           i == Inspect(AppURI(c), "exit")
           p == Put("exit")
           q == Start("exit")
           w == Wait(FALSE, "exit")
<1>1. z \in Q /\ a \in Q /\ i \in Q /\ p \in Q /\ q \in Q /\ w \in Q
  BY QuietElements, StepImages DEF FailKind
<1>2. /\ z.do = "check" /\ a.do = "create" /\ i.do = "inspect" /\ p.do = "put" /\ q.do = "start" /\ w.do = "wait"
  BY DEF Check, Op, Create, Inspect, Put, Start, Wait
<1>3. Piece(<<i>>, c)
  BY <1>1, <1>2, SinglePiece
<1> HIDE DEF Q, z, a, i, p, q, w
<1>4. Piece(<<z, a>>, c)
  <2>1. <<z, a>> \in Seq(Q)
    BY <1>1
  <2>2. \A k \in 1..Len(<<z, a>>) : <<z, a>>[k].do # "commit" /\ <<z, a>>[k].do # "start"
    BY <1>2
  <2> QED
    BY <2>1, <2>2, WaitingPiece DEF Q
<1>5. Piece(<<p, q, w>>, c)
  <2> DEFINE s == <<p, q, w>>
  <2>1. s \in Seq(Q)
    BY <1>1
  <2>2. \A k \in 1..Len(s) : s[k].do # "commit" /\ (s[k].do = "start" => k + 1 <= Len(s) /\ s[k + 1].do = "wait")
    BY <1>2
  <2> HIDE DEF s
  <2>3. Piece(s, c)
    BY <2>1, <2>2, WaitingPiece DEF Q
  <2> QED
    BY <2>3 DEF s
<1> QED
  BY <1>3, <1>4, <1>5 DEF z, a, i, p, q, w

\* The steps around the compilation that write nothing but tool images.
LEMMA ToolPrograms ==
  ASSUME NEW c, NEW r
  PROVE  /\ Piece(GCloudRun(c), c) /\ Piece(CopierRun(c), c) /\ Piece(ProtobufRun(c), c) /\ Piece(PackerRun(c), c)
         /\ Piece(GoLint(c), c) /\ Piece(TrivyRun(c, r), c) /\ Piece(PulumiRun(c), c)
<1>1. \A i \in ToolImage : Piece(BuildIntermidiateContainer(i, c, "tool"), c)
  BY EnsurePiece
<1>2. \A f \in FailKind, i \in BaseImage \cup ToolImage : Piece(<<Pull(<<i>>, f)>>, c)
  BY PullPieces
<1>3. \A i \in ToolImage : Piece(ScriptContainer(i, "exit"), c)
  BY ScriptPiece DEF ScriptContainer, FailKind
<1>4. Piece(<<>>, c) /\ Piece(<<Check("exit")>>, c)
  BY EmptyPiece, CheckPiece DEF FailKind
<1>5. Piece(GCloudRun(c), c)
  <2>1. Piece(GCloudAuth, c)
    BY CheckedScriptPiece, StepImages DEF GCloudAuth, FailKind
  <2> QED
    BY <1>1, <2>1, StepImages, PieceJoined DEF GCloudRun, BuildGCloudImage
<1>6. Piece(CopierRun(c), c)
  BY <1>2, CopierPiece, StepImages, PieceJoined DEF CopierRun, FailKind
<1>7. Piece(ProtobufRun(c), c)
  <2>1. Piece(ProtobufGenerate, c)
    BY ScriptPiece, StepImages DEF ProtobufGenerate, FailKind
  <2> QED
    BY <1>1, <1>2, <2>1, StepImages, PieceJoined DEF ProtobufRun, FailKind
<1>8. Piece(PackerRun(c), c)
  <2>1. Piece(PackerRelease(c), c)
    BY <1>3, <1>4, StepImages DEF PackerRelease
  <2> QED
    BY <1>1, <1>2, <2>1, StepImages, PieceJoined DEF PackerRun, BuildPackerImage, FailKind
<1>9. Piece(GoLint(c), c)
  BY CheckedScriptPiece, StepImages DEF GoLint, FailKind
<1>10. Piece(TrivyRun(c, r), c)
  <2>1. Piece(TrivyScan(c, r), c)
    BY <1>4, TrivyPieces, PieceJoined DEF TrivyScan
  <2>2. Piece(<<Pull(<<Base("trivy")>>, "exit")>>, c)
    BY <1>2, StepImages DEF FailKind
  <2> QED
    BY <1>4, <2>1, <2>2, PieceJoined DEF TrivyRun
<1>11. Piece(PulumiRun(c), c)
  <2>1. Piece(PulumiRelease, c)
    BY <1>3, <1>4, StepImages, PieceJoined DEF PulumiRelease
  <2> QED
    BY <1>1, <1>2, <2>1, StepImages, PieceJoined DEF PulumiRun, BuildPulumiImage, FailKind
<1> QED
  BY <1>5, <1>6, <1>7, <1>8, <1>9, <1>10, <1>11

\* A start with a wait right behind it.
LEMMA WaitedStartsEnd ==
  ASSUME NEW s, Len(s) \in Nat,
         \A k \in 1..Len(s) : s[k].do = "start" => k + 1 <= Len(s) /\ s[k + 1].do = "wait"
  PROVE  StartsEnd(s)
<1> SUFFICES ASSUME NEW k \in 1..Len(s), s[k].do = "start" PROVE Ends(s, k)
  BY DEF StartsEnd
<1>1. k + 1 \in (k + 1)..Len(s) /\ s[k + 1].do = "wait" /\ (k + 1)..((k + 1) - 1) = {}
  OBVIOUS
<1> QED
  BY <1>1 DEF Ends

LEMMA ReleaseOffers ==
  ASSUME NEW c, NEW S \in {PlainOps(c), CommentOps(c), ReleaseOps(c)}, NEW s \in Seq(S)
  PROVE  OffersOnce(s)
<1>1. \A o \in S : \A i \in Image \ ToolImage : ~Offers(o, i)
  BY WhoDoes
<1>2. \A k \in 1..Len(s) : s[k] \in S
  BY ElementOfSeq
<1> QED
  BY <1>1, <1>2 DEF OffersOnce

\* Quiet operations may precede any program.
LEMMA QuietBefore ==
  ASSUME NEW c, NEW S \in {PlainOps(c), CommentOps(c), ReleaseOps(c)}, NEW s, NEW t, Piece(s, c), Ready(t, S)
  PROVE  Ready(s \o t, S)
<1> DEFINE Q == QuietOps(c)
           u == s \o t
<1>1. \A o \in Q : o.do \notin {"mark", "bind", "config", "unconfig"}
  BY WhoDoes
<1>2. Q \subseteq S
  BY DEF PlainOps, CommentOps, ReleaseOps
<1>3. s \in Seq(Q) /\ t \in Seq(S)
  BY DEF Piece, Ready
<1> HIDE DEF Q
<1>4. s \in Seq(S) /\ \A k \in 1..Len(s) : s[k].do \notin {"mark", "bind", "config", "unconfig"}
  <2>1. s \in Seq(S)
    BY <1>2, <1>3, SeqMonotonic
  <2>2. \A k \in 1..Len(s) : s[k] \in Q
    BY <1>3, ElementOfSeq
  <2> QED
    BY <1>1, <2>1, <2>2
<1>5. u \in Seq(S) /\ Joined(s, t, u) /\ Len(s) \in Nat /\ Len(t) \in Nat
  BY <1>3, <1>4, JoinedConcat
<1> HIDE DEF u
<1>6. StartsEnd(u)
  BY <1>5, StartsEndJoined DEF Piece, Ready
<1>7. CommitsCreated(u)
  BY <1>5, CommitsCreatedJoined DEF Piece, Ready
<1>8. MarkedPlain(u)
  BY <1>4, <1>5, MarkedPlainJoined DEF Ready
<1>9. ConfigsClean(u)
  BY <1>4, <1>5, ConfigsCleanJoined DEF Ready
<1>10. ~Binds(u)
  BY <1>4, <1>5, BindsJoined DEF Ready
<1>11. OffersOnce(u)
  BY <1>5, ReleaseOffers
<1> QED
  BY <1>5, <1>6, <1>7, <1>8, <1>9, <1>10, <1>11 DEF Ready, u

LEMMA PlainReady ==
  ASSUME NEW c, NEW S \in {PlainOps(c), CommentOps(c)}, NEW s \in Seq(S),
         StartsEnd(s), CommitsCreated(s), MarkedPlain(s)
  PROVE  Ready(s, S)
<1>1. \A o \in S : o.do \notin {"bind", "config", "unconfig"}
  BY WhoDoes
<1>2. \A k \in 1..Len(s) : s[k] \in S
  BY ElementOfSeq
<1>3. ConfigsClean(s) /\ ~Binds(s)
  BY <1>1, <1>2 DEF ConfigsClean, Binds
<1>4. OffersOnce(s)
  BY ReleaseOffers
<1> QED
  BY <1>3, <1>4 DEF Ready

LEMMA ReadyWider ==
  ASSUME NEW s, NEW S, NEW T, Ready(s, S), S \subseteq T
  PROVE  Ready(s, T)
BY SeqMonotonic DEF Ready

LEMMA CommentReady ==
  ASSUME NEW c
  PROVE  /\ Ready(GithubComment, CommentOps(c))
         /\ \A k \in 1..Len(GithubComment) : GithubComment[k].do # "commit"
<1> DEFINE Ops == CommentOps(c)
           a == Check("exit")
           d == Check("next")
           e == Create(Tool("gh"), FALSE, "exit")
           f == Put("exit")
           g == StartIn("next")
           h == Wait(FALSE, "next")
           m == Mark
           s == <<a, d, e, f, g, h, m>>
<1>1. a \in Ops /\ d \in Ops /\ e \in Ops /\ f \in Ops /\ g \in Ops
  BY QuietElements, StepImages DEF FailKind, PlainOps, CommentOps
<1>2. m \in Ops /\ h \in Ops
  BY DEF PlainOps, CommentOps, MarkOps, WaitOps, Mark, Wait, Op, FailKind
<1>3. /\ a.do = "check" /\ d.do = "check" /\ e.do = "create" /\ f.do = "put" /\ g.do = "start" /\ h.do = "wait"
      /\ m.do = "mark"
  BY DEF Check, Op, Create, Put, StartIn, Wait, Mark
<1> HIDE DEF Ops, a, d, e, f, g, h, m
<1>4. /\ Len(s) = 7 /\ s[1] = a /\ s[2] = d /\ s[3] = e /\ s[4] = f /\ s[5] = g /\ s[6] = h /\ s[7] = m
      /\ s \in Seq(Ops)
  BY <1>1, <1>2
<1> HIDE DEF s
<1>5. \A k \in 1..7 : k \in {1, 2, 3, 4, 5, 6, 7}
  OBVIOUS
<1>6. \A k \in 1..Len(s) : s[k].do \notin {"commit", "bind"} /\ (s[k].do = "start" => k = 5) /\ (s[k].do = "mark" => k = 7)
  BY <1>3, <1>4, <1>5
<1>7. StartsEnd(s)
  <2>1. \A k \in 1..Len(s) : s[k].do = "start" => k + 1 <= Len(s) /\ s[k + 1].do = "wait"
    <3> SUFFICES ASSUME NEW k \in 1..Len(s), s[k].do = "start" PROVE k + 1 <= Len(s) /\ s[k + 1].do = "wait"
      OBVIOUS
    <3>1. k = 5
      BY <1>6
    <3> QED
      BY <1>3, <1>4, <3>1
  <2>2. Len(s) \in Nat
    BY <1>4
  <2> QED
    BY ONLY <2>1, <2>2, WaitedStartsEnd
<1>8. CommitsCreated(s) /\ MarkedPlain(s)
  BY <1>4, <1>6 DEF CommitsCreated, MarkedPlain
<1>9. Ready(s, Ops)
  BY <1>4, <1>7, <1>8, PlainReady DEF Ops
<1> QED
  BY <1>6, <1>9 DEF s, a, d, e, f, g, h, m, GithubComment, Ops

LEMMA GithubReady ==
  ASSUME NEW c
  PROVE  Ready(GithubRun(c), GithubOps(c))
<1> DEFINE Ops == GithubOps(c)
           e == BuildGithubImage(c)
           p == IF c.pr THEN GithubComment ELSE <<>>
           q == IF c.commit THEN GithubCommit ELSE <<>>
<1>1. Piece(e, c)
  BY EnsurePiece, StepImages DEF BuildGithubImage
<1>2. Piece(q, c) /\ \A k \in 1..Len(q) : q[k].do \notin {"commit", "mark", "bind"}
  <2>1. Piece(<<>>, c)
    BY EmptyPiece
  <2>2. Piece(GithubCommit, c)
    BY CheckedScriptPiece, StepImages DEF GithubCommit, FailKind
  <2>3. \A k \in 1..Len(GithubCommit) : GithubCommit[k].do \in {"check", "create", "put", "start", "wait"}
    BY DEF GithubCommit, Check, Op, Create, PutFile, StartIn, Wait
  <2> QED
    BY <2>1, <2>2, <2>3
<1>0. PlainOps(c) \subseteq Ops /\ Ops \in {PlainOps(c), CommentOps(c)}
  BY DEF GithubOps, CommentOps
<1>6. ASSUME NEW s, Piece(s, c) PROVE Ready(s, Ops)
  BY <1>0, <1>6, QuietReady, ReadyWider
<1>3. Ready(p, Ops) /\ \A k \in 1..Len(p) : p[k].do # "commit"
  <2>1. Ready(<<>>, Ops)
    BY <1>6, EmptyPiece
  <2>2. CASE c.pr
    BY <2>2, CommentReady DEF GithubOps
  <2>3. CASE ~c.pr
    BY <2>1, <2>3
  <2> QED
    BY <2>2, <2>3
<1>4. CASE ~c.pr /\ ~c.commit
  BY <1>4, <1>6, EmptyPiece DEF GithubRun
<1>5. CASE c.pr \/ c.commit
  <2>1. GithubRun(c) = e \o p \o q
    BY <1>5 DEF GithubRun
  <2>2. Ready(e \o p, Ops)
    BY <1>0, <1>1, <1>3, QuietBefore
  <2>3. q \in Seq(Ops) /\ StartsEnd(q) /\ CommitsCreated(q)
    BY <1>2, <1>6 DEF Ready
  <2> DEFINE s == e \o p
             u == s \o q
  <2> HIDE DEF e, p, q, s, Ops
  <2>4. s \in Seq(Ops)
    BY <2>2 DEF Ready, s
  <2>5. u \in Seq(Ops) /\ Joined(s, q, u) /\ Len(s) \in Nat /\ Len(q) \in Nat
    BY <2>3, <2>4, JoinedConcat
  <2> HIDE DEF u
  <2>6. StartsEnd(u) /\ CommitsCreated(u)
    BY <2>2, <2>3, <2>5, StartsEndJoined, CommitsCreatedJoined DEF Ready, s
  <2>7. MarkedPlain(u)
    <3>1. MarkedPlain(s)
      BY <2>2 DEF Ready, s
    <3>2. ASSUME NEW k \in 1..Len(u), NEW l \in 1..Len(u), k < l, u[k].do = "mark"
          PROVE  u[l].do \notin {"bind", "commit", "mark"}
      <4>1. Len(u) = Len(s) + Len(q)
        BY <2>5 DEF Joined
      <4>2. CASE l <= Len(s)
        <5>1. k \in 1..Len(s) /\ l \in 1..Len(s)
          BY <2>5, <3>2, <4>2
        <5>2. u[k] = s[k] /\ u[l] = s[l]
          BY <2>5, <5>1 DEF Joined
        <5> QED
          BY <3>1, <3>2, <5>1, <5>2 DEF MarkedPlain
      <4>3. CASE l > Len(s)
        <5>1. l - Len(s) \in 1..Len(q) /\ (l - Len(s)) + Len(s) = l
          BY <2>5, <4>1, <4>3
        <5>2. u[l] = q[l - Len(s)]
          BY <2>5, <5>1 DEF Joined
        <5> QED
          BY <1>2, <5>1, <5>2
      <4> QED
        BY <2>5, <4>2, <4>3
    <3> QED
      BY <3>2 DEF MarkedPlain
  <2>8. Ready(u, Ops)
    BY <1>0, <2>5, <2>6, <2>7, PlainReady
  <2> QED
    BY <2>1, <2>8 DEF u, s, Ops
<1> QED
  BY <1>4, <1>5

\* A release with the default configuration: written first, removed in the end.
LEMMA DefaultReleaseReady ==
  ASSUME NEW c, NEW i \in BaseImage \cup ToolImage, NEW docker \in BOOLEAN
  PROVE  Ready(<<Configure(c)>>
               \o (IF docker THEN <<Bind("exit")>> ELSE <<>>)
               \o <<Create(i, FALSE, "exit"), Bind("defer"), Start("defer"), Wait(FALSE, "defer"), Mark, Unconfigure>>,
               ReleaseOps(c))
<1> DEFINE R == ReleaseOps(c)
           x == Configure(c)
           y == Bind("exit")
           a == Create(i, FALSE, "exit")
           d == Bind("defer")
           e == Start("defer")
           f == Wait(FALSE, "defer")
           m == Mark
           z == Unconfigure
           t == IF docker THEN <<y>> ELSE <<>>
           v == <<a, d, e, f, m, z>>
           n == IF docker THEN 1 ELSE 0
<1>1. x \in R /\ y \in R /\ a \in R /\ d \in R /\ e \in R /\ f \in R /\ m \in R /\ z \in R
  <2>1. a \in QuietOps(c) /\ e \in QuietOps(c)
    BY QuietElements DEF FailKind
  <2>2. /\ QuietOps(c) \subseteq R /\ MarkOps \subseteq R /\ BindOps \subseteq R /\ ConfigOps(c) \subseteq R
        /\ WaitOps({"defer"}) \subseteq R
    BY DEF ReleaseOps, PlainOps
  <2>3. /\ x \in ConfigOps(c) /\ y \in BindOps /\ d \in BindOps /\ z \in BindOps /\ m \in MarkOps
        /\ f \in WaitOps({"defer"})
    BY DEF ConfigOps, BindOps, MarkOps, WaitOps, Configure, Bind, Unconfigure, Mark, Wait, Op, FailKind
  <2> QED
    BY <2>1, <2>2, <2>3
<1>2. /\ x.do = "config" /\ y.do = "bind" /\ a.do = "create" /\ d.do = "bind" /\ e.do = "start" /\ f.do = "wait"
      /\ m.do = "mark" /\ z.do = "unconfig"
      /\ y.fail = "exit" /\ a.fail = "exit" /\ d.fail = "defer" /\ e.fail = "defer" /\ f.fail = "defer"
  BY DEF Configure, Bind, Unconfigure, Mark, Op, Create, Start, Wait
<1> HIDE DEF R, x, y, a, d, e, f, m, z
<1> DEFINE s == <<x>> \o t \o v
<1>3. <<x>> \in Seq(R) /\ Len(<<x>>) = 1 /\ <<x>>[1] = x
  BY <1>1
<1>4. t \in Seq(R) /\ Len(t) = n /\ n \in {0, 1} /\ (n = 1 => t[1] = y)
  <2>1. CASE docker
    BY <1>1, <2>1
  <2>2. CASE ~docker
    BY <2>2
  <2> QED
    BY <2>1, <2>2
<1>5. /\ v \in Seq(R) /\ Len(v) = 6 /\ v[1] = a /\ v[2] = d /\ v[3] = e /\ v[4] = f /\ v[5] = m /\ v[6] = z
  BY <1>1
<1> HIDE DEF n, t, v
<1>6. <<x>> \o t \in Seq(R) /\ Joined(<<x>>, t, <<x>> \o t)
  BY <1>3, <1>4, JoinedConcat
<1>7. s \in Seq(R) /\ Joined(<<x>> \o t, v, s)
  BY <1>5, <1>6, JoinedConcat
<1>8. /\ Len(s) = n + 7 /\ s[1] = x /\ (n = 1 => s[2] = y)
      /\ s[n + 2] = a /\ s[n + 3] = d /\ s[n + 4] = e /\ s[n + 5] = f /\ s[n + 6] = m /\ s[n + 7] = z
  <2>1. Len(<<x>> \o t) = n + 1 /\ (<<x>> \o t)[1] = x /\ (n = 1 => (<<x>> \o t)[2] = y)
    BY <1>3, <1>4, <1>6 DEF Joined
  <2>2. Len(s) = n + 7 /\ s[1] = x /\ (n = 1 => s[2] = y)
    BY <1>4, <1>5, <1>7, <2>1 DEF Joined
  <2> DEFINE At6(k) == s[k + (n + 1)] = v[k]
  <2>3. \A k \in 1..6 : At6(k)
    BY <1>5, <1>7, <2>1 DEF Joined
  <2> HIDE DEF At6
  <2>6. 1 \in 1..6 /\ 2 \in 1..6 /\ 3 \in 1..6 /\ 4 \in 1..6 /\ 5 \in 1..6 /\ 6 \in 1..6
    OBVIOUS
  <2>7. At6(1) /\ At6(2) /\ At6(3) /\ At6(4) /\ At6(5) /\ At6(6)
    BY ONLY <2>3, <2>6
  <2>4. /\ s[1 + (n + 1)] = a /\ s[2 + (n + 1)] = d /\ s[3 + (n + 1)] = e /\ s[4 + (n + 1)] = f /\ s[5 + (n + 1)] = m
        /\ s[6 + (n + 1)] = z
    BY <1>5, <2>7 DEF At6
  <2>5. /\ 1 + (n + 1) = n + 2 /\ 2 + (n + 1) = n + 3 /\ 3 + (n + 1) = n + 4 /\ 4 + (n + 1) = n + 5
        /\ 5 + (n + 1) = n + 6 /\ 6 + (n + 1) = n + 7
    BY <1>4
  <2> QED
    BY <2>2, <2>4, <2>5
<1> HIDE DEF s
<1>9. \A k \in 1..Len(s) : k = 1 \/ (n = 1 /\ k = 2) \/ k = n + 2 \/ k = n + 3 \/ k = n + 4 \/ k = n + 5 \/ k = n + 6 \/ k = n + 7
  BY <1>4, <1>8
<1>10. \A k \in 1..Len(s) : /\ s[k].do # "commit"
                            /\ s[k].do = "start" => k = n + 4
                            /\ s[k].do = "mark" => k = n + 6
                            /\ s[k].do = "config" => k = 1
                            /\ s[k].do = "bind" => k # 1
  BY <1>2, <1>4, <1>8, <1>9
<1>11. StartsEnd(s)
  <2>1. \A k \in 1..Len(s) : s[k].do = "start" => k + 1 <= Len(s) /\ s[k + 1].do = "wait"
    <3> SUFFICES ASSUME NEW k \in 1..Len(s), s[k].do = "start" PROVE k + 1 <= Len(s) /\ s[k + 1].do = "wait"
      OBVIOUS
    <3>1. k + 1 = n + 5
      BY <1>4, <1>10
    <3> QED
      BY <1>2, <1>4, <1>8, <3>1
  <2>2. Len(s) \in Nat
    BY <1>4, <1>8
  <2> QED
    BY ONLY <2>1, <2>2, WaitedStartsEnd
<1>12. CommitsCreated(s)
  BY <1>10 DEF CommitsCreated
<1>13. MarkedPlain(s)
  <2> SUFFICES ASSUME NEW k \in 1..Len(s), NEW l \in 1..Len(s), k < l, s[k].do = "mark"
               PROVE  s[l].do \notin {"bind", "commit", "mark"}
    BY DEF MarkedPlain
  <2>1. k = n + 6 /\ l = n + 7
    BY <1>4, <1>8, <1>10
  <2> QED
    BY <1>2, <1>8, <2>1
<1>14. ConfigsClean(s)
  <2> SUFFICES Cleans(s, 1)
    BY <1>10 DEF ConfigsClean
  <2> DEFINE l == n + 7
  <2>1. l \in (1 + 1)..Len(s) /\ s[l].do = "unconfig"
    BY <1>2, <1>4, <1>8
  <2>2. ASSUME NEW k \in (1 + 1)..(l - 1)
        PROVE  /\ s[k].do \notin {"config", "ensure", "pull"}
               /\ s[k].do = "mark" \/ s[k].fail = "exit" \/ Deferred(s, k, l)
    <3>1. k \in 1..Len(s) /\ ((n = 1 /\ k = 2) \/ k = n + 2 \/ k = n + 3 \/ k = n + 4 \/ k = n + 5 \/ k = n + 6)
      BY <1>4, <1>8, <1>9
    <3>2. CASE (n = 1 /\ k = 2) \/ k = n + 2 \/ k = n + 6
      BY <1>2, <1>8, <3>2
    <3>3. CASE k = n + 3 \/ k = n + 4 \/ k = n + 5
      <4>1. s[k].do \in {"bind", "start", "wait"} /\ s[k].fail = "defer"
        BY <1>2, <1>8, <3>3
      <4>2. n + 6 \in (k + 1)..(l - 1) /\ s[n + 6].do = "mark"
        BY <1>2, <1>4, <1>8, <3>3
      <4> QED
        BY <4>1, <4>2 DEF Deferred
    <3> QED
      BY <3>1, <3>2, <3>3
  <2> HIDE DEF l
  <2>3. CleansAt(s, 1, l)
    BY <2>1, <2>2 DEF CleansAt
  <2> QED
    BY <2>1, <2>3 DEF Cleans
<1>15. ~Binds(s)
  <2> SUFFICES ASSUME NEW k \in 1..Len(s), s[k].do = "bind", \A l \in 1..(k - 1) : s[l].do # "config"
               PROVE  FALSE
    BY DEF Binds
  <2>1. 1 \in 1..(k - 1)
    BY <1>10
  <2> QED
    BY <1>2, <1>8, <2>1
<1>16. OffersOnce(s)
  BY <1>7, ReleaseOffers DEF R
<1>17. Ready(s, R)
  BY <1>7, <1>11, <1>12, <1>13, <1>14, <1>15, <1>16 DEF Ready
<1> QED
  BY <1>17 DEF s, t, v, x, y, a, d, e, f, m, z, R

LEMMA ReleaseReady ==
  ASSUME NEW c, NEW r
  PROVE  Ready(GoReleaserRun(c, r), ReleaseOps(c))
<1> DEFINE R == ReleaseOps(c)
           i == IF c.zig THEN Tool("goreleaser-zig") ELSE Base("goreleaser")
           g == IF c.token THEN <<>> ELSE <<Refuse("err")>>
           h == <<Check("exit")>>
           w == <<Create(i, FALSE, "exit"), Start("err"), Wait(FALSE, "err")>>
           x == <<Configure(c)>>
                \o (IF r = "docker" THEN <<Bind("exit")>> ELSE <<>>)
                \o <<Create(i, FALSE, "exit"), Bind("defer"), Start("defer"), Wait(FALSE, "defer"), Mark, Unconfigure>>
           p == <<Pull(<<Base("goreleaser")>>, "err")>>
           e == BuildReleaserImage(c)
<1>1. ASSUME NEW s, Piece(s, c) PROVE Ready(s, R)
  <2>1. Ready(s, PlainOps(c)) /\ PlainOps(c) \subseteq R
    BY <1>1, QuietReady DEF ReleaseOps
  <2> QED
    BY <2>1, ReadyWider
<1>2. i \in BaseImage \cup ToolImage
  BY StepImages
<1>3. Ready(x, R)
  BY <1>2, DefaultReleaseReady
<1>4. Piece(p, c) /\ Piece(h, c)
  BY PullPieces, CheckPiece, StepImages DEF FailKind
<1>5. Piece(e, c)
  BY EmptyPiece, EnsurePiece, StepImages DEF BuildReleaserImage
<1>6. Piece(g, c)
  <2>1. Refuse("err") \in QuietOps(c) /\ Refuse("err").do = "refuse"
    BY QuietElements DEF FailKind, Refuse, Op
  <2> QED
    BY <2>1, EmptyPiece, SinglePiece
<1>7. Piece(w, c)
  <2> DEFINE Q == QuietOps(c)
             a == Create(i, FALSE, "exit")
             b == Start("err")
             f == Wait(FALSE, "err")
             s == <<a, b, f>>
  <2>1. a \in Q /\ b \in Q /\ f \in Q
    BY <1>2, QuietElements DEF FailKind
  <2>2. a.do = "create" /\ b.do = "start" /\ f.do = "wait"
    BY DEF Create, Start, Wait
  <2> HIDE DEF Q, a, b, f
  <2>3. s \in Seq(Q)
    BY <2>1
  <2>4. \A k \in 1..Len(s) : s[k].do # "commit" /\ (s[k].do = "start" => k + 1 <= Len(s) /\ s[k + 1].do = "wait")
    BY <2>2
  <2> HIDE DEF s
  <2>5. Piece(s, c)
    BY <2>3, <2>4, WaitingPiece DEF Q
  <2> QED
    BY <2>5 DEF s, a, b, f
<1>8. Ready(IF c.own THEN w ELSE x, R)
  BY <1>1, <1>3, <1>7
<1>9. GoReleaserRelease(c, r) = g \o h \o (IF c.own THEN w ELSE x)
  BY DEF GoReleaserRelease
<1>10. GoReleaserRun(c, r) = IF ~c.tagged THEN <<>> ELSE p \o e \o GoReleaserRelease(c, r)
  BY DEF GoReleaserRun
<1>11. Ready(<<>>, R)
  BY <1>1, EmptyPiece
<1> HIDE DEF R, g, h, w, x, p, e
<1>12. Ready(GoReleaserRelease(c, r), R)
  BY <1>4, <1>6, <1>8, <1>9, PieceJoined, QuietBefore DEF R
<1>13. Ready(p \o e \o GoReleaserRelease(c, r), R)
  BY <1>4, <1>5, <1>12, PieceJoined, QuietBefore DEF R
<1> QED
  BY <1>10, <1>11, <1>13 DEF R

-----------------------------------------------------------------------------
(* The production steps: what they push they commit, and what they commit  *)
(* they copied from the build's folder.                                    *)

Packs(s, c) ==
  \A k \in 1..Len(s) :
    /\ s[k].fail = "exit" /\ s[k].do \notin {"pull", "ensure", "tag", "build", "buildMulti"}
    /\ s[k].do = "commit" => From(s, k, Copies)
    /\ s[k].do = "tagCommit" => From(s, k, {"commit"})
    /\ s[k].do = "push" => s[k].img = AppURI(c) /\ TaggedBefore(s, k, s[k].img)

LEMMA PackagingProgram ==
  ASSUME NEW c, NEW v \in Seq(QuietOps(c)), NEW n \in Nat, NEW p \in {1, 2}, NEW q \in (p + 2)..(n - 2), Len(v) = n,
         \A k \in 1..n : v[k].fail = "exit",
         p = 2 => v[1].do = "check", v[p].do = "create", v[p + 1].do = "start", v[q].do \in Copies, v[n - 1].do = "commit", v[n].do = "stop",
         \A k \in (p + 2)..(n - 2) : v[k].do \in {"exec", "check", "refuse"} \cup Copies,
         \A k \in (q + 1)..(n - 2) : v[k].do \in {"exec", "check", "refuse"},
         NEW t \in {<<>>, PushCommitted(AppURI(c), "exit")}
  PROVE  Ready(v \o t, ProdOps(c)) /\ Packs(v \o t, c)
<1> DEFINE Q == QuietOps(c)
           R == ProdOps(c)
           s == v \o t
           x == [do |-> "tagCommit", fail |-> "exit", img |-> AppURI(c)]
           y == [do |-> "push", fail |-> "exit", img |-> AppURI(c)]
<1>1. x \in R /\ y \in R /\ Q \subseteq R
  BY DEF ProdOps, TagCommitOps, PushOps
<1>2. t = <<>> \/ t = <<x, y>>
  BY DEF PushCommitted
<1>3. x.do = "tagCommit" /\ x.fail = "exit" /\ y.do = "push" /\ y.fail = "exit" /\ y.img = AppURI(c) /\ x.img = AppURI(c)
  OBVIOUS
<1>4. \A o \in R : o.do \notin {"mark", "bind", "config", "unconfig"}
  BY WhoDoes
<1>5. v \in Seq(Q)
  OBVIOUS
<1> HIDE DEF Q, R, x, y
<1>6. v \in Seq(R)
  BY <1>1, <1>5, SeqMonotonic
<1>7. /\ t \in Seq(R) /\ Len(t) \in {0, 2}
      /\ Len(t) = 2 => t[1] = x /\ t[2] = y
  <2>1. CASE t = <<>>
    BY <2>1
  <2>2. CASE t = <<x, y>>
    BY <1>1, <2>2
  <2> QED
    BY <1>2, <2>1, <2>2
<1>8. s \in Seq(R) /\ Joined(v, t, s)
  BY <1>6, <1>7, JoinedConcat
<1> HIDE DEF s
<1>9. /\ Len(s) = n + Len(t) /\ Len(s) \in {n, n + 2} /\ Len(s) \in Nat
      /\ \A k \in 1..n : s[k] = v[k]
      /\ Len(s) = n + 2 => s[n + 1] = x /\ s[n + 2] = y
  <2>1. Len(s) = n + Len(t) /\ (\A k \in 1..n : s[k] = v[k]) /\ \A k \in 1..Len(t) : s[k + n] = t[k]
    BY <1>8 DEF Joined
  <2>2. ASSUME Len(t) = 2 PROVE s[n + 1] = x /\ s[n + 2] = y
    <3>1. s[1 + n] = t[1] /\ s[2 + n] = t[2]
      BY <2>1, <2>2
    <3> QED
      BY <1>7, <2>2, <3>1
  <2>3. Len(s) \in {n, n + 2} /\ Len(s) \in Nat /\ (Len(s) = n + 2 => Len(t) = 2)
    <3>1. CASE Len(t) = 0
      BY <2>1, <3>1
    <3>2. CASE Len(t) = 2
      BY <2>1, <3>2
    <3> QED
      BY <1>7, <3>1, <3>2
  <2> QED
    BY <2>1, <2>2, <2>3
<1>10. n >= 5 /\ n - 1 \in 4..(n - 1) /\ q \in 1..n
  OBVIOUS
<1>11. \A k \in 1..Len(s) :
         (p = 2 /\ k = 1) \/ k = p \/ k = p + 1 \/ k \in (p + 2)..(n - 2) \/ k = n - 1 \/ k = n \/ (Len(s) = n + 2 /\ k = n + 1)
           \/ (Len(s) = n + 2 /\ k = n + 2)
  BY <1>9, <1>10
<1>12. /\ p = 2 => s[1].do = "check"
       /\ s[p].do = "create" /\ s[p + 1].do = "start" /\ s[n - 1].do = "commit" /\ s[n].do = "stop"
       /\ \A k \in (p + 2)..(n - 2) : s[k].do \in {"exec", "check", "refuse"} \cup Copies
       /\ s[q].do \in Copies /\ \A k \in (q + 1)..(n - 2) : s[k].do \in {"exec", "check", "refuse"}
  <2>1. 1 \in 1..n /\ p \in 1..n /\ p + 1 \in 1..n /\ n - 1 \in 1..n /\ n \in 1..n
    BY <1>10
  <2>2. \A k \in (p + 2)..(n - 2) : k \in 1..n
    OBVIOUS
  <2>3. \A k \in (q + 1)..(n - 2) : k \in 1..n
    OBVIOUS
  <2> QED
    BY <1>9, <1>10, <2>1, <2>2, <2>3
<1>13. \A k \in 1..Len(s) : s[k].fail = "exit"
  <2> SUFFICES ASSUME NEW k \in 1..Len(s) PROVE s[k].fail = "exit"
    OBVIOUS
  <2>1. CASE k \in 1..n
    BY <1>9, <2>1
  <2>2. CASE Len(s) = n + 2 /\ (k = n + 1 \/ k = n + 2)
    BY <1>3, <1>9, <2>2
  <2> QED
    BY <1>9, <2>1, <2>2
<1>14. \A k \in 1..Len(s) :
         /\ s[k].do \notin {"pull", "ensure", "tag", "build", "buildMulti"}
         /\ s[k].do = "start" => k = p + 1
         /\ s[k].do = "commit" => k = n - 1
         /\ s[k].do = "tagCommit" => Len(s) = n + 2 /\ k = n + 1
         /\ s[k].do = "push" => Len(s) = n + 2 /\ k = n + 2
  <2> SUFFICES ASSUME NEW k \in 1..Len(s)
               PROVE  /\ s[k].do \notin {"pull", "ensure", "tag", "build", "buildMulti"}
                      /\ s[k].do = "start" => k = p + 1
                      /\ s[k].do = "commit" => k = n - 1
                      /\ s[k].do = "tagCommit" => Len(s) = n + 2 /\ k = n + 1
                      /\ s[k].do = "push" => Len(s) = n + 2 /\ k = n + 2
    OBVIOUS
  <2>1. CASE (p = 2 /\ k = 1) \/ k = p \/ k = p + 1 \/ k = n - 1 \/ k = n
    BY <1>12, <2>1
  <2>2. CASE k \in (p + 2)..(n - 2)
    <3>1. s[k].do \in {"exec", "check", "refuse", "copyFile", "copyDir"}
      BY <1>12, <2>2 DEF Copies
    <3> QED
      BY ONLY <3>1
  <2>3. CASE Len(s) = n + 2 /\ (k = n + 1 \/ k = n + 2)
    BY <1>3, <1>9, <2>3
  <2> QED
    BY <1>11, <2>1, <2>2, <2>3
<1>15. StartsEnd(s)
  <2>1. n \in ((p + 1) + 1)..Len(s) /\ s[n].do = "stop" /\ s[n].fail = "exit"
    BY <1>9, <1>10, <1>12, <1>13
  <2>2. ASSUME NEW m \in ((p + 1) + 1)..(n - 1) PROVE s[m].do \in Inside /\ s[m].fail = "exit"
    <3>1. m \in 1..Len(s) /\ (m \in (p + 2)..(n - 2) \/ m = n - 1)
      <4>1. n \in Nat /\ Len(s) \in {n, n + 2}
        BY ONLY <1>9, n \in Nat
      <4> QED
        BY ONLY <4>1, m \in ((p + 1) + 1)..(n - 1), p \in {1, 2}
    <3>2. s[m].do \in {"exec", "check", "refuse", "copyFile", "copyDir", "commit"}
      <4>1. CASE m \in (p + 2)..(n - 2)
        BY ONLY <1>12, <4>1 DEF Copies
      <4>2. CASE m = n - 1
        BY ONLY <1>12, <4>2
      <4> QED
        BY ONLY <3>1, <4>1, <4>2
    <3>3. s[m].fail = "exit"
      BY ONLY <1>13, <3>1
    <3> QED
      BY ONLY <3>2, <3>3 DEF Inside
  <2>3. Ends(s, p + 1)
    BY <2>1, <2>2 DEF Ends
  <2> QED
    BY <1>14, <2>3 DEF StartsEnd
<1>16. CommitsCreated(s)
  <2>1. p \in 1..((n - 1) - 1)
    BY <1>10
  <2> QED
    BY <1>12, <1>14, <2>1 DEF CommitsCreated
<1>17. MarkedPlain(s) /\ ConfigsClean(s) /\ ~Binds(s)
  <2>1. \A k \in 1..Len(s) : s[k] \in R
    BY <1>8, ElementOfSeq
  <2> QED
    BY <1>4, <2>1 DEF MarkedPlain, ConfigsClean, Binds
<1>18. OffersOnce(s)
  <2>1. \A k \in 1..Len(s) : s[k].do \in {"push", "ensure", "buildMulti"} => k = n + 2
    BY <1>14
  <2> QED
    BY <2>1 DEF OffersOnce, Offers
<1>19. From(s, n - 1, Copies)
  <2>1. q \in 1..((n - 1) - 1)
    OBVIOUS
  <2>2. \A m \in (q + 1)..((n - 1) - 1) : s[m].do \notin Copies \cup {"create"}
    <3>1. (n - 1) - 1 = n - 2
      OBVIOUS
    <3> QED
      BY <1>12, <3>1 DEF Copies
  <2> QED
    BY <1>12, <2>1, <2>2 DEF From
<1>20. From(s, n + 1, {"commit"})
  <2>1. n - 1 \in 1..((n + 1) - 1)
    BY <1>10
  <2>2. \A m \in ((n - 1) + 1)..((n + 1) - 1) : s[m].do \notin {"commit"} \cup {"create"}
    <3>1. \A m \in ((n - 1) + 1)..((n + 1) - 1) : m = n
      OBVIOUS
    <3> QED
      BY <1>12, <3>1
  <2> QED
    BY <1>12, <2>1, <2>2 DEF From
<1>21. Len(s) = n + 2 => s[n + 2].img = AppURI(c) /\ TaggedBefore(s, n + 2, s[n + 2].img)
  <2>1. (n + 2) - 1 = n + 1 /\ n + 2 > 1
    OBVIOUS
  <2> QED
    BY <1>3, <1>9, <2>1 DEF TaggedBefore
<1>22. Packs(s, c)
  BY <1>13, <1>14, <1>19, <1>20, <1>21 DEF Packs
<1>23. Ready(s, R)
  BY <1>8, <1>15, <1>16, <1>17, <1>18 DEF Ready
<1> QED
  BY <1>22, <1>23 DEF s, R

LEMMA AppImages ==
  ASSUME NEW c
  PROVE  AppTag(c) # AppURI(c)
<1>1. AppTag(c)[2] = "tag" /\ AppURI(c)[2] = "uri"
  BY DEF AppTag, AppURI
<1> QED
  BY <1>1

LEMMA AlpinePackaging ==
  ASSUME NEW c, NEW z \in {CopyFile("exit"), CopyDir("exit")}, NEW t \in {<<>>, PushCommitted(AppURI(c), "exit")}
  PROVE  LET v == <<Create(Base("alpine"), TRUE, "exit"), Start("exit"), Exec("exit"), z, Commit(AppTag(c), "exit"),
                    Stop("exit")>>
         IN  Ready(v \o t, ProdOps(c)) /\ Packs(v \o t, c)
<1> DEFINE Q == QuietOps(c)
           a == Create(Base("alpine"), TRUE, "exit")
           d == Start("exit")
           e == Exec("exit")
           f == Commit(AppTag(c), "exit")
           g == Stop("exit")
           v == <<a, d, e, z, f, g>>
<1>1. a \in Q /\ d \in Q /\ e \in Q /\ z \in Q /\ f \in Q /\ g \in Q
  BY QuietElements, StepImages DEF FailKind
<1>2. /\ a.do = "create" /\ d.do = "start" /\ e.do = "exec" /\ z.do \in Copies /\ f.do = "commit" /\ g.do = "stop"
      /\ a.fail = "exit" /\ d.fail = "exit" /\ e.fail = "exit" /\ z.fail = "exit" /\ f.fail = "exit" /\ g.fail = "exit"
  BY DEF Create, Start, Exec, Op, CopyFile, CopyDir, Commit, Stop, Copies
<1> HIDE DEF Q, a, d, e, f, g
<1>3. v \in Seq(Q) /\ Len(v) = 6 /\ v[1] = a /\ v[2] = d /\ v[3] = e /\ v[4] = z /\ v[5] = f /\ v[6] = g
  BY <1>1
<1> HIDE DEF v
<1>4. \A k \in 1..6 : k \in {1, 2, 3, 4, 5, 6}
  OBVIOUS
<1>5. \A k \in 1..6 : v[k].fail = "exit"
  BY <1>2, <1>3, <1>4
<1>6. \A k \in (1 + 2)..(6 - 2) : v[k].do \in {"exec", "check", "refuse"} \cup Copies
  <2>1. \A k \in (1 + 2)..(6 - 2) : k = 3 \/ k = 4
    OBVIOUS
  <2> QED
    BY <1>2, <1>3, <2>1
<1>7. \A k \in (4 + 1)..(6 - 2) : v[k].do \in {"exec", "check", "refuse"}
  OBVIOUS
<1>8. 6 \in Nat /\ 4 \in (1 + 2)..(6 - 2) /\ 6 - 1 = 5 /\ 1 \in {1, 2} /\ 1 # 2 /\ 1 + 1 = 2
  OBVIOUS
<1>9. v \in Seq(QuietOps(c)) /\ v[1].do = "create" /\ v[1 + 1].do = "start" /\ v[4].do \in Copies
      /\ v[6 - 1].do = "commit" /\ v[6].do = "stop"
  BY <1>2, <1>3, <1>8 DEF Q
<1>10. Ready(v \o t, ProdOps(c)) /\ Packs(v \o t, c)
  BY <1>3, <1>5, <1>6, <1>7, <1>8, <1>9, PackagingProgram
<1> QED
  BY <1>10 DEF v, a, d, e, f, g

LEMMA PythonPackaging ==
  ASSUME NEW c, NEW r \in {<<>>, <<Refuse("exit")>>}
  PROVE  LET v == PythonProdImage \o r \o <<Commit(AppTag(c), "exit"), Stop("exit")>>
             t == PushCommitted(AppURI(c), "exit")
         IN  Ready(v \o t, ProdOps(c)) /\ Packs(v \o t, c)
<1> DEFINE Q == QuietOps(c)
           y == Check("exit")
           a == Create(Base("python"), TRUE, "exit")
           d == Start("exit")
           e == Exec("exit")
           z == CopyDir("exit")
           f == Commit(AppTag(c), "exit")
           g == Stop("exit")
           x == Refuse("exit")
           t == PushCommitted(AppURI(c), "exit")
           i == <<y, a, d, e, z, y, e>>
           h == <<f, g>>
           v == i \o r \o h
           n == 9 + Len(r)
<1>1. a \in Q /\ d \in Q /\ e \in Q /\ z \in Q /\ y \in Q /\ f \in Q /\ g \in Q /\ x \in Q
  BY QuietElements, StepImages DEF FailKind
<1>2. /\ a.do = "create" /\ d.do = "start" /\ e.do = "exec" /\ z.do \in Copies /\ f.do = "commit" /\ g.do = "stop"
      /\ y.do = "check" /\ y.fail = "exit" /\ x.do = "refuse" /\ x.fail = "exit"
      /\ a.fail = "exit" /\ d.fail = "exit" /\ e.fail = "exit" /\ z.fail = "exit" /\ f.fail = "exit" /\ g.fail = "exit"
  BY DEF Create, Start, Exec, Op, CopyDir, Check, Commit, Stop, Refuse, Copies
<1>3. PythonProdImage = i
  BY DEF PythonProdImage
<1>4. r \in {<<>>, <<x>>}
  OBVIOUS
<1> HIDE DEF Q, a, d, e, z, y, f, g, x
<1>5. /\ i \in Seq(Q) /\ Len(i) = 7 /\ i[1] = y /\ i[2] = a /\ i[3] = d /\ i[4] = e /\ i[5] = z /\ i[6] = y /\ i[7] = e
      /\ h \in Seq(Q) /\ Len(h) = 2 /\ h[1] = f /\ h[2] = g
  BY <1>1
<1>6. r \in Seq(Q) /\ Len(r) \in {0, 1} /\ (Len(r) = 1 => r[1] = x)
  <2>1. <<x>> \in Seq(Q) /\ Len(<<x>>) = 1 /\ <<x>>[1] = x /\ <<>> \in Seq(Q) /\ Len(<<>>) = 0
    BY <1>1
  <2>2. CASE r = <<>>
    BY ONLY <2>1, <2>2
  <2>3. CASE r = <<x>>
    BY ONLY <2>1, <2>3
  <2> QED
    BY ONLY <1>4, <2>2, <2>3
<1> HIDE DEF i, h
<1>7. i \o r \in Seq(Q) /\ Joined(i, r, i \o r)
  BY <1>5, <1>6, JoinedConcat
<1>8. v \in Seq(Q) /\ Joined(i \o r, h, v)
  BY <1>5, <1>7, JoinedConcat
<1> HIDE DEF v
<1>9. /\ Len(v) = n /\ n \in {9, 10}
      /\ \A k \in 1..7 : v[k] = i[k]
      /\ n = 10 => v[8] = x
      /\ v[n - 1] = f /\ v[n] = g
  <2>1. Len(i \o r) = 7 + Len(r) /\ (\A k \in 1..7 : (i \o r)[k] = i[k]) /\ (Len(r) = 1 => (i \o r)[1 + 7] = r[1])
    BY <1>5, <1>6, <1>7 DEF Joined
  <2>2. Len(v) = n /\ \A k \in 1..(7 + Len(r)) : v[k] = (i \o r)[k]
    BY <1>5, <1>6, <1>8, <2>1 DEF Joined
  <2>3. v[1 + (7 + Len(r))] = h[1] /\ v[2 + (7 + Len(r))] = h[2]
    BY <1>5, <1>6, <1>8, <2>1 DEF Joined
  <2>4. \A k \in 1..7 : v[k] = i[k]
    BY <1>6, <2>1, <2>2
  <2>5. n = 10 => v[8] = x
    BY <1>6, <2>1, <2>2
  <2>6. v[n - 1] = f /\ v[n] = g
    <3>1. 1 + (7 + Len(r)) = n - 1 /\ 2 + (7 + Len(r)) = n
      BY <1>6
    <3> QED
      BY <1>5, <2>3, <3>1
  <2>7. n \in {9, 10} /\ Len(v) = n
    BY <1>6, <2>2
  <2> HIDE DEF n
  <2> QED
    BY ONLY <2>4, <2>5, <2>6, <2>7
<1> HIDE DEF n
<1>10. v[1] = y /\ v[2] = a /\ v[3] = d /\ v[4] = e /\ v[5] = z /\ v[6] = y /\ v[7] = e
  <2>1. 1 \in 1..7 /\ 2 \in 1..7 /\ 3 \in 1..7 /\ 4 \in 1..7 /\ 5 \in 1..7 /\ 6 \in 1..7 /\ 7 \in 1..7
    OBVIOUS
  <2> QED
    BY <1>5, <1>9, <2>1
<1>11. \A k \in 1..n : k = 1 \/ k = 2 \/ k = 3 \/ k = 4 \/ k = 5 \/ k = 6 \/ k = 7 \/ (n = 10 /\ k = 8) \/ k = n - 1 \/ k = n
  BY <1>9
<1>12. \A k \in 1..n : v[k].fail = "exit"
  <2> SUFFICES ASSUME NEW k \in 1..n PROVE v[k].fail = "exit"
    OBVIOUS
  <2> QED
    BY <1>2, <1>9, <1>10, <1>11
<1>13. \A k \in (2 + 2)..(n - 2) : v[k].do \in {"exec", "check", "refuse"} \cup Copies
  <2> SUFFICES ASSUME NEW k \in (2 + 2)..(n - 2) PROVE v[k].do \in {"exec", "check", "refuse"} \cup Copies
    OBVIOUS
  <2>1. k = 4 \/ k = 5 \/ k = 6 \/ k = 7 \/ (n = 10 /\ k = 8)
    BY <1>9
  <2> QED
    BY <1>2, <1>9, <1>10, <2>1
<1>14. \A k \in (5 + 1)..(n - 2) : v[k].do \in {"exec", "check", "refuse"}
  <2> SUFFICES ASSUME NEW k \in (5 + 1)..(n - 2) PROVE v[k].do \in {"exec", "check", "refuse"}
    OBVIOUS
  <2>1. k = 6 \/ k = 7 \/ (n = 10 /\ k = 8)
    BY <1>9
  <2> QED
    BY <1>2, <1>9, <1>10, <2>1
<1>15. n \in Nat /\ 5 \in (2 + 2)..(n - 2) /\ 2 \in {1, 2} /\ 2 + 1 = 3
  BY <1>9
<1>16. /\ v \in Seq(QuietOps(c)) /\ v[1].do = "check" /\ v[2].do = "create" /\ v[2 + 1].do = "start"
       /\ v[5].do \in Copies /\ v[n - 1].do = "commit" /\ v[n].do = "stop"
       /\ t \in {<<>>, PushCommitted(AppURI(c), "exit")}
  BY <1>2, <1>8, <1>9, <1>10, <1>15 DEF Q
<1>17. Ready(v \o t, ProdOps(c)) /\ Packs(v \o t, c)
  BY <1>9, <1>12, <1>13, <1>14, <1>15, <1>16, PackagingProgram
<1> QED
  BY <1>3, <1>17 DEF v, h, f, g

LEMMA CustomReady ==
  ASSUME NEW c
  PROVE  Ready(BuildCustomProdImage(c), ProdOps(c))
<1> DEFINE R == ProdOps(c)
           x == [do |-> "tag", fail |-> "err", src |-> AppTag(c), img |-> AppURI(c)]
           y == [do |-> "push", fail |-> "err", img |-> AppURI(c)]
<1>1. PICK o \in EnsureOps({AppTag(c)}, "fresh") :
        /\ BuildIntermidiateContainer(AppTag(c), c, "fresh") = <<o>>
        /\ o.do = "ensure" /\ o.fail = "exit" /\ o.img = AppTag(c)
  BY EnsureTyped
<1>2. o \in R /\ x \in R /\ y \in R
  BY DEF ProdOps, PublishOps, PushOps
<1>3. x.do = "tag" /\ y.do = "push" /\ y.img = AppURI(c)
  OBVIOUS
<1>4. BuildCustomProdImage(c) = <<o>> \o <<x, y>>
  BY <1>1 DEF BuildCustomProdImage, PushImage
<1>5. \A w \in R : w.do \notin {"mark", "bind", "config", "unconfig"}
  BY WhoDoes
<1> HIDE DEF R, x, y
<1> DEFINE s == <<o>> \o <<x, y>>
<1>6. /\ <<o>> \in Seq(R) /\ Len(<<o>>) = 1 /\ <<o>>[1] = o
      /\ <<x, y>> \in Seq(R) /\ Len(<<x, y>>) = 2 /\ <<x, y>>[1] = x /\ <<x, y>>[2] = y
  BY <1>2
<1>7. s \in Seq(R) /\ Joined(<<o>>, <<x, y>>, s)
  BY <1>6, JoinedConcat
<1> HIDE DEF s
<1>8. Len(s) = 3 /\ s[1] = o /\ s[2] = x /\ s[3] = y
  <2>1. Len(s) = 3 /\ s[1] = o /\ \A k \in 1..2 : s[k + 1] = <<x, y>>[k]
    BY <1>6, <1>7 DEF Joined
  <2>2. 1 \in 1..2 /\ 2 \in 1..2 /\ 1 + 1 = 2 /\ 2 + 1 = 3
    OBVIOUS
  <2>3. s[1 + 1] = <<x, y>>[1] /\ s[2 + 1] = <<x, y>>[2]
    BY <2>1, <2>2
  <2> QED
    BY <1>6, <2>1, <2>2, <2>3
<1>9. \A k \in 1..Len(s) : k = 1 \/ k = 2 \/ k = 3
  BY <1>8
<1>10. \A k \in 1..Len(s) : s[k].do \notin {"start", "commit"}
  BY <1>1, <1>3, <1>8, <1>9
<1>11. StartsEnd(s) /\ CommitsCreated(s)
  BY <1>10 DEF StartsEnd, CommitsCreated
<1>12. MarkedPlain(s) /\ ConfigsClean(s) /\ ~Binds(s)
  <2>1. \A k \in 1..Len(s) : s[k] \in R
    BY <1>7, ElementOfSeq
  <2> QED
    BY <1>5, <2>1 DEF MarkedPlain, ConfigsClean, Binds
<1>13. OffersOnce(s)
  <2> SUFFICES ASSUME NEW k \in 1..Len(s), NEW l \in 1..Len(s), k < l, NEW i \in Image \ ToolImage,
                      Offers(s[k], i), Offers(s[l], i)
               PROVE  FALSE
    BY DEF OffersOnce
  <2>1. k # 2 /\ l # 2
    BY <1>3, <1>8 DEF Offers
  <2>2. k = 1 /\ l = 3
    BY <1>9, <2>1
  <2>3. i = AppTag(c) /\ i = AppURI(c)
    BY <1>1, <1>3, <1>8, <2>2 DEF Offers
  <2> QED
    BY <2>3, AppImages
<1> QED
  BY <1>4, <1>7, <1>11, <1>12, <1>13 DEF Ready, s, R

\* A refusal in front.
LEMMA RefusedReady ==
  ASSUME NEW c, NEW t, Ready(t, ProdOps(c))
  PROVE  Ready(<<Refuse("exit")>> \o t, ProdOps(c))
<1> DEFINE R == ProdOps(c)
           x == Refuse("exit")
           s == <<x>>
           u == s \o t
<1>1. x \in R /\ x.do = "refuse"
  BY QuietElements DEF ProdOps, FailKind, Refuse, Op
<1>2. t \in Seq(R)
  BY DEF Ready
<1> HIDE DEF R, x
<1>3. s \in Seq(R) /\ Len(s) = 1 /\ s[1] = x
  BY <1>1
<1> HIDE DEF s
<1>4. u \in Seq(R) /\ Joined(s, t, u) /\ Len(s) \in Nat /\ Len(t) \in Nat
  BY <1>2, <1>3, JoinedConcat
<1> HIDE DEF u
<1>5. \A k \in 1..Len(s) : s[k].do = "refuse"
  BY <1>1, <1>3
<1>6. StartsEnd(s) /\ CommitsCreated(s)
  BY <1>5 DEF StartsEnd, CommitsCreated
<1>7. StartsEnd(u) /\ CommitsCreated(u)
  BY <1>4, <1>6, StartsEndJoined, CommitsCreatedJoined DEF Ready
<1>8. MarkedPlain(u) /\ ConfigsClean(u)
  BY <1>4, <1>5, MarkedPlainJoined, ConfigsCleanJoined DEF Ready
<1>9. ~Binds(u)
  BY <1>4, <1>5, BindsJoined DEF Ready
<1>10. OffersOnce(u)
  <2> SUFFICES ASSUME NEW k \in 1..Len(u), NEW l \in 1..Len(u), k < l, NEW i \in Image \ ToolImage,
                      Offers(u[k], i), Offers(u[l], i)
               PROVE  FALSE
    BY DEF OffersOnce
  <2>1. Len(u) = 1 + Len(t) /\ u[1] = x /\ \A m \in 1..Len(t) : u[m + 1] = t[m]
    BY <1>3, <1>4 DEF Joined
  <2>2. k # 1 /\ l # 1
    BY <1>1, <2>1 DEF Offers
  <2>3. k - 1 \in 1..Len(t) /\ l - 1 \in 1..Len(t) /\ (k - 1) + 1 = k /\ (l - 1) + 1 = l /\ k - 1 < l - 1
    BY <1>4, <2>1, <2>2
  <2>4. Offers(t[k - 1], i) /\ Offers(t[l - 1], i)
    BY <2>1, <2>3
  <2>5. OffersOnce(t)
    BY DEF Ready
  <2> QED
    BY <2>3, <2>4, <2>5 DEF OffersOnce
<1>11. Ready(u, R)
  BY <1>4, <1>7, <1>8, <1>9, <1>10 DEF Ready
<1> QED
  BY <1>11 DEF u, s, x, R

LEMMA EmptyBefore ==
  ASSUME NEW S, NEW s \in Seq(S)
  PROVE  <<>> \o s = s
OBVIOUS

LEMMA ProdPrograms ==
  ASSUME NEW c, NEW r, NEW s \in {GoProd(c), DebianProd(c), ZigProd(c), PythonProd(c, r)}
  PROVE  /\ Ready(s, ProdOps(c))
         /\ ~c.custom => Packs(s, c)
<1> DEFINE R == ProdOps(c)
<1>1. Ready(BuildCustomProdImage(c), R)
  BY CustomReady
<1>2. Ready(<<>>, R) /\ Packs(<<>>, c)
  <2>1. Piece(<<>>, c)
    BY EmptyPiece
  <2>2. Ready(<<>>, PlainOps(c)) /\ <<>> \in Seq(R)
    BY <2>1, QuietReady
  <2> QED
    BY <2>2 DEF Ready, Packs
<1>3. \A t \in {<<>>, PushCommitted(AppURI(c), "exit")} :
        Ready(GoProdContainer(c) \o t, R) /\ Packs(GoProdContainer(c) \o t, c)
  BY AlpinePackaging DEF GoProdContainer
<1>4. CASE s = GoProd(c)
  BY <1>1, <1>2, <1>3, <1>4 DEF GoProd
<1>5. CASE s = DebianProd(c)
  BY <1>1, <1>2, <1>3, <1>5 DEF DebianProd
<1>6. CASE s = ZigProd(c)
  BY <1>1, <1>2, <1>6, AlpinePackaging DEF ZigProd
<1>7. CASE s = PythonProd(c, r)
  <2> DEFINE named == IF c.image \/ r = "host" THEN <<>> ELSE <<Refuse("exit")>>
             v == PythonProdImage \o named \o <<Commit(AppTag(c), "exit"), Stop("exit")>>
  <2>1. named \in {<<>>, <<Refuse("exit")>>}
    OBVIOUS
  <2>2. s = IF c.custom THEN named \o BuildCustomProdImage(c) ELSE v \o PushCommitted(AppURI(c), "exit")
    BY <1>7 DEF PythonProd
  <2>3. Ready(v \o PushCommitted(AppURI(c), "exit"), R) /\ Packs(v \o PushCommitted(AppURI(c), "exit"), c)
    BY <2>1, PythonPackaging
  <2> HIDE DEF named, v, R
  <2>4. Ready(named \o BuildCustomProdImage(c), R)
    <3>1. CASE named = <<>>
      <4>1. <<>> \o BuildCustomProdImage(c) = BuildCustomProdImage(c)
        BY <1>1, EmptyBefore DEF Ready
      <4> QED
        BY <1>1, <3>1, <4>1
    <3>2. CASE named = <<Refuse("exit")>>
      BY <1>1, <3>2, RefusedReady DEF R
    <3> QED
      BY <2>1, <3>1, <3>2
  <2> QED
    BY <2>2, <2>3, <2>4 DEF R
<1> QED
  BY <1>4, <1>5, <1>6, <1>7

\* What every step starts with.
LEMMA ProgramReady ==
  ASSUME NEW step \in StepName, NEW c, NEW r
  PROVE  /\ Ready(Program(step, c, r), StepOps(step, c))
         /\ step \in CompileStep => Makes(Program(step, c, r))
         /\ step \in ProdStep /\ ~c.custom => Packs(Program(step, c, r), c)
<1> DEFINE p == Program(step, c, r)
<1>1. ASSUME step \in {"golang", "golang-debian", "zig", "python"}
      PROVE  p \in {GoRun(c), DebianRun(c), ZigRun(c), PythonRun(c)}
  BY <1>1 DEF Program
<1>2. ASSUME step \in {"golang-debiancgo", "maven"}
      PROVE  p \in {CGORun(c), MavenRun(c)}
  BY <1>2 DEF Program
<1>3. ASSUME step \in {"gcloud", "copier", "protobuf", "packer", "golangci-lint", "trivy", "pulumi"}
      PROVE  p \in {GCloudRun(c), CopierRun(c), ProtobufRun(c), PackerRun(c), GoLint(c), TrivyRun(c, r), PulumiRun(c)}
  BY <1>3 DEF Program
<1>4. ASSUME step \in ProdStep
      PROVE  p \in {GoProd(c), DebianProd(c), PythonProd(c, r), ZigProd(c)}
  BY <1>4 DEF Program, ProdStep
<1>5. step = "gorelease" => p = GoReleaserRun(c, r)
  BY DEF Program
<1>6. step = "github" => p = GithubRun(c)
  BY DEF Program
<1>7. step \notin ProdStep \cup {"gorelease", "github"} => StepOps(step, c) = PlainOps(c)
  BY DEF StepOps
<1>15. step = "github" => StepOps(step, c) = GithubOps(c)
  BY DEF StepOps, ProdStep
<1>8. step \in ProdStep => StepOps(step, c) = ProdOps(c)
  BY DEF StepOps, ProdStep
<1>9. step = "gorelease" => StepOps(step, c) = ReleaseOps(c)
  BY DEF StepOps
<1> HIDE DEF p
<1>10. CASE step \in {"golang", "golang-debian", "zig", "python"}
  <2>1. Piece(p, c) /\ Makes(p)
    BY <1>1, <1>10, CompilePrograms
  <2>2. Ready(p, PlainOps(c)) /\ step \notin ProdStep \cup {"gorelease", "github"}
    BY <1>10, <2>1, QuietReady DEF ProdStep
  <2> QED
    BY <1>7, <2>1, <2>2 DEF p
<1>11. CASE step \in {"golang-debiancgo", "maven", "gcloud", "copier", "protobuf", "packer", "golangci-lint", "trivy", "pulumi"}
  <2>1. Piece(p, c)
    BY <1>2, <1>3, <1>11, CompilePrograms, ToolPrograms
  <2>2. Ready(p, PlainOps(c)) /\ step \notin ProdStep \cup {"gorelease", "github"} \cup CompileStep
    BY <1>11, <2>1, QuietReady DEF ProdStep, CompileStep
  <2> QED
    BY <1>7, <2>2 DEF p
<1>12. CASE step \in ProdStep
  <2>1. Ready(p, ProdOps(c)) /\ (~c.custom => Packs(p, c))
    BY <1>4, <1>12, ProdPrograms
  <2>2. step \notin CompileStep
    BY <1>12 DEF ProdStep, CompileStep
  <2> QED
    BY <1>8, <1>12, <2>1, <2>2 DEF p
<1>13. CASE step = "gorelease"
  <2>1. Ready(p, ReleaseOps(c))
    BY <1>5, <1>13, ReleaseReady
  <2>2. step \notin CompileStep \cup ProdStep
    BY <1>13 DEF ProdStep, CompileStep
  <2> QED
    BY <1>9, <1>13, <2>1, <2>2 DEF p
<1>14. CASE step = "github"
  <2>1. Ready(p, GithubOps(c))
    BY <1>6, <1>14, GithubReady
  <2>2. step \notin CompileStep \cup ProdStep
    BY <1>14 DEF ProdStep, CompileStep
  <2> QED
    BY <1>14, <1>15, <2>1, <2>2 DEF p
<1> QED
  BY <1>10, <1>11, <1>12, <1>13, <1>14 DEF StepName, ProdStep

-----------------------------------------------------------------------------
(* What the managers may answer.  They are instances of modules over the   *)
(* same worlds and outcomes.                                               *)

LEMMA DockerTerms ==
  /\ \A x, y : D!Call(x, y) = Call(x, y)
  /\ \A x : D!Ok(x) = Ok(x) /\ D!Refused(x) = Refused(x) /\ D!Lost(x) = Lost(x) /\ D!Dies(x) = Dies(x)
  /\ \A x, f, w : D!Outcome(x, f, w) = Outcome(x, f, w)
  /\ \A w, i : D!Present(w, i) <=> Present(w, i)
  /\ \A w, i, p : D!Offered(w, i, p) <=> Offered(w, i, p)
  /\ \A w, i, x : D!Keep(w, i, x) = Keep(w, i, x)
  /\ \A w, i, p : D!Fetched(w, i, p) = Fetched(w, i, p)
  /\ \A w, i, x, y : D!Offer(w, i, x, y) = Offer(w, i, x, y)
  /\ D!Platform = Platform /\ D!Absent = Absent
<1>1. /\ \A x, y : D!Call(x, y) = Call(x, y)
      /\ \A x : D!Ok(x) = Ok(x) /\ D!Refused(x) = Refused(x) /\ D!Lost(x) = Lost(x) /\ D!Dies(x) = Dies(x)
      /\ \A x, f, w : D!Outcome(x, f, w) = Outcome(x, f, w)
  BY DEF D!Call, Call, D!Ok, Ok, D!Outcome, Outcome, D!Broken, Broken, D!Refused, Refused, D!Lost, Lost, D!Dies, Dies
<1>2. /\ \A w, i : D!Present(w, i) <=> Present(w, i)
      /\ \A w, i, p : D!Offered(w, i, p) <=> Offered(w, i, p)
      /\ D!Platform = Platform /\ D!Absent = Absent
  BY DEF D!Present, Present, D!None, None, D!Absent, Absent, D!Offered, Offered, D!Platform, Platform
<1>3. \A w, i, x : D!Keep(w, i, x) = Keep(w, i, x)
  BY Zenon DEF D!Keep, Keep
<1>4. \A w, i, p : D!Fetched(w, i, p) = Fetched(w, i, p)
  BY Zenon DEF D!Fetched, Fetched, D!Keep, Keep
<1>5. \A w, i, x, y : D!Offer(w, i, x, y) = Offer(w, i, x, y)
  BY Zenon DEF D!Offer, Offer, D!Platform, Platform
<1> QED
  BY <1>1, <1>2, <1>3, <1>4, <1>5

LEMMA PodmanTerms ==
  /\ \A x, y : P!Call(x, y) = Call(x, y)
  /\ \A x : P!Ok(x) = Ok(x) /\ P!Refused(x) = Refused(x) /\ P!Lost(x) = Lost(x) /\ P!Dies(x) = Dies(x)
  /\ \A x, f, w : P!Outcome(x, f, w) = Outcome(x, f, w)
  /\ \A w, i : P!Present(w, i) <=> Present(w, i)
  /\ \A w, i, p : P!Offered(w, i, p) <=> Offered(w, i, p)
  /\ \A w, i, x : P!Keep(w, i, x) = Keep(w, i, x)
  /\ \A w, i, p : P!Fetched(w, i, p) = Fetched(w, i, p)
  /\ \A w, i, x, y : P!Offer(w, i, x, y) = Offer(w, i, x, y)
  /\ P!Platform = Platform /\ P!Absent = Absent
<1>1. /\ \A x, y : P!Call(x, y) = Call(x, y)
      /\ \A x : P!Ok(x) = Ok(x) /\ P!Refused(x) = Refused(x) /\ P!Lost(x) = Lost(x) /\ P!Dies(x) = Dies(x)
      /\ \A x, f, w : P!Outcome(x, f, w) = Outcome(x, f, w)
  BY DEF P!Call, Call, P!Ok, Ok, P!Outcome, Outcome, P!Broken, Broken, P!Refused, Refused, P!Lost, Lost, P!Dies, Dies
<1>2. /\ \A w, i : P!Present(w, i) <=> Present(w, i)
      /\ \A w, i, p : P!Offered(w, i, p) <=> Offered(w, i, p)
      /\ P!Platform = Platform /\ P!Absent = Absent
  BY DEF P!Present, Present, P!None, None, P!Absent, Absent, P!Offered, Offered, P!Platform, Platform
<1>3. \A w, i, x : P!Keep(w, i, x) = Keep(w, i, x)
  BY Zenon DEF P!Keep, Keep
<1>4. \A w, i, p : P!Fetched(w, i, p) = Fetched(w, i, p)
  BY Zenon DEF P!Fetched, Fetched, P!Keep, Keep
<1>5. \A w, i, x, y : P!Offer(w, i, x, y) = Offer(w, i, x, y)
  BY Zenon DEF P!Offer, Offer, P!Platform, Platform
<1> QED
  BY <1>1, <1>2, <1>3, <1>4, <1>5

LEMMA HostTerms ==
  /\ \A x, y : H!Call(x, y) = Call(x, y)
  /\ \A x : H!Ok(x) = Ok(x) /\ H!Dies(x) = Dies(x)
  /\ \A x, f, w : H!Outcome(x, f, w) = Outcome(x, f, w)
BY DEF H!Call, Call, H!Ok, Ok, H!Outcome, Outcome, H!Broken, Broken, H!Dies, Dies

Worlds ==
  [local : [Image -> Stored], remote : [Image -> [Platform -> Body \cup {None}]], workdir : BOOLEAN,
   config : {"go", "zig", None}]
Mine(c) == BaseImage \cup ToolImage \cup {AppTag(c), AppURI(c)}

\* The stores an operation o of a build with description c may lead to: it
\* changes images of its own, tool images stay tools, and only what is offered
\* reaches the registries.
Supplied(c, o, l, r) ==
  /\ l \in [Image -> Stored] /\ r \in [Image -> [Platform -> Body \cup {None}]]
  /\ \A i \in Image \ Mine(c) : l[i] = local[i]
  /\ \A i \in ToolImage : l[i].body \in {None, "tool"}
  /\ \A i \in Image : r[i] = remote[i] \/ (o.do \in {"push", "buildMulti"} /\ i = o.img)
  /\ \A i \in ToolImage, p \in Platform : r[i][p] \in {None, "tool"} /\ r[i][p] \in {remote[i][p], "tool"}
Reach(c, o, w) == w \in Worlds /\ w.config = config /\ Supplied(c, o, w.local, w.remote)
Fair(c, o, outs) == \A out \in outs : out.fault \in BOOLEAN /\ Reach(c, o, out.world)

\* The part of the invariant these facts need.
Stocked == TypeOK /\ ToolsAreTools

LEMMA ImagesInPlay == BaseImage \subseteq Image /\ ToolImage \subseteq Image
BY ContainerAssumption DEF ContainerAssumption

LEMMA StoredFacts ==
  /\ Absent \in Stored
  /\ \A p \in Platform, x \in Body : [plat |-> p, body |-> x] \in Stored
  /\ \A s \in Stored : /\ s.body \in Body \cup {None} /\ s.plat \in Platform \cup {None}
                        /\ s # Absent => s.body \in Body /\ s.plat \in Platform
  /\ None \notin Body /\ Host \in Platform /\ Alien \in Platform /\ "tool" \in Body /\ "fresh" \in Body
  /\ \A b : OfThisRun(b) \subseteq {"fresh", "foreign"} /\ OfThisRun(b) \subseteq Body /\ "fresh" \in OfThisRun(b)
BY DEF Stored, Absent, Body, None, Platform, OfThisRun

LEMMA PresentStored ==
  ASSUME NEW s \in Stored, s # Absent
  PROVE  s.body \in Body /\ s.plat \in Platform
BY DEF Stored, Absent

LEMMA ReachWorld ==
  ASSUME Stocked, NEW c, NEW o
  PROVE  Reach(c, o, World)
<1>1. World \in Worlds /\ World.config = config /\ World.local = local /\ World.remote = remote
  BY DEF Stocked, TypeOK, Worlds, World
<1>2. Supplied(c, o, local, remote)
  BY DEF Supplied, Stocked, TypeOK, ToolsAreTools
<1> QED
  BY <1>1, <1>2 DEF Reach

LEMMA ReachKept ==
  ASSUME NEW c, NEW o, NEW w, Reach(c, o, w), NEW i \in Mine(c), i \in Image, NEW image \in Stored,
         i \in ToolImage => image.body \in {None, "tool"}
  PROVE  /\ Reach(c, o, Keep(w, i, image)) /\ Keep(w, i, image).local[i] = image
         /\ Keep(w, i, image).remote = w.remote
<1> DEFINE l == [w.local EXCEPT ![i] = image]
           v == Keep(w, i, image)
<1>1. w \in Worlds /\ w.config = config /\ Supplied(c, o, w.local, w.remote)
  BY DEF Reach
<1>2. l \in [Image -> Stored] /\ l[i] = image /\ \A j \in Image : j # i => l[j] = w.local[j]
  BY <1>1 DEF Supplied
<1>3. v \in Worlds /\ v.local = l /\ v.remote = w.remote /\ v.config = w.config
  BY <1>1, <1>2 DEF Keep, Worlds
<1> HIDE DEF l, v
<1>4. Supplied(c, o, l, w.remote)
  BY <1>1, <1>2, ImagesInPlay DEF Supplied
<1> QED
  BY <1>1, <1>2, <1>3, <1>4 DEF Reach, v

LEMMA ReachFetched ==
  ASSUME NEW c, NEW o, NEW w, Reach(c, o, w), NEW i \in Mine(c), i \in Image, NEW p \in Platform, Offered(w, i, p)
  PROVE  Reach(c, o, Fetched(w, i, p)) /\ Fetched(w, i, p).local[i].body \in Body
<1> DEFINE image == [plat |-> p, body |-> w.remote[i][p]]
<1>1. w.remote[i][p] \in Body /\ (i \in ToolImage => w.remote[i][p] \in {None, "tool"})
  BY DEF Reach, Supplied, Offered
<1>2. image \in Stored /\ image.body = w.remote[i][p]
  BY <1>1, StoredFacts
<1>3. Fetched(w, i, p) = Keep(w, i, image)
  BY DEF Fetched
<1> HIDE DEF image
<1> QED
  BY <1>1, <1>2, <1>3, ReachKept

LEMMA ReachOffered ==
  ASSUME NEW c, NEW o, NEW w, Reach(c, o, w), NEW i \in Image, NEW ps, NEW body \in Body,
         o.do \in {"push", "buildMulti"}, i = o.img, i \in ToolImage => body = "tool"
  PROVE  /\ Reach(c, o, Offer(w, i, ps, body)) /\ Offer(w, i, ps, body).local = w.local
         /\ \A p \in Platform \cap ps : Offer(w, i, ps, body).remote[i][p] = body
<1> DEFINE r == [w.remote EXCEPT ![i] = [p \in Platform |-> IF p \in ps THEN body ELSE @[p]]]
           v == Offer(w, i, ps, body)
<1>1. w \in Worlds /\ w.config = config /\ Supplied(c, o, w.local, w.remote)
  BY DEF Reach
<1>2. w.remote \in [Image -> [Platform -> Body \cup {None}]]
  BY <1>1 DEF Supplied
<1>3. /\ r \in [Image -> [Platform -> Body \cup {None}]]
      /\ \A j \in Image : j # i => r[j] = w.remote[j]
      /\ \A p \in Platform : r[i][p] = IF p \in ps THEN body ELSE w.remote[i][p]
  BY <1>2
<1>4. v \in Worlds /\ v.local = w.local /\ v.remote = r /\ v.config = w.config
  BY <1>1, <1>3 DEF Offer, Worlds
<1> HIDE DEF r, v
<1>5. Supplied(c, o, w.local, r)
  <2>1. ASSUME NEW j \in ToolImage, NEW p \in Platform
        PROVE  r[j][p] \in {None, "tool"} /\ r[j][p] \in {remote[j][p], "tool"}
    BY <1>1, <1>3, ImagesInPlay DEF Supplied
  <2>2. ASSUME NEW j \in Image PROVE r[j] = remote[j] \/ (o.do \in {"push", "buildMulti"} /\ j = o.img)
    BY <1>1, <1>3 DEF Supplied
  <2> QED
    BY <1>1, <1>3, <2>1, <2>2 DEF Supplied
<1> QED
  BY <1>1, <1>3, <1>4, <1>5 DEF Reach, v

LEMMA FairOutcomes ==
  ASSUME NEW c, NEW o, NEW w, NEW d, Reach(c, o, w), Reach(c, o, d)
  PROVE  /\ Fair(c, o, Call(d, w)) /\ Fair(c, o, {Ok(w)}) /\ Fair(c, o, {Refused(w)}) /\ Fair(c, o, {Lost(w)})
         /\ Fair(c, o, {Dies(w)})
         /\ \A res : \A f \in BOOLEAN : Fair(c, o, {Outcome(res, f, w)})
BY DEF Fair, Call, Ok, Refused, Lost, Dies, Broken, Outcome

LEMMA FairUnion ==
  ASSUME NEW c, NEW o, NEW x, NEW y, Fair(c, o, x), Fair(c, o, y)
  PROVE  Fair(c, o, x \cup y)
BY DEF Fair

\* An answer is fair if it is on each of the managers.
LEMMA AnswersIn ==
  ASSUME Stocked, NEW x, NEW y, NEW z
  PROVE  /\ Answers(x, y, z) \in {x, y, z}
         /\ runtime # "host" => Answers(x, y, z) \in {x, y} /\ runtime \in {"docker", "podman"}
         /\ runtime = "podman" => Answers(x, y, z) = y
BY ContainerAssumption DEF Answers, Stocked, TypeOK, ContainerAssumption

LEMMA PullFair ==
  ASSUME Stocked, NEW b, NEW c, NEW o, NEW i \in Mine(c), i \in Image, NEW p \in Platform
  PROVE  Fair(c, o, Pulled(b, i, p)) /\ Fair(c, o, PullByPlatform(b, i, p))
<1> DEFINE w == World
<1>1. Reach(c, o, w)
  BY ReachWorld
<1>2. \A q \in Platform : Offered(w, i, q) => Reach(c, o, Fetched(w, i, q))
  BY <1>1, ReachFetched
<1> HIDE DEF w
<1>3. Fair(c, o, D!PullImage(w, i, p, Auth(b)))
  BY <1>1, <1>2, FairOutcomes, FairUnion, DockerTerms, StoredFacts DEF D!PullImage
<1>4. Fair(c, o, P!PullImage(w, i, p, Auth(b)))
  BY <1>1, <1>2, FairOutcomes, PodmanTerms DEF P!PullImage
<1>5. Fair(c, o, H!PullImage(w))
  BY <1>1, FairOutcomes, HostTerms DEF H!PullImage
<1>6. Fair(c, o, Pulled(b, i, p))
  BY <1>3, <1>4, <1>5, AnswersIn DEF Pulled, w
<1>7. Fair(c, o, PullByPlatform(b, i, p))
  BY <1>1, <1>6, FairOutcomes DEF PullByPlatform, w
<1> QED
  BY <1>6, <1>7

LEMMA BuildFair ==
  ASSUME Stocked, NEW c, NEW o, o.do \in {"build", "buildMulti"}, NEW i \in Mine(c), i \in Image, i = o.img,
         NEW body \in Body, i \in ToolImage => body = "tool"
  PROVE  /\ Fair(c, o, Answers(D!BuildImage(World, i, body), P!BuildImage(World, i, body), H!BuildImage(World)))
         /\ o.do = "buildMulti" =>
              Fair(c, o, Answers(D!BuildMultiArchImage(World, i, body), P!BuildMultiArchImage(World, i, body),
                                 H!BuildMultiArchImage(World)))
<1> DEFINE w == World
           k == Keep(w, i, [plat |-> Host, body |-> body])
           v == Offer(w, i, Platform, body)
           x == Fetched(v, i, Host)
           y == Offer(k, i, Platform, body)
<1>1. Reach(c, o, w)
  BY ReachWorld
<1>2. Reach(c, o, k)
  <2>1. [plat |-> Host, body |-> body] \in Stored
    BY StoredFacts
  <2> QED
    BY <1>1, <2>1, ReachKept
<1>3. ASSUME o.do = "buildMulti"
      PROVE  Reach(c, o, v) /\ Reach(c, o, x) /\ Reach(c, o, y)
  <2>1. Reach(c, o, v) /\ v.remote[i][Host] = body
    BY <1>1, <1>3, ReachOffered, StoredFacts
  <2>2. Offered(v, i, Host)
    BY <2>1, StoredFacts DEF Offered
  <2>3. Reach(c, o, x)
    BY <2>1, <2>2, ReachFetched, StoredFacts
  <2>4. Reach(c, o, y)
    BY <1>2, <1>3, ReachOffered
  <2> QED
    BY <2>1, <2>3, <2>4
<1> HIDE DEF w, k, v, x, y
<1>8. /\ \A a, d : Reach(c, o, a) /\ Reach(c, o, d) => Fair(c, o, Call(d, a))
      /\ \A a : Reach(c, o, a) => Fair(c, o, {Ok(a)}) /\ Fair(c, o, {Lost(a)}) /\ Fair(c, o, {Dies(a)})
  BY FairOutcomes
<1>9. \A X, Y : Fair(c, o, X) /\ Fair(c, o, Y) => Fair(c, o, X \cup Y)
  BY FairUnion
<1>4. /\ D!BuildImage(w, i, body) = Call(k, w) \cup {Lost(w)}
      /\ P!BuildImage(w, i, body) = {Ok(k)} \cup {Dies(w)}
      /\ H!BuildImage(w) = {Ok(w)}
  BY DockerTerms, PodmanTerms, HostTerms DEF D!BuildImage, P!BuildImage, H!BuildImage, k
<1>5. /\ Fair(c, o, D!BuildImage(w, i, body)) /\ Fair(c, o, P!BuildImage(w, i, body)) /\ Fair(c, o, H!BuildImage(w))
  <2>1. Fair(c, o, Call(k, w) \cup {Lost(w)})
    BY <1>1, <1>2, <1>8, <1>9
  <2>2. Fair(c, o, {Ok(k)} \cup {Dies(w)})
    BY <1>1, <1>2, <1>8, <1>9
  <2>3. Fair(c, o, {Ok(w)})
    BY <1>1, <1>8
  <2> QED
    BY <1>4, <2>1, <2>2, <2>3
<1>6. /\ D!BuildMultiArchImage(w, i, body) =
           (((Call(x, w) \cup {Lost(v)}) \cup {Dies(v)}) \cup ({Ok(w), Dies(w)} \ {Ok(w)}))
      /\ P!BuildMultiArchImage(w, i, body) = (({Ok(y)} \cup {Dies(w)}) \cup {Dies(k)})
      /\ H!BuildMultiArchImage(w) = {Dies(w)}
  <2>1. D!BuildMultiArchImage(w, i, body) =
           (((Call(x, w) \cup {Lost(v)}) \cup {Dies(v)}) \cup ({Ok(w), Dies(w)} \ {Ok(w)}))
    <3>1. D!EnsureBuilderExists(w) = {Ok(w), Dies(w)}
      BY DockerTerms DEF D!EnsureBuilderExists
    <3>2. D!Offer(w, i, D!Platform, body) = v
      BY DockerTerms DEF v
    <3>3. D!Fetched(v, i, Host) = x
      BY DockerTerms DEF x
    <3>4. D!BuildMultiArchImage(w, i, body) = (Call(x, w) \cup {Lost(v), Dies(v)}) \cup (D!EnsureBuilderExists(w) \ {Ok(w)})
      <4>1. D!Call(x, w) = Call(x, w) /\ D!Lost(v) = Lost(v) /\ D!Dies(v) = Dies(v) /\ D!Ok(w) = Ok(w)
        BY DockerTerms
      <4>2. D!BuildMultiArchImage(w, i, body) =
              (D!Call(D!Fetched(D!Offer(w, i, D!Platform, body), i, Host), w)
                 \cup {D!Lost(D!Offer(w, i, D!Platform, body)), D!Dies(D!Offer(w, i, D!Platform, body))})
              \cup (D!EnsureBuilderExists(w) \ {D!Ok(w)})
        BY DEF D!BuildMultiArchImage
      <4> QED
        BY ONLY <3>2, <3>3, <4>1, <4>2
    <3> QED
      BY <3>1, <3>4
  <2>2. P!BuildMultiArchImage(w, i, body) = (({Ok(y)} \cup {Dies(w)}) \cup {Dies(k)})
    BY PodmanTerms DEF P!BuildMultiArchImage, y, k
  <2>3. H!BuildMultiArchImage(w) = {Dies(w)}
    BY HostTerms DEF H!BuildMultiArchImage
  <2> QED
    BY <2>1, <2>2, <2>3
<1>7. ASSUME o.do = "buildMulti"
      PROVE  /\ Fair(c, o, D!BuildMultiArchImage(w, i, body)) /\ Fair(c, o, P!BuildMultiArchImage(w, i, body))
             /\ Fair(c, o, H!BuildMultiArchImage(w))
  <2>1. Reach(c, o, v) /\ Reach(c, o, x) /\ Reach(c, o, y)
    BY <1>3, <1>7
  <2>2. Fair(c, o, {Ok(w), Dies(w)} \ {Ok(w)})
    BY <1>1, <1>8 DEF Fair
  <2>3. Fair(c, o, (Call(x, w) \cup {Lost(v)}) \cup {Dies(v)})
    BY <1>1, <1>8, <1>9, <2>1
  <2>4. Fair(c, o, D!BuildMultiArchImage(w, i, body))
    BY <1>6, <1>9, <2>2, <2>3
  <2>5. Fair(c, o, ({Ok(y)} \cup {Dies(w)}) \cup {Dies(k)})
    BY <1>1, <1>2, <1>8, <1>9, <2>1
  <2>6. Fair(c, o, P!BuildMultiArchImage(w, i, body))
    BY <1>6, <2>5
  <2>7. Fair(c, o, {Dies(w)})
    BY <1>1, <1>8
  <2>8. Fair(c, o, H!BuildMultiArchImage(w))
    BY <1>6, <2>7
  <2> QED
    BY <2>4, <2>6, <2>8
<1> QED
  BY <1>5, <1>7, AnswersIn DEF w

LEMMA TagFair ==
  ASSUME Stocked, NEW c, NEW o, NEW i \in Mine(c), i \in Image, NEW image \in Stored,
         i \in ToolImage => image.body \in {None, "tool"}
  PROVE  LET outs == Answers(D!TagImage(World, image, i), P!TagImage(World, image, i), H!TagImage(World))
         IN  /\ Fair(c, o, outs)
             /\ runtime # "host" => \A out \in outs : out.res = "ok" => out.world.local[i] = image
<1> DEFINE w == World
           k == Keep(w, i, image)
<1>1. Reach(c, o, w)
  BY ReachWorld
<1>2. Reach(c, o, k) /\ k.local[i] = image
  BY <1>1, ReachKept
<1> HIDE DEF w, k
<1>3. /\ Fair(c, o, Call(k, w)) /\ Fair(c, o, {Refused(w)}) /\ Fair(c, o, {Ok(w)})
  BY <1>1, <1>2, FairOutcomes
<1>4. /\ D!TagImage(w, image, i) \in {Call(k, w), {Refused(w)}}
      /\ P!TagImage(w, image, i) \in {Call(k, w), {Refused(w)}}
      /\ H!TagImage(w) = {Ok(w)}
  BY DockerTerms, PodmanTerms, HostTerms DEF D!TagImage, P!TagImage, H!TagImage, k
<1>5. \A out \in Call(k, w) \cup {Refused(w)} : out.res = "ok" => out.world = k
  BY DEF Call, Ok, Broken, Refused, Outcome
<1> DEFINE outs == Answers(D!TagImage(w, image, i), P!TagImage(w, image, i), H!TagImage(w))
<1>6. /\ outs \in {Call(k, w), {Refused(w)}, {Ok(w)}}
      /\ runtime # "host" => outs \in {Call(k, w), {Refused(w)}}
  BY <1>4, AnswersIn
<1> HIDE DEF outs
<1>7. Fair(c, o, outs)
  BY <1>3, <1>6
<1>8. runtime # "host" => \A out \in outs : out.res = "ok" => out.world.local[i] = image
  BY <1>2, <1>5, <1>6
<1> QED
  BY <1>7, <1>8 DEF outs, w

LEMMA PushFair ==
  ASSUME Stocked, NEW b, NEW c, NEW o, o.do = "push", NEW i \in Mine(c), i \in Image, i = o.img
  PROVE  LET outs == Answers(D!PushImage(World, i, Auth(b)), P!PushImage(World, i, Auth(b)), H!PushImage(World))
         IN  /\ Fair(c, o, outs)
             /\ runtime # "host" => \A out \in outs : out.res = "ok" =>
                  /\ local[i].plat \in Platform /\ local[i].body \in Body
                  /\ (out.fault = TRUE /\ runtime = "docker") \/ out.world.remote[i][local[i].plat] = local[i].body
<1> DEFINE w == World
           v == Offer(w, i, {w.local[i].plat}, w.local[i].body)
<1>1. Reach(c, o, w) /\ w.local = local
  BY ReachWorld DEF World
<1>2. local[i] \in Stored /\ (i \in ToolImage => local[i].body \in {None, "tool"})
  BY DEF Stocked, TypeOK, ToolsAreTools
<1>3. ASSUME Present(w, i)
      PROVE  /\ local[i].plat \in Platform /\ local[i].body \in Body /\ Reach(c, o, v)
             /\ v.remote[i][local[i].plat] = local[i].body
  <2> HIDE DEF w
  <2>1. local[i].plat \in Platform /\ local[i].body \in Body /\ (i \in ToolImage => local[i].body = "tool")
    <3>1. local[i] \in Stored /\ local[i] # Absent
      BY <1>1, <1>2, <1>3 DEF Present
    <3>2. local[i].plat \in Platform /\ local[i].body \in Body
      BY ONLY <3>1, PresentStored
    <3> QED
      BY <1>2, <3>2, StoredFacts
  <2>2. Reach(c, o, v) /\ \A p \in Platform \cap {local[i].plat} : v.remote[i][p] = local[i].body
    <3> DEFINE ps == {local[i].plat}
               x == local[i].body
    <3>1. v = Offer(w, i, ps, x) /\ w.local[i].body = x
      BY <1>1
    <3>2. x \in Body /\ (i \in ToolImage => x = "tool") /\ o.do \in {"push", "buildMulti"} /\ Reach(c, o, w)
      BY <1>1, <2>1
    <3> HIDE DEF v, x, ps
    <3>3. Reach(c, o, Offer(w, i, ps, x)) /\ \A p \in Platform \cap ps : Offer(w, i, ps, x).remote[i][p] = x
      BY <3>2, ReachOffered
    <3> QED
      BY <3>1, <3>3 DEF ps, x
  <2> QED
    BY <2>1, <2>2
<1> HIDE DEF w, v
<1>4. /\ Fair(c, o, {Refused(w)}) /\ Fair(c, o, {Ok(w)}) /\ Fair(c, o, {Lost(w)})
      /\ Present(w, i) => Fair(c, o, Call(v, w)) /\ Fair(c, o, Call(v, w) \cup {Lost(w)})
  BY <1>1, <1>3, FairOutcomes, FairUnion
<1>5. /\ D!PushImage(w, i, Auth(b)) = {Refused(w)} \/ (Present(w, i) /\ D!PushImage(w, i, Auth(b)) = Call(v, w) \cup {Lost(w)})
      /\ P!PushImage(w, i, Auth(b)) = {Refused(w)} \/ (Present(w, i) /\ P!PushImage(w, i, Auth(b)) = Call(v, w))
      /\ H!PushImage(w) = {Ok(w)}
  BY DockerTerms, PodmanTerms, HostTerms DEF D!PushImage, P!PushImage, H!PushImage, v
<1>6. /\ \A out \in {Refused(w)} : out.res # "ok"
      /\ \A out \in Call(v, w) : out.res = "ok" => out.world = v
      /\ \A out \in {Lost(w)} : out.fault = TRUE
  BY DEF Call, Ok, Broken, Refused, Lost, Outcome
<1> DEFINE outs == Answers(D!PushImage(w, i, Auth(b)), P!PushImage(w, i, Auth(b)), H!PushImage(w))
<1>7. /\ outs \in {D!PushImage(w, i, Auth(b)), P!PushImage(w, i, Auth(b)), H!PushImage(w)}
      /\ runtime # "host" => outs = P!PushImage(w, i, Auth(b)) \/ (runtime = "docker" /\ outs = D!PushImage(w, i, Auth(b)))
  BY AnswersIn DEF Stocked, TypeOK, Answers
<1> HIDE DEF outs
<1>8. Fair(c, o, outs)
  BY <1>4, <1>5, <1>7
<1>9. ASSUME runtime # "host", NEW out \in outs, out.res = "ok"
      PROVE  /\ local[i].plat \in Platform /\ local[i].body \in Body
             /\ (out.fault = TRUE /\ runtime = "docker") \/ out.world.remote[i][local[i].plat] = local[i].body
  <2>1. Present(w, i) /\ ((out.fault = TRUE /\ runtime = "docker") \/ out.world = v)
    BY <1>5, <1>6, <1>7, <1>9
  <2> QED
    BY <1>3, <2>1
<1> QED
  BY <1>8, <1>9 DEF outs, w

LEMMA CreateFair ==
  ASSUME Stocked, NEW b, NEW c, NEW o, NEW i \in BaseImage \cup ToolImage, NEW auto \in BOOLEAN
  PROVE  LET outs == Answers(D!CreateContainer(World, i, auto, Auth(b)), P!CreateContainer(World, i, auto, Auth(b)),
                             H!CreateContainer(World))
         IN  /\ Fair(c, o, outs)
             /\ runtime # "host" => \A out \in outs : out.res = "ok" => out.world.local[i].body \in Body
<1> DEFINE w == World
           f == Fetched(w, i, Host)
<1>1. i \in Mine(c) /\ i \in Image
  BY ImagesInPlay DEF Mine
<1>2. Reach(c, o, w) /\ w.local = local
  BY ReachWorld DEF World
<1>3. Offered(w, i, Host) => Reach(c, o, f) /\ f.local[i].body \in Body
  BY <1>1, <1>2, ReachFetched, StoredFacts
<1>4. Present(w, i) => w.local[i].body \in Body
  <2> HIDE DEF w
  <2> SUFFICES ASSUME Present(w, i) PROVE w.local[i].body \in Body
    OBVIOUS
  <2>1. local[i] \in Stored
    BY <1>1 DEF Stocked, TypeOK
  <2>2. local[i] # Absent
    BY <1>2 DEF Present
  <2>3. local[i].body \in Body
    BY ONLY <2>1, <2>2, PresentStored
  <2> QED
    BY <1>2, <2>3
<1> HIDE DEF w, f
<1>5. /\ Fair(c, o, {Refused(w)}) /\ Fair(c, o, Call(w, w))
      /\ Offered(w, i, Host) => Fair(c, o, Call(f, w))
  BY <1>2, <1>3, FairOutcomes
<1> DEFINE Choice(s) == \/ s = {Refused(w)}
                        \/ Present(w, i) /\ s = Call(w, w)
                        \/ Offered(w, i, Host) /\ s = Call(f, w)
           x == D!CreateContainer(w, i, auto, Auth(b))
           y == P!CreateContainer(w, i, auto, Auth(b))
           z == H!CreateContainer(w)
<1>6. Choice(x)
  BY DockerTerms DEF D!CreateContainer, f
<1>7. Choice(y)
  BY PodmanTerms DEF P!CreateContainer, P!PullImage, f
<1>8. z = Call(w, w)
  BY HostTerms DEF H!CreateContainer
<1>9. \A s : Choice(s) => Fair(c, o, s)
  BY <1>5
<1>10. ASSUME NEW s, Choice(s), NEW out \in s, out.res = "ok"
       PROVE  out.world.local[i].body \in Body
  <2>1. /\ \A r \in {Refused(w)} : r.res # "ok"
        /\ \A d : \A r \in Call(d, w) : r.res = "ok" => r.world = d
    BY DEF Call, Ok, Broken, Refused, Outcome
  <2> QED
    BY <1>3, <1>4, <1>10, <2>1
<1> HIDE DEF Choice, x, y, z
<1>11. /\ Answers(x, y, z) \in {x, y, z}
       /\ runtime # "host" => Answers(x, y, z) \in {x, y}
  BY AnswersIn
<1> DEFINE outs == Answers(x, y, z)
<1> HIDE DEF outs
<1>12. Fair(c, o, outs)
  BY <1>5, <1>6, <1>7, <1>8, <1>9, <1>11 DEF outs
<1>13. ASSUME runtime # "host", NEW out \in outs, out.res = "ok" PROVE out.world.local[i].body \in Body
  <2>1. Choice(outs)
    BY <1>6, <1>7, <1>11, <1>13 DEF outs
  <2> QED
    BY <1>10, <1>13, <2>1
<1> QED
  BY <1>12, <1>13 DEF outs, x, y, z, w

LEMMA CommitFair ==
  ASSUME Stocked, NEW c, NEW o, NEW i \in Mine(c), i \in Image, i \notin ToolImage, NEW body,
         runtime # "host" => body \in Body
  PROVE  Fair(c, o, Answers(D!CommitContainer(World, i, body), P!CommitContainer(World, i, body),
                            H!CommitContainer(World)))
<1> DEFINE w == World
           k == Keep(w, i, [plat |-> Host, body |-> body])
<1>1. Reach(c, o, w)
  BY ReachWorld
<1>2. runtime # "host" => Reach(c, o, k)
  <2>1. runtime # "host" => [plat |-> Host, body |-> body] \in Stored
    BY StoredFacts
  <2> QED
    BY <1>1, <2>1, ReachKept
<1> HIDE DEF w, k
<1>3. /\ D!CommitContainer(w, i, body) = Call(k, w) /\ P!CommitContainer(w, i, body) = Call(k, w)
      /\ H!CommitContainer(w) = {Ok(w)}
  BY DockerTerms, PodmanTerms, HostTerms DEF D!CommitContainer, P!CommitContainer, H!CommitContainer, k
<1>4. Fair(c, o, {Ok(w)}) /\ (runtime # "host" => Fair(c, o, Call(k, w)))
  BY <1>1, <1>2, FairOutcomes
<1> DEFINE outs == Answers(D!CommitContainer(w, i, body), P!CommitContainer(w, i, body), H!CommitContainer(w))
<1>5. outs = IF runtime = "host" THEN {Ok(w)} ELSE Call(k, w)
  BY <1>3, ContainerAssumption DEF Answers, Stocked, TypeOK, ContainerAssumption
<1>6. Fair(c, o, outs)
  BY <1>4, <1>5
<1> QED
  BY <1>6 DEF w

\* The calls that leave images and registries alone.
LEMMA QuietFair ==
  ASSUME Stocked, NEW c, NEW o, NEW i, NEW x
  PROVE  /\ Fair(c, o, Call(World, World)) /\ Fair(c, o, {Ok(World)}) /\ Fair(c, o, {Refused(World)})
         /\ Fair(c, o, Answers(D!InspectImage(World, i), P!InspectImage(World, i), H!InspectImage(World)))
         /\ Fair(c, o, Answers(D!StopContainer(World), P!StopContainer(World), H!StopContainer(World)))
         /\ Fair(c, o, Answers(D!ExecContainer(World, x), P!ExecContainer(World, x), H!ExecContainer(World)))
         /\ Fair(c, o, Answers(D!CopyContentToContainer(World), P!CopyContentToContainer(World),
                               H!CopyContentToContainer(World, x)))
         /\ Fair(c, o, Answers(D!WaitContainer(World), P!WaitContainer(World), H!WaitContainer(World)))
<1> DEFINE w == World
           F(s) == Fair(c, o, s)
           lost == {Outcome("nonzero", TRUE, w)}
           dead == {Outcome("exit", FALSE, w)}
<1>1. Reach(c, o, w)
  BY ReachWorld
<1>2. F(Call(w, w)) /\ F({Ok(w)}) /\ F({Refused(w)}) /\ F(lost) /\ F(dead) /\ F({Dies(w)})
  BY <1>1, FairOutcomes
<1>3. F(Call(w, w) \cup lost) /\ F(Call(w, w) \cup {Dies(w)})
  BY <1>2, FairUnion
<1> HIDE DEF w, F, lost, dead
<1>4. /\ D!InspectImage(w, i) \in {Call(w, w), {Refused(w)}} /\ D!StopContainer(w) = Call(w, w)
      /\ D!ExecContainer(w, x) \in {Call(w, w), {Refused(w)}} /\ D!CopyContentToContainer(w) = Call(w, w)
      /\ D!WaitContainer(w) = Call(w, w) \cup lost
  BY DockerTerms DEF D!InspectImage, D!StopContainer, D!ExecContainer, D!CopyContentToContainer, D!WaitContainer, lost
<1>5. /\ P!InspectImage(w, i) \in {Call(w, w), {Refused(w)}} /\ P!StopContainer(w) = Call(w, w)
      /\ P!ExecContainer(w, x) \in {Call(w, w), {Refused(w)}} /\ P!CopyContentToContainer(w) = Call(w, w)
      /\ P!WaitContainer(w) = Call(w, w) \cup lost
  BY PodmanTerms DEF P!InspectImage, P!StopContainer, P!ExecContainer, P!CopyContentToContainer, P!WaitContainer, lost
<1>6. /\ H!InspectImage(w) = {Ok(w)} /\ H!StopContainer(w) = {Ok(w)} /\ H!ExecContainer(w) = {Ok(w)}
      /\ H!CopyContentToContainer(w, x) \in {Call(w, w) \cup {Dies(w)}, dead} /\ H!WaitContainer(w) = Call(w, w) \cup lost
  BY HostTerms DEF H!InspectImage, H!StopContainer, H!ExecContainer, H!CopyContentToContainer, H!WaitContainer, lost, dead
<1>7. \A s, t, u : F(s) /\ F(t) /\ F(u) => F(Answers(s, t, u))
  <2> SUFFICES ASSUME NEW s, NEW t, NEW u, F(s), F(t), F(u) PROVE F(Answers(s, t, u))
    OBVIOUS
  <2>1. Answers(s, t, u) \in {s, t, u}
    BY AnswersIn
  <2> QED
    BY <2>1
<1>8. /\ F(D!InspectImage(w, i)) /\ F(P!InspectImage(w, i)) /\ F(H!InspectImage(w))
      /\ F(D!StopContainer(w)) /\ F(P!StopContainer(w)) /\ F(H!StopContainer(w))
      /\ F(D!ExecContainer(w, x)) /\ F(P!ExecContainer(w, x)) /\ F(H!ExecContainer(w))
      /\ F(D!CopyContentToContainer(w)) /\ F(P!CopyContentToContainer(w)) /\ F(H!CopyContentToContainer(w, x))
      /\ F(D!WaitContainer(w)) /\ F(P!WaitContainer(w)) /\ F(H!WaitContainer(w))
  BY <1>2, <1>3, <1>4, <1>5, <1>6
<1>9. /\ F(Answers(D!InspectImage(w, i), P!InspectImage(w, i), H!InspectImage(w)))
      /\ F(Answers(D!StopContainer(w), P!StopContainer(w), H!StopContainer(w)))
      /\ F(Answers(D!ExecContainer(w, x), P!ExecContainer(w, x), H!ExecContainer(w)))
      /\ F(Answers(D!CopyContentToContainer(w), P!CopyContentToContainer(w), H!CopyContentToContainer(w, x)))
      /\ F(Answers(D!WaitContainer(w), P!WaitContainer(w), H!WaitContainer(w)))
  BY <1>7, <1>8
<1> QED
  BY <1>2, <1>9 DEF F, w

LEMMA StartFair ==
  ASSUME Stocked, NEW c, NEW o, NEW m \in BOOLEAN
  PROVE  Fair(c, o, Answers(D!StartContainer(World), P!StartContainer(World), H!StartContainer(World, m)))
<1> DEFINE w == World
           v == [w EXCEPT !.workdir = @ \/ m]
           dead == {Outcome("exit", FALSE, w)}
<1>1. Reach(c, o, w)
  BY ReachWorld
<1>2. Reach(c, o, v)
  <2>1. w \in Worlds
    BY <1>1 DEF Reach
  <2> HIDE DEF w
  <2>2. v \in Worlds /\ v.config = w.config /\ v.local = w.local /\ v.remote = w.remote
    BY <2>1 DEF Worlds
  <2> QED
    BY <1>1, <2>2 DEF Reach
<1> HIDE DEF w, v
<1>3. Fair(c, o, Call(w, w)) /\ Fair(c, o, dead) /\ Fair(c, o, Call(v, v) \cup {Dies(w)})
  BY <1>1, <1>2, FairOutcomes, FairUnion
<1>4. /\ D!StartContainer(w) = Call(w, w) /\ P!StartContainer(w) = Call(w, w)
      /\ H!StartContainer(w, m) \in {Call(w, w), dead, Call(v, v) \cup {Dies(w)}}
  BY DockerTerms, PodmanTerms, HostTerms
  DEF D!StartContainer, P!StartContainer, H!StartContainer, H!Broken, H!Outcome, Broken, Outcome, Call, v
<1> HIDE DEF dead
<1> DEFINE x == D!StartContainer(w)
           y == P!StartContainer(w)
           z == H!StartContainer(w, m)
<1>5. Fair(c, o, x) /\ Fair(c, o, y) /\ Fair(c, o, z)
  BY <1>3, <1>4
<1>6. Answers(x, y, z) \in {x, y, z}
  BY AnswersIn
<1> HIDE DEF x, y, z
<1>7. Fair(c, o, Answers(x, y, z))
  BY <1>5, <1>6
<1> QED
  BY <1>7 DEF w, x, y, z

\* What is copied has been found, except on the host.
LEMMA CopyFair ==
  ASSUME Stocked, NEW c, NEW o, NEW found \in BOOLEAN, NEW links \in BOOLEAN
  PROVE  LET file == Answers(D!CopyToContainer(World, found), P!CopyToContainer(World, found), H!CopyToContainer(World))
             dir == Answers(D!CopyDirectorToContainer(World, found, links), P!CopyDirectorToContainer(World, found, links),
                            H!CopyDirectorToContainer(World))
         IN  /\ Fair(c, o, file) /\ Fair(c, o, dir)
             /\ runtime # "host" => \A out \in file \cup dir : out.res = "ok" => found
<1> DEFINE w == World
           Choice(s) == s = {Refused(w)} \/ (found /\ s = Call(w, w))
           f1 == D!CopyToContainer(w, found)
           f2 == P!CopyToContainer(w, found)
           f3 == H!CopyToContainer(w)
           d1 == D!CopyDirectorToContainer(w, found, links)
           d2 == P!CopyDirectorToContainer(w, found, links)
           d3 == H!CopyDirectorToContainer(w)
<1>1. Fair(c, o, Call(w, w)) /\ Fair(c, o, {Ok(w)}) /\ Fair(c, o, {Refused(w)})
  BY QuietFair
<1> HIDE DEF w
<1>2. Choice(f1) /\ Choice(d1)
  BY DockerTerms DEF D!CopyToContainer, D!CopyDirectorToContainer
<1>3. Choice(f2) /\ Choice(d2)
  BY PodmanTerms DEF P!CopyToContainer, P!CopyDirectorToContainer
<1>4. f3 = {Ok(w)} /\ d3 = {Ok(w)}
  BY HostTerms DEF H!CopyToContainer, H!CopyDirectorToContainer
<1>5. \A r \in {Refused(w)} : r.res # "ok"
  BY DEF Refused, Outcome
<1> HIDE DEF f1, f2, f3, d1, d2, d3
<1>6. /\ Answers(f1, f2, f3) \in {f1, f2, f3} /\ (runtime # "host" => Answers(f1, f2, f3) \in {f1, f2})
      /\ Answers(d1, d2, d3) \in {d1, d2, d3} /\ (runtime # "host" => Answers(d1, d2, d3) \in {d1, d2})
  BY AnswersIn
<1>7. Fair(c, o, Answers(f1, f2, f3)) /\ Fair(c, o, Answers(d1, d2, d3))
  BY <1>1, <1>2, <1>3, <1>4, <1>6
<1>8. ASSUME runtime # "host", NEW out \in Answers(f1, f2, f3) \cup Answers(d1, d2, d3), out.res = "ok"
      PROVE  found
  BY <1>2, <1>3, <1>5, <1>6, <1>8
<1> QED
  BY <1>7, <1>8 DEF f1, f2, f3, d1, d2, d3, w

-----------------------------------------------------------------------------
(* What an operation does: it succeeds and the step goes on, or it fails,  *)
(* or operations take its place.                                           *)

Act(b) ==
  \/ ImageOp(b) \/ ContainerOp(b) \/ Prepare(b) \/ RefuseStep(b) \/ PassMark(b) \/ ConfigOp(b)

Common(b) ==
  /\ exited = "no" /\ todo[b] # <<>> /\ UNCHANGED place
  /\ faults' \in 0..MaxFaults /\ workdir' \in BOOLEAN /\ config' \in {"go", "zig", None} /\ skipped' \subseteq Image
  /\ Supplied(job[b].cfg, Op0(b), local', remote')
  /\ ctr' \in [Builds -> ContainerState] /\ disk' \in [Builds -> {None, "fresh", "stale", "foreign"}]
  /\ \A c \in Builds : c # b => ctr'[c] = ctr[c] /\ (disk'[c] = disk[c] \/ disk'[c] \in OfThisRun(c))

\* What a push is given; a call that failed on its own has been counted.
Given(b) ==
  [img |-> Op0(b).img, plat |-> local[Op0(b).img].plat, body |-> local[Op0(b).img].body,
   cut |-> (faults' # faults)]

Succeeds(b) ==
  LET o == Op0(b)
      x == ctr[b]
      y == ctr'[b]
  IN  /\ Goes(b)
      /\ y.state = "running" =>
           o.do = "start" \/ (x.state = "running" /\ o.do # "wait" /\ (o.do = "stop" => runtime = "host"))
      /\ y.state = "adrift" => x.state = "adrift"
      /\ runtime # "host" /\ o.do = "create" => y.body \in Body
      /\ runtime # "host" /\ o.do \in Copies => y.body = disk[b] /\ disk[b] \in Body
      /\ o.do \notin {"create"} \cup Copies => y.body = x.body
      /\ runtime # "host" /\ o.do = "commit" => y.made.body = x.body
      /\ o.do \notin {"create", "commit"} => y.made = x.made
      /\ y.config = x.config \/ y.config = None \/ (o.do = "bind" /\ y.config = config)
      /\ runtime # "host" /\ o.do = "tagCommit" => local'[o.img] = x.made
      /\ disk'[b] = IF o.do = "wait" /\ o.makes THEN "fresh" ELSE disk[b]
      /\ config' = IF o.do = "config" THEN o.language ELSE IF o.do = "unconfig" THEN None ELSE config
      /\ claimed' = IF o.do = "push" THEN claimed \cup {Given(b)} ELSE claimed
      /\ o.do = "push" /\ runtime # "host" =>
           /\ Given(b).plat \in Platform /\ Given(b).body \in Body
           /\ (Given(b).cut = TRUE /\ runtime = "docker") \/ remote'[Given(b).img][Given(b).plat] = Given(b).body

\* The operations that take the place of o offer no more than it did, and fail
\* as it does or with an exit.
Replaces(ops, o, S) ==
  /\ o.do \in {"pull", "ensure"} /\ ops \in Seq(S) /\ OffersOnce(ops)
  /\ \A k \in 1..Len(ops) :
       /\ ops[k].do \in {"pull", "ensure", "build", "buildMulti", "tag", "push"}
       /\ ops[k].fail \in {o.fail, "exit"}
       /\ \A i \in Image : Offers(ops[k], i) => Offers(o, i)

Fails(b) == Op0(b).do \notin {"mark", "unconfig"} /\ \E f \in {Op0(b).fail, "exit"} : Disposes(b, f)

\* A container that runs on behind a step that failed has failed the build.
Otherwise(b) ==
  /\ ctr'[b].state = "running" => ctr[b].state = "running" /\ Op0(b).do # "wait"
  /\ runtime # "host" /\ ctr'[b].state = "adrift" =>
       ctr[b].state = "adrift" \/ exited' # "no" \/ err'[b] = TRUE \/ Commenting(b)
  /\ ctr'[b].body = ctr[b].body /\ ctr'[b].made = ctr[b].made /\ ctr'[b].config = ctr[b].config
  /\ UNCHANGED <<disk, config, claimed>>
  /\ \/ Fails(b)
     \/ \E ops : Replaces(ops, Op0(b), StepOps(Current(b), job[b].cfg)) /\ Instead(b, ops)
     \/ exited' = "panic" /\ Op0(b).do = "wait" /\ UNCHANGED <<todo, err>>

LEMMA StepCfg ==
  ASSUME TypeOK, NEW b \in Builds
  PROVE  /\ job[b].cfg \in Cfg /\ job[b].steps \in Seq(StepName)
         /\ AppTag(job[b].cfg) \in Image /\ AppURI(job[b].cfg) \in Image
         /\ AppTag(job[b].cfg) \notin ToolImage \cup BaseImage /\ AppURI(job[b].cfg) \notin ToolImage \cup BaseImage
         /\ job[b].cfg.links \in BOOLEAN /\ runtime \in {"docker", "podman", "host"}
<1>1. job \in Jobs /\ runtime \in Runtimes /\ b \in DOMAIN job
  BY DEF TypeOK, Builds
<1>2. /\ job[b].cfg \in Cfg /\ job[b].steps \in Seq(StepName) /\ runtime \in {"docker", "podman", "host"}
      /\ AppTag(job[b].cfg) \in Image /\ AppURI(job[b].cfg) \in Image
  BY <1>1, ContainerAssumption DEF ContainerAssumption
<1>3. job[b].cfg.name \notin {"base", "tool"} /\ job[b].cfg.links \in BOOLEAN
  BY <1>2 DEF Cfg
<1>4. AppTag(job[b].cfg)[1] = job[b].cfg.name /\ AppURI(job[b].cfg)[1] = job[b].cfg.name
  BY DEF AppTag, AppURI
<1>5. \A i \in BaseImage : i[1] = "base"
  BY DEF BaseImage, Base
<1>6. \A i \in ToolImage : i[1] = "tool"
  BY DEF ToolImage, Tool
<1> QED
  BY <1>2, <1>3, <1>4, <1>5, <1>6

\* The operation at the head of a step.
LEMMA HeadOp ==
  ASSUME TypeOK, TodoTyped, NEW b \in Builds, todo[b] # <<>>
  PROVE  /\ pos[b] # 0 /\ pos[b] \in 1..Len(job[b].steps) /\ Current(b) \in StepName
         /\ todo[b] \in Seq(StepOps(Current(b), job[b].cfg))
         /\ Op0(b) \in StepOps(Current(b), job[b].cfg)
         /\ Op0(b) \in AnyOps(job[b].cfg)
         /\ Op0(b) = todo[b][1] /\ Len(todo[b]) \in Nat /\ Len(todo[b]) > 0
         /\ Rest(todo[b], 1, Tail(todo[b])) /\ Tail(todo[b]) \in Seq(StepOps(Current(b), job[b].cfg))
<1> DEFINE S == StepOps(Current(b), job[b].cfg)
<1>1. pos[b] # 0 /\ todo[b] \in Seq(S)
  BY DEF TodoTyped
<1>2. job[b].steps \in Seq(StepName)
  BY StepCfg
<1>3. pos[b] \in 0..Len(job[b].steps) /\ Len(job[b].steps) \in Nat
  BY <1>2, LenProperties DEF TypeOK
<1>4. pos[b] \in 1..Len(job[b].steps)
  BY <1>1, <1>3
<1>5. Current(b) \in StepName
  BY <1>2, <1>4, ElementOfSeq DEF Current
<1>6. S \subseteq AnyOps(job[b].cfg)
  BY DEF StepOps, AnyOps, ReleaseOps
<1> HIDE DEF S
<1>7. /\ Op0(b) \in S /\ Op0(b) = todo[b][1] /\ Len(todo[b]) \in Nat /\ Len(todo[b]) > 0
      /\ Rest(todo[b], 1, Tail(todo[b])) /\ Tail(todo[b]) \in Seq(S)
  BY <1>1, TailRest DEF Op0
<1> QED
  BY <1>1, <1>4, <1>5, <1>6, <1>7 DEF S

\* A call whose answers are fair.
LEMMA CallActs ==
  ASSUME TypeOK, NEW b \in Builds, NEW kind, NEW outs, NEW x \in ContainerState,
         Fair(job[b].cfg, Op0(b), outs), Calls(b, kind, outs, x)
  PROVE  /\ Common(b) /\ UNCHANGED <<disk, config, claimed>> /\ Op0(b).do = kind
         /\ \E out \in outs :
              /\ local' = out.world.local /\ remote' = out.world.remote
              /\ \/ out.res = "ok" /\ Goes(b) /\ ctr'[b] = x
                 \/ out.res # "ok" /\ ctr' = ctr /\ \E f \in {Op0(b).fail, "exit"} : Disposes(b, f)
<1>1. /\ exited = "no" /\ todo[b] # <<>> /\ Op0(b).do = kind
      /\ UNCHANGED <<disk, place, history>>
  BY DEF Calls, At
<1>2. PICK out \in outs :
        /\ Answered(out)
        /\ IF out.res = "ok" THEN Goes(b) /\ ctr' = [ctr EXCEPT ![b] = x]
           ELSE FailsAs(b, out) /\ UNCHANGED ctr
  BY DEF Calls
<1>3. out.fault \in BOOLEAN /\ Reach(job[b].cfg, Op0(b), out.world)
  BY <1>2 DEF Fair
<1>4. /\ local' = out.world.local /\ remote' = out.world.remote /\ workdir' = out.world.workdir
      /\ config' = out.world.config /\ faults' = (IF out.fault THEN faults + 1 ELSE faults) /\ faults' <= MaxFaults
  BY <1>2 DEF Answered, Becomes
<1>5. faults' \in 0..MaxFaults
  BY <1>3, <1>4, ContainerAssumption DEF TypeOK, ContainerAssumption
<1>6. /\ workdir' \in BOOLEAN /\ config' = config /\ config' \in {"go", "zig", None}
      /\ Supplied(job[b].cfg, Op0(b), local', remote')
  BY <1>3, <1>4 DEF Reach, Worlds
<1>7. ctr \in [Builds -> ContainerState] /\ disk \in [Builds -> {None, "fresh", "stale", "foreign"}] /\ skipped \subseteq Image
  BY DEF TypeOK
<1>8. /\ ctr' \in [Builds -> ContainerState] /\ \A c \in Builds : c # b => ctr'[c] = ctr[c]
      /\ \/ out.res = "ok" /\ Goes(b) /\ ctr'[b] = x
         \/ out.res # "ok" /\ ctr' = ctr /\ \E f \in {Op0(b).fail, "exit"} : Disposes(b, f)
  BY <1>2, <1>7 DEF FailsAs
<1>9. disk' = disk /\ skipped' = skipped /\ claimed' = claimed /\ UNCHANGED place
  BY <1>1 DEF history
<1>10. Common(b)
  BY <1>1, <1>5, <1>6, <1>7, <1>8, <1>9 DEF Common
<1> QED
  BY <1>1, <1>4, <1>6, <1>8, <1>9, <1>10

\* What every operation amounts to.
Acting(b) == Common(b) /\ (Succeeds(b) \/ Otherwise(b))

\* A call that does not succeed fails as its operation says.
LEMMA CallFails ==
  ASSUME TypeOK, NEW b \in Builds, NEW kind, NEW outs, NEW x \in ContainerState,
         Fair(job[b].cfg, Op0(b), outs), Calls(b, kind, outs, x), kind \notin {"mark", "unconfig", "wait"}
  PROVE  /\ Common(b) /\ UNCHANGED <<disk, config, claimed>> /\ Op0(b).do = kind
         /\ \/ Otherwise(b)
            \/ \E out \in outs :
                 /\ out.res = "ok" /\ Goes(b) /\ ctr'[b] = x
                 /\ local' = out.world.local /\ remote' = out.world.remote
<1>1. /\ Common(b) /\ UNCHANGED <<disk, config, claimed>> /\ Op0(b).do = kind
      /\ \E out \in outs :
           /\ local' = out.world.local /\ remote' = out.world.remote
           /\ \/ out.res = "ok" /\ Goes(b) /\ ctr'[b] = x
              \/ out.res # "ok" /\ ctr' = ctr /\ \E f \in {Op0(b).fail, "exit"} : Disposes(b, f)
  BY CallActs
<1>2. ASSUME ctr' = ctr, \E f \in {Op0(b).fail, "exit"} : Disposes(b, f)
      PROVE  Otherwise(b)
  BY <1>1, <1>2 DEF Otherwise, Fails
<1> QED
  BY <1>1, <1>2

\* A call that leaves the container as it was.
LEMMA PlainCall ==
  ASSUME TypeOK, NEW b \in Builds, NEW kind \in {"build", "buildMulti", "tag", "inspect", "exec", "put", "check", "refuse"},
         NEW outs, Fair(job[b].cfg, Op0(b), outs), Calls(b, kind, outs, ctr[b])
  PROVE  Acting(b)
<1>1. ctr[b] \in ContainerState
  BY DEF TypeOK
<1>2. /\ Common(b) /\ UNCHANGED <<disk, config, claimed>> /\ Op0(b).do = kind
      /\ Otherwise(b) \/ (Goes(b) /\ ctr'[b] = ctr[b])
  BY <1>1, CallFails
<1>3. ASSUME Goes(b), ctr'[b] = ctr[b]
      PROVE  Succeeds(b)
  BY <1>2, <1>3 DEF Succeeds, Copies
<1> QED
  BY <1>2, <1>3 DEF Acting

\* What the operation at the head says, and what the facts about calls need.
LEMMA HeadStocked ==
  ASSUME TypeOK, TodoTyped, ToolsAreTools, NEW b \in Builds, todo[b] # <<>>
  PROVE  /\ Stocked /\ ctr[b] \in ContainerState /\ Op0(b) \in AnyOps(job[b].cfg)
         /\ \A i \in ToolImage \cup {AppTag(job[b].cfg), AppURI(job[b].cfg)} : i \in Mine(job[b].cfg) /\ i \in Image
         /\ AppTag(job[b].cfg) \notin ToolImage /\ AppURI(job[b].cfg) \notin ToolImage
BY HeadOp, StepCfg, ImagesInPlay DEF Stocked, Mine, TypeOK

LEMMA BuildActs ==
  ASSUME TypeOK, TodoTyped, ToolsAreTools, NEW b \in Builds, BuildImage(b) \/ BuildImageByPlatforms(b)
  PROVE  Acting(b)
<1> DEFINE o == Op0(b)
           c == job[b].cfg
           single == Answers(D!BuildImage(World, o.img, o.body), P!BuildImage(World, o.img, o.body), H!BuildImage(World))
           multi == Answers(D!BuildMultiArchImage(World, o.img, o.body), P!BuildMultiArchImage(World, o.img, o.body),
                            H!BuildMultiArchImage(World))
<1>1. \/ o.do = "build" /\ Calls(b, "build", single, ctr[b])
      \/ o.do = "buildMulti" /\ Calls(b, "buildMulti", multi, ctr[b])
  BY DEF BuildImage, BuildImageByPlatforms, Calls, At
<1>2. todo[b] # <<>>
  BY DEF BuildImage, BuildImageByPlatforms, Calls, At
<1>3. o \in BuildOps(ToolImage, "tool") \cup BuildOps({AppTag(c)}, "fresh")
  BY <1>1, <1>2, HeadStocked, KindOf
<1>4. /\ o.do \in {"build", "buildMulti"} /\ o.img \in ToolImage \cup {AppTag(c)} /\ o.body \in Body
      /\ o.img \in ToolImage => o.body = "tool"
  BY <1>2, <1>3, HeadStocked, StoredFacts DEF BuildOps
<1>5. o.img \in Mine(c) /\ o.img \in Image /\ Stocked
  BY <1>2, <1>4, HeadStocked
<1>6. Fair(c, o, single) /\ (o.do = "buildMulti" => Fair(c, o, multi))
  BY <1>4, <1>5, BuildFair
<1> HIDE DEF single, multi
<1> QED
  BY <1>1, <1>6, PlainCall

LEMMA InspectActs ==
  ASSUME TypeOK, TodoTyped, ToolsAreTools, NEW b \in Builds,
         InspectImage(b) \/ ExecContainer(b) \/ CopyContentTo(b) \/ Prepare(b) \/ RefuseStep(b)
  PROVE  Acting(b)
<1> DEFINE o == Op0(b)
           running == ctr[b].state = "running"
           A == Answers(D!InspectImage(World, o.img), P!InspectImage(World, o.img), H!InspectImage(World))
           B == Answers(D!ExecContainer(World, running), P!ExecContainer(World, running), H!ExecContainer(World))
           C == Answers(D!CopyContentToContainer(World), P!CopyContentToContainer(World),
                        H!CopyContentToContainer(World, o.script))
<1>1. \/ Calls(b, "inspect", A, ctr[b]) \/ Calls(b, "exec", B, ctr[b]) \/ Calls(b, "put", C, ctr[b])
      \/ Calls(b, "check", Call(World, World), ctr[b]) \/ Calls(b, "refuse", {Refused(World)}, ctr[b])
  BY DEF InspectImage, ExecContainer, CopyContentTo, Prepare, RefuseStep
<1>2. Stocked
  BY DEF Stocked
<1>3. /\ Fair(job[b].cfg, o, A) /\ Fair(job[b].cfg, o, B) /\ Fair(job[b].cfg, o, C)
      /\ Fair(job[b].cfg, o, Call(World, World)) /\ Fair(job[b].cfg, o, {Refused(World)})
  BY <1>2, QuietFair
<1> HIDE DEF A, B, C
<1> QED
  BY <1>1, <1>3, PlainCall

LEMMA TagActs ==
  ASSUME TypeOK, TodoTyped, ToolsAreTools, NEW b \in Builds, Tag(b)
  PROVE  Acting(b)
<1> DEFINE o == Op0(b)
           c == job[b].cfg
           image == IF o.do = "tag" THEN local[o.src] ELSE ctr[b].made
           outs == Answers(D!TagImage(World, image, o.img), P!TagImage(World, image, o.img), H!TagImage(World))
<1>1. \/ o.do = "tag" /\ Calls(b, "tag", outs, ctr[b])
      \/ o.do = "tagCommit" /\ Calls(b, "tagCommit", outs, ctr[b])
  BY DEF Tag, Calls, At
<1>2. todo[b] # <<>>
  BY DEF Tag, Calls, At
<1>3. \/ o.do = "tag" /\ o \in RetagOps(ToolImage \cup {AppTag(c)}) \cup PublishOps(c)
      \/ o.do = "tagCommit" /\ o \in TagCommitOps({AppTag(c), AppURI(c)})
  BY <1>1, <1>2, HeadStocked, KindOf
<1>4. /\ o.img \in ToolImage \cup {AppTag(c), AppURI(c)} /\ Stocked /\ ctr[b] \in ContainerState
      /\ o.img \in Mine(c) /\ o.img \in Image
      /\ o.do = "tag" => o.src \in Image /\ (o.img \in ToolImage => o.src = o.img)
      /\ o.do = "tagCommit" => o.img \notin ToolImage
  <2>1. o.do = "tag" => /\ o.img \in ToolImage \cup {AppTag(c), AppURI(c)} /\ o.src \in ToolImage \cup {AppTag(c)}
                        /\ (o.src = o.img \/ o.img = AppURI(c))
    BY <1>3 DEF RetagOps, PublishOps
  <2>2. o.do = "tagCommit" => o.img \in {AppTag(c), AppURI(c)}
    BY <1>3 DEF TagCommitOps
  <2> HIDE DEF o, c
  <2> QED
    BY <1>2, <1>3, <2>1, <2>2, HeadStocked DEF o, c
<1>5. image \in Stored /\ (o.img \in ToolImage => image.body \in {None, "tool"})
  <2>1. ctr[b].made \in Stored
    BY <1>4 DEF ContainerState
  <2>2. o.do = "tag" => local[o.src] \in Stored /\ (o.img \in ToolImage => local[o.src].body \in {None, "tool"})
    BY <1>4 DEF TypeOK, ToolsAreTools
  <2> QED
    BY <1>3, <1>4, <2>1, <2>2
<1>6. /\ Fair(c, o, outs)
      /\ runtime # "host" => \A out \in outs : out.res = "ok" => out.world.local[o.img] = image
  BY <1>4, <1>5, TagFair
<1>7. CASE o.do = "tag"
  BY <1>1, <1>6, <1>7, PlainCall
<1>8. CASE o.do = "tagCommit"
  <2>1. Calls(b, "tagCommit", outs, ctr[b]) /\ image = ctr[b].made
    BY <1>1, <1>8
  <2> HIDE DEF outs, image
  <2>2. /\ Common(b) /\ UNCHANGED <<disk, config, claimed>>
        /\ \/ Otherwise(b)
           \/ \E out \in outs :
                /\ out.res = "ok" /\ Goes(b) /\ ctr'[b] = ctr[b]
                /\ local' = out.world.local /\ remote' = out.world.remote
    BY <1>4, <1>6, <2>1, CallFails
  <2>3. Otherwise(b) \/ (Goes(b) /\ ctr'[b] = ctr[b] /\ (runtime # "host" => local'[o.img] = ctr[b].made))
    BY <1>6, <2>1, <2>2
  <2>4. ASSUME Goes(b), ctr'[b] = ctr[b], runtime # "host" => local'[o.img] = ctr[b].made
        PROVE  Succeeds(b)
    BY <1>8, <2>2, <2>4 DEF Succeeds, Copies
  <2> QED
    BY <2>2, <2>3, <2>4 DEF Acting
<1> QED
  BY <1>1, <1>7, <1>8

LEMMA AnswerActs ==
  ASSUME TypeOK, NEW b \in Builds, NEW out, out.fault \in BOOLEAN, Reach(job[b].cfg, Op0(b), out.world), Answered(out),
         exited = "no", todo[b] # <<>>
  PROVE  /\ faults' \in 0..MaxFaults /\ workdir' \in BOOLEAN /\ config' = config /\ config \in {"go", "zig", None}
         /\ Supplied(job[b].cfg, Op0(b), local', remote')
         /\ local' = out.world.local /\ remote' = out.world.remote
<1>1. /\ local' = out.world.local /\ remote' = out.world.remote /\ workdir' = out.world.workdir
      /\ config' = out.world.config /\ faults' = (IF out.fault THEN faults + 1 ELSE faults) /\ faults' <= MaxFaults
  BY DEF Answered, Becomes
<1>2. faults' \in 0..MaxFaults
  BY <1>1, ContainerAssumption DEF TypeOK, ContainerAssumption
<1> QED
  BY <1>1, <1>2 DEF Reach, Worlds, TypeOK

LEMMA PushActs ==
  ASSUME TypeOK, TodoTyped, ToolsAreTools, NEW b \in Builds, Push(b)
  PROVE  Acting(b)
<1> DEFINE o == Op0(b)
           c == job[b].cfg
           outs == Answers(D!PushImage(World, o.img, Auth(b)), P!PushImage(World, o.img, Auth(b)), H!PushImage(World))
           given(cut) == [img |-> o.img, plat |-> local[o.img].plat, body |-> local[o.img].body, cut |-> cut]
<1>1. /\ exited = "no" /\ todo[b] # <<>> /\ o.do = "push" /\ UNCHANGED <<ctr, disk, place, skipped>>
      /\ \E out \in outs :
           /\ Answered(out)
           /\ IF out.res = "ok" THEN Goes(b) /\ claimed' = claimed \cup {given(out.fault)}
              ELSE FailsAs(b, out) /\ UNCHANGED claimed
  BY DEF Push, At
<1>2. o \in PushOps(ToolImage \cup {AppTag(c), AppURI(c)})
  BY <1>1, HeadStocked, KindOf
<1>3. o.img \in ToolImage \cup {AppTag(c), AppURI(c)} /\ Stocked
  BY <1>1, <1>2, HeadStocked DEF PushOps
<1>4. o.img \in Mine(c) /\ o.img \in Image
  BY <1>1, <1>3, HeadStocked
<1>5. /\ Fair(c, o, outs)
      /\ runtime # "host" => \A out \in outs : out.res = "ok" =>
           /\ local[o.img].plat \in Platform /\ local[o.img].body \in Body
           /\ (out.fault = TRUE /\ runtime = "docker") \/ out.world.remote[o.img][local[o.img].plat] = local[o.img].body
  BY <1>1, <1>3, <1>4, PushFair
<1> HIDE DEF outs
<1>6. PICK out \in outs :
        /\ Answered(out)
        /\ IF out.res = "ok" THEN Goes(b) /\ claimed' = claimed \cup {given(out.fault)}
           ELSE FailsAs(b, out) /\ UNCHANGED claimed
  BY <1>1
<1>7. out.fault \in BOOLEAN /\ Reach(c, o, out.world)
  BY <1>5 DEF Fair
<1>12. out.fault = (faults' # faults) /\ given(out.fault) = Given(b)
  <2>1. faults' = (IF out.fault THEN faults + 1 ELSE faults) /\ faults \in Nat
    BY <1>6 DEF Answered, TypeOK
  <2>2. CASE out.fault = TRUE
    <3>1. (faults' # faults) = TRUE
      BY <2>1, <2>2
    <3> QED
      BY <2>2, <3>1 DEF Given
  <2>3. CASE out.fault = FALSE
    <3>1. (faults' # faults) = FALSE
      BY <2>1, <2>3
    <3> QED
      BY <2>3, <3>1 DEF Given
  <2> QED
    BY <1>7, <2>2, <2>3
<1> HIDE DEF given
<1>8. /\ faults' \in 0..MaxFaults /\ workdir' \in BOOLEAN /\ config' = config /\ config \in {"go", "zig", None}
      /\ Supplied(c, o, local', remote') /\ remote' = out.world.remote
  BY <1>1, <1>6, <1>7, AnswerActs
<1>9. Common(b)
  BY <1>1, <1>8 DEF Common, TypeOK
<1>10. CASE out.res = "ok"
  <2>1. Goes(b) /\ claimed' = claimed \cup {Given(b)} /\ ctr' = ctr /\ disk' = disk /\ config' = config
    BY <1>1, <1>6, <1>8, <1>10, <1>12
  <2>2. runtime # "host" =>
          /\ Given(b).plat \in Platform /\ Given(b).body \in Body
          /\ (Given(b).cut = TRUE /\ runtime = "docker") \/ remote'[Given(b).img][Given(b).plat] = Given(b).body
    <3>1. /\ Given(b).plat = local[o.img].plat /\ Given(b).body = local[o.img].body
          /\ Given(b).img = o.img /\ Given(b).cut = out.fault
      BY <1>12 DEF Given
    <3> HIDE DEF o
    <3> QED
      BY <1>5, <1>8, <1>10, <3>1
  <2>3. Succeeds(b)
    BY <1>1, <2>1, <2>2 DEF Succeeds, Copies
  <2> QED
    BY <1>9, <2>3 DEF Acting
<1>11. CASE out.res # "ok"
  <2>1. Otherwise(b)
    BY <1>1, <1>6, <1>8, <1>11 DEF Otherwise, Fails, FailsAs
  <2> QED
    BY <1>9, <2>1 DEF Acting
<1> QED
  BY <1>10, <1>11

LEMMA CreateActs ==
  ASSUME TypeOK, TodoTyped, ToolsAreTools, NEW b \in Builds, CreateContainer(b)
  PROVE  Acting(b)
<1> DEFINE o == Op0(b)
           c == job[b].cfg
           outs == Answers(D!CreateContainer(World, o.img, o.auto, Auth(b)),
                           P!CreateContainer(World, o.img, o.auto, Auth(b)), H!CreateContainer(World))
           made(out) == [state |-> "created", made |-> Absent, config |-> None,
                         body |-> IF runtime = "host" THEN None ELSE out.world.local[o.img].body]
<1>1. /\ exited = "no" /\ todo[b] # <<>> /\ o.do = "create" /\ UNCHANGED <<disk, place, history>>
      /\ \E out \in outs :
           /\ Answered(out)
           /\ IF out.res = "ok" THEN ctr' = [ctr EXCEPT ![b] = made(out)] /\ Goes(b)
              ELSE FailsAs(b, out) /\ UNCHANGED ctr
  BY DEF CreateContainer, At
<1>2. o \in CreateOps
  BY <1>1, HeadStocked, KindOf
<1>3. o.img \in BaseImage \cup ToolImage /\ o.auto \in BOOLEAN /\ Stocked
  BY <1>1, <1>2, HeadStocked DEF CreateOps
<1>4. /\ Fair(c, o, outs)
      /\ runtime # "host" => \A out \in outs : out.res = "ok" => out.world.local[o.img].body \in Body
  BY <1>3, CreateFair
<1> HIDE DEF outs, made
<1>5. PICK out \in outs :
        /\ Answered(out)
        /\ IF out.res = "ok" THEN ctr' = [ctr EXCEPT ![b] = made(out)] /\ Goes(b)
           ELSE FailsAs(b, out) /\ UNCHANGED ctr
  BY <1>1
<1>6. out.fault \in BOOLEAN /\ Reach(c, o, out.world)
  BY <1>4 DEF Fair
<1>7. /\ faults' \in 0..MaxFaults /\ workdir' \in BOOLEAN /\ config' = config /\ config \in {"go", "zig", None}
      /\ Supplied(c, o, local', remote')
  BY <1>1, <1>5, <1>6, AnswerActs
<1>8. /\ ctr \in [Builds -> ContainerState] /\ disk \in [Builds -> {None, "fresh", "stale", "foreign"}] /\ skipped \subseteq Image
      /\ skipped' = skipped /\ disk' = disk /\ claimed' = claimed /\ UNCHANGED place
  BY <1>1 DEF TypeOK, history
<1>9. CASE out.res = "ok"
  <2>1. /\ made(out).state = "created" /\ made(out).made = Absent /\ made(out).config = None
        /\ made(out).body = IF runtime = "host" THEN None ELSE out.world.local[o.img].body
    BY DEF made
  <2>2. made(out) \in ContainerState
    BY <1>4, <1>9, StoredFacts DEF made, ContainerState
  <2>3. ctr' \in [Builds -> ContainerState] /\ ctr'[b] = made(out) /\ \A d \in Builds : d # b => ctr'[d] = ctr[d]
    BY <1>5, <1>8, <1>9, <2>2
  <2>4. Common(b)
    BY <1>1, <1>7, <1>8, <2>3 DEF Common
  <2>5. Succeeds(b)
    BY <1>1, <1>4, <1>5, <1>7, <1>8, <1>9, <2>1, <2>3 DEF Succeeds, Copies
  <2> QED
    BY <2>4, <2>5 DEF Acting
<1>10. CASE out.res # "ok"
  <2>1. Otherwise(b)
    BY <1>1, <1>5, <1>7, <1>8, <1>10 DEF Otherwise, Fails, FailsAs
  <2>2. Common(b)
    BY <1>1, <1>5, <1>7, <1>8, <1>10 DEF Common
  <2> QED
    BY <2>1, <2>2 DEF Acting
<1> QED
  BY <1>9, <1>10

LEMMA StartActs ==
  ASSUME TypeOK, TodoTyped, ToolsAreTools, NEW b \in Builds, StartContainer(b) \/ StopContainer(b)
  PROVE  Acting(b)
<1> DEFINE o == Op0(b)
           c == job[b].cfg
           A == Answers(D!StartContainer(World), P!StartContainer(World), H!StartContainer(World, o.mounts))
           B == Answers(D!StopContainer(World), P!StopContainer(World), H!StopContainer(World))
           y == IF runtime = "host" THEN ctr[b] ELSE In(b, "exited")
<1>1. \/ o.do = "start" /\ Calls(b, "start", A, In(b, "running"))
      \/ o.do = "stop" /\ Calls(b, "stop", B, y)
  BY DEF StartContainer, StopContainer, Calls, At
<1>2. todo[b] # <<>>
  BY DEF StartContainer, StopContainer, Calls, At
<1>3. Stocked /\ ctr[b] \in ContainerState
  BY <1>2, HeadStocked
<1>4. \A s \in {"running", "exited"} :
        /\ In(b, s) \in ContainerState /\ In(b, s).state = s /\ In(b, s).body = ctr[b].body
        /\ In(b, s).made = ctr[b].made /\ In(b, s).config = ctr[b].config
  BY <1>3 DEF In, ContainerState
<1>5. Fair(c, o, B)
  BY <1>3, QuietFair
<1>6. o.do = "start" => Fair(c, o, A)
  <2>1. o.do = "start" => o \in StartOps
    BY <1>2, HeadStocked, KindOf
  <2>2. o.do = "start" => o.mounts \in BOOLEAN
    BY <2>1 DEF StartOps
  <2> QED
    BY <1>3, <2>2, StartFair
<1> HIDE DEF A, B
<1>7. CASE o.do = "start" /\ Calls(b, "start", A, In(b, "running"))
  <2>1. /\ Common(b) /\ UNCHANGED <<disk, config, claimed>>
        /\ Otherwise(b) \/ (Goes(b) /\ ctr'[b] = In(b, "running"))
    BY <1>4, <1>6, <1>7, CallFails
  <2>2. ASSUME Goes(b), ctr'[b] = In(b, "running")
        PROVE  Succeeds(b)
    BY <1>4, <1>7, <2>1, <2>2 DEF Succeeds, Copies
  <2> QED
    BY <2>1, <2>2 DEF Acting
<1>8. CASE o.do = "stop" /\ Calls(b, "stop", B, y)
  <2>1. /\ y \in ContainerState /\ y.body = ctr[b].body /\ y.made = ctr[b].made /\ y.config = ctr[b].config
        /\ y.state = "running" => runtime = "host" /\ ctr[b].state = "running"
        /\ y.state = "adrift" => ctr[b].state = "adrift"
    BY <1>3, <1>4
  <2> HIDE DEF y
  <2>2. /\ Common(b) /\ UNCHANGED <<disk, config, claimed>>
        /\ Otherwise(b) \/ (Goes(b) /\ ctr'[b] = y)
    BY <1>5, <1>8, <2>1, CallFails
  <2>3. ASSUME Goes(b), ctr'[b] = y
        PROVE  Succeeds(b)
    BY <1>8, <2>1, <2>2, <2>3 DEF Succeeds, Copies
  <2> QED
    BY <2>2, <2>3 DEF Acting
<1> QED
  BY <1>1, <1>7, <1>8

LEMMA CopyActs ==
  ASSUME TypeOK, TodoTyped, ToolsAreTools, NEW b \in Builds, CopyFileTo(b) \/ CopyDirectoryTo(b)
  PROVE  Acting(b)
<1> DEFINE o == Op0(b)
           c == job[b].cfg
           found == disk[b] # None
           links == job[b].cfg.links
           A == Answers(D!CopyToContainer(World, found), P!CopyToContainer(World, found), H!CopyToContainer(World))
           B == Answers(D!CopyDirectorToContainer(World, found, links), P!CopyDirectorToContainer(World, found, links),
                        H!CopyDirectorToContainer(World))
           y == Holding(b)
<1>1. Calls(b, "copyFile", A, y) \/ Calls(b, "copyDir", B, y)
  BY DEF CopyFileTo, CopyDirectoryTo
<1>2. todo[b] # <<>> /\ o.do \in Copies
  BY DEF CopyFileTo, CopyDirectoryTo, Calls, At, Copies
<1>3. Stocked /\ ctr[b] \in ContainerState /\ links \in BOOLEAN /\ disk[b] \in {None, "fresh", "stale", "foreign"}
  BY <1>2, HeadStocked, StepCfg DEF TypeOK
<1>4. /\ y \in ContainerState /\ y.state = ctr[b].state /\ y.body = disk[b]
      /\ y.made = ctr[b].made /\ y.config = ctr[b].config
  BY <1>3 DEF Holding, ContainerState, Body
<1>5. /\ Fair(c, o, A) /\ Fair(c, o, B)
      /\ runtime # "host" => \A out \in A \cup B : out.res = "ok" => found
  <2> DEFINE f == found
             l == links
  <2>1. f \in BOOLEAN /\ l \in BOOLEAN
    BY <1>3
  <2> HIDE DEF f, l
  <2>2. LET file == Answers(D!CopyToContainer(World, f), P!CopyToContainer(World, f), H!CopyToContainer(World))
            dir == Answers(D!CopyDirectorToContainer(World, f, l), P!CopyDirectorToContainer(World, f, l),
                           H!CopyDirectorToContainer(World))
        IN  /\ Fair(c, o, file) /\ Fair(c, o, dir)
            /\ runtime # "host" => \A out \in file \cup dir : out.res = "ok" => f
    BY <1>3, <2>1, CopyFair
  <2> QED
    BY <2>2 DEF f, l
<1> HIDE DEF A, B, y, found
<1>6. /\ Common(b) /\ UNCHANGED <<disk, config, claimed>>
      /\ Otherwise(b) \/ (Goes(b) /\ ctr'[b] = y /\ (runtime # "host" => found))
  <2>1. CASE Calls(b, "copyFile", A, y)
    BY <1>4, <1>5, <2>1, CallFails
  <2>2. CASE Calls(b, "copyDir", B, y)
    BY <1>4, <1>5, <2>2, CallFails
  <2> QED
    BY <1>1, <2>1, <2>2
<1>7. ASSUME Goes(b), ctr'[b] = y, runtime # "host" => found
      PROVE  Succeeds(b)
  <2>1. runtime # "host" => disk[b] \in Body
    BY <1>3, <1>7 DEF found, Body
  <2>2. o.do \notin {"start", "wait", "stop", "create", "commit", "bind", "tagCommit", "config", "unconfig", "push"}
    BY <1>2 DEF Copies
  <2> QED
    BY <1>2, <1>4, <1>6, <1>7, <2>1, <2>2 DEF Succeeds
<1> QED
  BY <1>6, <1>7 DEF Acting

LEMMA CommitActs ==
  ASSUME TypeOK, TodoTyped, ToolsAreTools, Created, NEW b \in Builds, CommitContainer(b)
  PROVE  Acting(b)
<1> DEFINE o == Op0(b)
           c == job[b].cfg
           body == ctr[b].body
           outs == Answers(D!CommitContainer(World, o.img, body), P!CommitContainer(World, o.img, body),
                           H!CommitContainer(World))
           y == [ctr[b] EXCEPT !.made = IF runtime = "host" THEN Absent ELSE [plat |-> Host, body |-> body]]
<1>1. Calls(b, "commit", outs, y) /\ o.do = "commit" /\ todo[b] # <<>>
  BY DEF CommitContainer, Calls, At
<1>2. o.img = AppTag(c)
  BY <1>1, HeadStocked, KindOf DEF CommitOps
<1>3. o.img \in Mine(c) /\ o.img \in Image /\ o.img \notin ToolImage /\ Stocked /\ ctr[b] \in ContainerState
  BY <1>1, <1>2, HeadStocked
<1>4. runtime # "host" => body \in Body
  <2>1. Op0(b) = todo[b][1] /\ Len(todo[b]) \in Nat /\ Len(todo[b]) > 0
    BY <1>1, HeadOp
  <2> QED
    BY <1>1, <2>1 DEF Created
<1>5. Fair(c, o, outs)
  BY <1>3, <1>4, CommitFair
<1>6. /\ y \in ContainerState /\ y.state = ctr[b].state /\ y.body = ctr[b].body
      /\ y.config = ctr[b].config /\ (runtime # "host" => y.made.body = ctr[b].body)
  <2>1. (IF runtime = "host" THEN Absent ELSE [plat |-> Host, body |-> body]) \in Stored
    BY <1>4, StoredFacts
  <2>2. /\ y \in ContainerState /\ y.state = ctr[b].state /\ y.body = ctr[b].body /\ y.config = ctr[b].config
        /\ y.made = (IF runtime = "host" THEN Absent ELSE [plat |-> Host, body |-> body])
    BY <1>3, <2>1 DEF ContainerState
  <2> QED
    BY <2>2
<1> HIDE DEF outs, y
<1>7. /\ Common(b) /\ UNCHANGED <<disk, config, claimed>>
      /\ Otherwise(b) \/ (Goes(b) /\ ctr'[b] = y)
  BY <1>1, <1>5, <1>6, CallFails
<1>8. ASSUME Goes(b), ctr'[b] = y
      PROVE  Succeeds(b)
  BY <1>1, <1>6, <1>7, <1>8 DEF Succeeds, Copies
<1> QED
  BY <1>7, <1>8 DEF Acting

\* Only a comment goes on when its container cannot be waited for.
LEMMA WaitFails ==
  ASSUME NEW b \in Builds, Op0(b) \in StepOps(Current(b), job[b].cfg), Op0(b).do = "wait", pos[b] > 0
  PROVE  Op0(b).fail \in {"exit", "err", "defer"} \/ Commenting(b)
<1> DEFINE c == job[b].cfg
           o == Op0(b)
           S == Current(b)
<1>1. \A x \in PlainOps(c) \cup ReleaseOps(c) \cup ProdOps(c) : x.do = "wait" => x.fail \in {"exit", "err", "defer"}
  BY DEF ReleaseOps, ProdOps, PlainOps, QuietOps, MarkOps, BindOps, ConfigOps, PullOps, EnsureOps, BuildOps, RetagOps,
         PublishOps, PushOps, TagCommitOps, InspectOps, CreateOps, StartOps, PutOps, WaitOps, CommitOps, BareOps
<1>2. CASE S = "github" /\ c.pr
  BY <1>2 DEF Commenting, Current
<1>3. CASE S # "github" \/ ~c.pr
  <2>1. o \in PlainOps(c) \cup ReleaseOps(c) \cup ProdOps(c)
    BY <1>3 DEF StepOps, GithubOps, ProdStep
  <2> QED
    BY <1>1, <2>1
<1> QED
  BY <1>2, <1>3

\* The container has ended, or the call failed and it goes on.
LEMMA WaitActs ==
  ASSUME TypeOK, TodoTyped, ToolsAreTools, NEW b \in Builds, WaitContainer(b)
  PROVE  Acting(b)
<1> DEFINE o == Op0(b)
           outs == Answers(D!WaitContainer(World), P!WaitContainer(World), H!WaitContainer(World))
           y(out) == [ctr[b] EXCEPT !.state = WaitEnds(out.res)]
<1>1. /\ exited = "no" /\ todo[b] # <<>> /\ o.do = "wait" /\ UNCHANGED <<place, history>>
      /\ \E out \in outs :
         /\ ctr' = [ctr EXCEPT ![b].state = WaitEnds(out.res)]
         /\ \/ /\ Answered(out)
               /\ IF out.res = "ok" THEN Goes(b) ELSE FailsAs(b, out)
               /\ disk' = IF out.res = "ok" /\ o.makes THEN CompiledBy(b) ELSE disk
            \/ /\ faults + 2 <= MaxFaults /\ faults' = faults + 2 /\ exited' = "panic"
               /\ UNCHANGED <<images, disk, todo, err>>
  BY DEF WaitContainer, At
<1>2. o.makes \in BOOLEAN
  <2>1. o \in WaitOps({"exit", "err", "next", "defer"})
    BY <1>1, HeadStocked, KindOf
  <2> QED
    BY <2>1 DEF WaitOps
<1>3. Stocked /\ ctr[b] \in ContainerState /\ ctr \in [Builds -> ContainerState]
      /\ disk \in [Builds -> {None, "fresh", "stale", "foreign"}] /\ skipped \subseteq Image
  BY <1>1, HeadStocked DEF TypeOK
<1>4. \A out : /\ y(out) \in ContainerState /\ y(out).state \in {"exited", "adrift"}
               /\ y(out).state = "adrift" => out.res = "error"
               /\ y(out).body = ctr[b].body /\ y(out).made = ctr[b].made /\ y(out).config = ctr[b].config
  BY <1>3 DEF ContainerState, WaitEnds
<1>6. Fair(job[b].cfg, o, outs)
  BY <1>3, QuietFair
<1>7. skipped' = skipped /\ claimed' = claimed /\ UNCHANGED place
  BY <1>1 DEF history
<1>5. \A out : ctr' = [ctr EXCEPT ![b].state = WaitEnds(out.res)] =>
        ctr' \in [Builds -> ContainerState] /\ ctr'[b] = y(out) /\ \A d \in Builds : d # b => ctr'[d] = ctr[d]
  <2> SUFFICES ASSUME NEW out, ctr' = [ctr EXCEPT ![b] = y(out)]
      PROVE  ctr' \in [Builds -> ContainerState] /\ ctr'[b] = y(out) /\ \A d \in Builds : d # b => ctr'[d] = ctr[d]
    OBVIOUS
  <2>1. y(out) \in ContainerState
    BY <1>4
  <2> HIDE DEF y
  <2> QED
    BY <1>3, <2>1
<1>11. /\ CompiledBy(b) \in [Builds -> {None, "fresh", "stale", "foreign"}] /\ CompiledBy(b)[b] = "fresh"
       /\ \A d \in Builds : d # b => CompiledBy(b)[d] = disk[d] \/ CompiledBy(b)[d] \in OfThisRun(d)
  BY <1>3 DEF CompiledBy, SharesFolder, OfThisRun
<1> HIDE DEF outs, y
<1>8. PICK out \in outs :
        /\ ctr' \in [Builds -> ContainerState] /\ ctr'[b] = y(out) /\ \A d \in Builds : d # b => ctr'[d] = ctr[d]
        /\ \/ /\ Answered(out)
              /\ IF out.res = "ok" THEN Goes(b) ELSE FailsAs(b, out)
              /\ disk' = IF out.res = "ok" /\ o.makes THEN CompiledBy(b) ELSE disk
           \/ /\ faults + 2 <= MaxFaults /\ faults' = faults + 2 /\ exited' = "panic"
              /\ UNCHANGED <<images, disk, todo, err>>
  <2>1. PICK out \in outs :
         /\ ctr' = [ctr EXCEPT ![b].state = WaitEnds(out.res)]
         /\ \/ /\ Answered(out)
               /\ IF out.res = "ok" THEN Goes(b) ELSE FailsAs(b, out)
               /\ disk' = IF out.res = "ok" /\ o.makes THEN CompiledBy(b) ELSE disk
            \/ /\ faults + 2 <= MaxFaults /\ faults' = faults + 2 /\ exited' = "panic"
               /\ UNCHANGED <<images, disk, todo, err>>
    BY <1>1
  <2>2. ctr' \in [Builds -> ContainerState] /\ ctr'[b] = y(out) /\ \A d \in Builds : d # b => ctr'[d] = ctr[d]
    BY <1>5, <2>1
  <2> QED
    BY <2>1, <2>2
<1>9. ASSUME Answered(out), IF out.res = "ok" THEN Goes(b) ELSE FailsAs(b, out),
             disk' = IF out.res = "ok" /\ o.makes THEN CompiledBy(b) ELSE disk
      PROVE  Acting(b)
  <2>1. out.fault \in BOOLEAN /\ Reach(job[b].cfg, o, out.world)
    BY <1>6 DEF Fair
  <2>2. /\ faults' \in 0..MaxFaults /\ workdir' \in BOOLEAN /\ config' = config /\ config \in {"go", "zig", None}
        /\ Supplied(job[b].cfg, o, local', remote')
    BY <1>1, <1>9, <2>1, AnswerActs
  <2>3. /\ disk' \in [Builds -> {None, "fresh", "stale", "foreign"}] 
        /\ \A d \in Builds : d # b => disk'[d] = disk[d] \/ disk'[d] \in OfThisRun(d)
        /\ disk'[b] = IF out.res = "ok" /\ o.makes THEN "fresh" ELSE disk[b]
        /\ out.res # "ok" => disk' = disk
    BY <1>3, <1>9, <1>11
  <2>4. Common(b)
    BY <1>1, <1>3, <1>7, <1>8, <2>2, <2>3 DEF Common
  <2>5. CASE out.res = "ok"
    <3>1. Goes(b) /\ disk'[b] = IF o.makes THEN "fresh" ELSE disk[b]
      BY <1>9, <2>3, <2>5
    <3>2. Succeeds(b)
      <4>1. ctr'[b].state # "running" /\ (ctr'[b].state = "adrift" => out.res = "error")
        BY <1>4, <1>8
      <4> QED
        BY <1>1, <1>4, <1>7, <1>8, <2>2, <2>5, <3>1, <4>1 DEF Succeeds, Copies
    <3> QED
      BY <2>4, <3>2 DEF Acting
  <2>6. CASE out.res # "ok"
    <3>1. FailsAs(b, out) /\ disk' = disk
      BY <1>9, <2>3, <2>6
    <3>2. ctr'[b].state # "running"
      BY <1>4, <1>8
    <3>3. PICK f \in {o.fail, "exit"} : Disposes(b, f)
      BY <3>1 DEF FailsAs
    <3>4. exited' # "no" \/ err'[b] = TRUE \/ Commenting(b)
      <4>1. o \in StepOps(Current(b), job[b].cfg) /\ pos[b] > 0
        BY <1>1, HeadOp
      <4>2. f \in {"exit", "err", "defer"} \/ Commenting(b)
        BY <1>1, <4>1, WaitFails
      <4>3. f = "exit" => exited' = "exit"
        BY <3>3 DEF Disposes
      <4>4. f \in {"err", "defer"} => err'[b] = TRUE
        BY <3>3 DEF Disposes, TypeOK
      <4> QED
        BY <4>2, <4>3, <4>4
    <3>5. Fails(b)
      BY <1>1, <3>3 DEF Fails
    <3>6. Otherwise(b)
      BY <1>4, <1>7, <1>8, <2>2, <3>1, <3>2, <3>4, <3>5 DEF Otherwise
    <3> QED
      BY <2>4, <3>6 DEF Acting
  <2> QED
    BY <2>5, <2>6
<1>10. ASSUME faults + 2 <= MaxFaults, faults' = faults + 2, exited' = "panic", UNCHANGED <<images, disk, todo, err>>
       PROVE  Acting(b)
  <2>1. UNCHANGED <<local, remote, workdir, config>>
    BY <1>10 DEF images
  <2>2. faults' \in 0..MaxFaults
    BY <1>10, ContainerAssumption DEF TypeOK, ContainerAssumption
  <2>3. Reach(job[b].cfg, o, World)
    BY <1>3, ReachWorld
  <2>4. Supplied(job[b].cfg, o, local, remote)
    BY <2>3 DEF Reach, World
  <2>5. Supplied(job[b].cfg, o, local', remote') /\ workdir' \in BOOLEAN /\ config' \in {"go", "zig", None}
    BY <2>1, <2>4 DEF TypeOK
  <2>6. Common(b)
    BY <1>1, <1>3, <1>7, <1>8, <1>10, <2>2, <2>5 DEF Common
  <2>7. Otherwise(b)
    <3>1. /\ ctr'[b].state # "running" /\ ctr'[b].body = ctr[b].body /\ ctr'[b].made = ctr[b].made
          /\ ctr'[b].config = ctr[b].config
      BY <1>4, <1>8
    <3> QED
      BY <1>1, <1>7, <1>10, <2>1, <3>1 DEF Otherwise
  <2> QED
    BY <2>6, <2>7 DEF Acting
<1> QED
  BY <1>8, <1>9, <1>10

\* Goreleaser's file, and the marks in a program.
LEMMA ConfigActs ==
  ASSUME TypeOK, TodoTyped, ToolsAreTools, NEW b \in Builds, ConfigOp(b) \/ PassMark(b)
  PROVE  Acting(b)
<1> DEFINE o == Op0(b)
           c == job[b].cfg
           w == World
           written == [w EXCEPT !.config = o.language]
           removed == [w EXCEPT !.config = None]
           bound == [ctr[b] EXCEPT !.config = config]
<1>1. \/ Calls(b, "config", Call(written, w), ctr[b])
      \/ Calls(b, "bind", IF config = None THEN {Refused(w)} ELSE {Ok(w)}, bound)
      \/ Calls(b, "unconfig", {Ok(removed)}, ctr[b])
      \/ Calls(b, "mark", {Ok(w)}, ctr[b])
  BY DEF ConfigOp, WriteConfig, BindConfig, RemoveConfig, PassMark
<1>2. todo[b] # <<>> /\ exited = "no" /\ UNCHANGED <<disk, place, history>>
      /\ o.do \in {"config", "bind", "unconfig", "mark"}
  BY <1>1 DEF Calls, At
<1>3. /\ Stocked /\ ctr[b] \in ContainerState /\ ctr \in [Builds -> ContainerState]
      /\ disk \in [Builds -> {None, "fresh", "stale", "foreign"}] /\ skipped \subseteq Image /\ config \in {"go", "zig", None}
      /\ workdir \in BOOLEAN /\ skipped' = skipped /\ claimed' = claimed /\ disk' = disk /\ UNCHANGED place
  BY <1>2, HeadStocked DEF TypeOK, history
<1>4. /\ bound \in ContainerState /\ bound.state = ctr[b].state /\ bound.body = ctr[b].body
      /\ bound.made = ctr[b].made /\ bound.config = config
  BY <1>3 DEF ContainerState
<1>5. Reach(c, o, w) /\ w.local = local /\ w.remote = remote /\ w.workdir = workdir /\ w.config = config
  BY <1>3, ReachWorld DEF World
<1>6. o.do = "config" => o.language \in {"go", "zig"}
  <2>1. o.do = "config" => o \in ConfigOps(c)
    BY <1>2, HeadStocked, KindOf
  <2> QED
    BY <2>1 DEF ConfigOps, Language
<1>7. w \in Worlds /\ Supplied(c, o, local, remote)
  BY <1>5 DEF Reach
<1> HIDE DEF w, bound
<1>8. /\ written.local = local /\ written.remote = remote /\ written.workdir = workdir /\ written.config = o.language
      /\ removed.local = local /\ removed.remote = remote /\ removed.workdir = workdir /\ removed.config = None
  BY <1>5, <1>7 DEF Worlds
<1> HIDE DEF written, removed
<1>9. /\ Call(written, w) = {Ok(written), Broken(w)}
      /\ \A v : Ok(v).res = "ok" /\ Ok(v).fault = FALSE /\ Ok(v).world = v
      /\ \A v : Broken(v).res = "error" /\ Broken(v).fault = TRUE /\ Broken(v).world = v
      /\ \A v : Refused(v).res = "error" /\ Refused(v).fault = FALSE /\ Refused(v).world = v
  BY DEF Call, Ok, Broken, Refused, Outcome
\* The call went through, to the world v, and the container is then x.
<1>10. ASSUME NEW v, v.local = local, v.remote = remote, v.workdir = workdir, v.config \in {"go", "zig", None},
              NEW out, out.res = "ok", out.fault = FALSE, out.world = v, Answered(out), Goes(b),
              NEW x \in ContainerState, ctr' = [ctr EXCEPT ![b] = x], x.state = ctr[b].state, x.body = ctr[b].body,
              x.made = ctr[b].made, x.config = ctr[b].config \/ (o.do = "bind" /\ x.config = config),
              v.config = IF o.do = "config" THEN o.language ELSE IF o.do = "unconfig" THEN None ELSE config
       PROVE  Acting(b)
  <2>1. local' = local /\ remote' = remote /\ workdir' = workdir /\ config' = v.config /\ faults' = faults
    BY <1>10 DEF Answered, Becomes
  <2>2. ctr' \in [Builds -> ContainerState] /\ ctr'[b] = x /\ \A d \in Builds : d # b => ctr'[d] = ctr[d]
    BY <1>3, <1>10
  <2>3. faults' \in 0..MaxFaults
    BY <2>1 DEF TypeOK
  <2>4. Supplied(c, o, local', remote')
    BY <1>7, <2>1
  <2>5. Common(b)
    BY <1>2, <1>3, <1>10, <2>1, <2>2, <2>3, <2>4 DEF Common
  <2>6. o.do \notin {"start", "stop", "create", "commit", "tagCommit", "wait", "push"} \cup Copies
    BY <1>2 DEF Copies
  <2>7. Succeeds(b)
    BY <1>3, <1>10, <2>1, <2>2, <2>6 DEF Succeeds
  <2> QED
    BY <2>5, <2>7 DEF Acting
\* The call failed and left everything as it was.
<1>11. ASSUME NEW out, out.res = "error", out.fault \in BOOLEAN, out.world = w, Answered(out), FailsAs(b, out),
              ctr' = ctr, o.do \in {"config", "bind"}
       PROVE  Acting(b)
  <2>1. /\ faults' \in 0..MaxFaults /\ workdir' \in BOOLEAN /\ config' = config
        /\ Supplied(c, o, local', remote')
    BY <1>2, <1>5, <1>11, AnswerActs
  <2>2. Common(b)
    BY <1>2, <1>3, <1>11, <2>1 DEF Common
  <2>3. Otherwise(b)
    BY <1>2, <1>3, <1>11, <2>1 DEF Otherwise, Fails, FailsAs
  <2> QED
    BY <2>2, <2>3 DEF Acting
<1>12. CASE Calls(b, "config", Call(written, w), ctr[b])
  <2>1. o.do = "config" /\ \E out \in Call(written, w) : Answered(out) /\
          IF out.res = "ok" THEN Goes(b) /\ ctr' = [ctr EXCEPT ![b] = ctr[b]] ELSE FailsAs(b, out) /\ ctr' = ctr
    BY <1>12 DEF Calls, At
  <2>2. PICK out \in {Ok(written), Broken(w)} : Answered(out) /\
          IF out.res = "ok" THEN Goes(b) /\ ctr' = [ctr EXCEPT ![b] = ctr[b]] ELSE FailsAs(b, out) /\ ctr' = ctr
    BY <1>9, <2>1
  <2>3. CASE out = Ok(written)
    <3>1. out.res = "ok" /\ out.fault = FALSE /\ out.world = written
      BY <1>9, <2>3
    <3>2. Answered(out) /\ Goes(b) /\ ctr' = [ctr EXCEPT ![b] = ctr[b]]
      BY <2>2, <3>1
    <3>3. written.config \in {"go", "zig", None} /\ written.config = o.language
      BY <1>6, <1>8, <2>1
    <3> QED
      BY <1>3, <1>8, <1>10, <2>1, <3>1, <3>2, <3>3
  <2>4. CASE out = Broken(w)
    BY <1>9, <1>11, <2>1, <2>2, <2>4
  <2> QED
    BY <2>2, <2>3, <2>4
<1>13. CASE Calls(b, "bind", IF config = None THEN {Refused(w)} ELSE {Ok(w)}, bound)
  <2>1. o.do = "bind" /\ \E out \in IF config = None THEN {Refused(w)} ELSE {Ok(w)} : Answered(out) /\
          IF out.res = "ok" THEN Goes(b) /\ ctr' = [ctr EXCEPT ![b] = bound] ELSE FailsAs(b, out) /\ ctr' = ctr
    BY <1>13 DEF Calls, At
  <2>2. PICK out \in {Refused(w), Ok(w)} : Answered(out) /\
          IF out.res = "ok" THEN Goes(b) /\ ctr' = [ctr EXCEPT ![b] = bound] ELSE FailsAs(b, out) /\ ctr' = ctr
    BY <2>1
  <2>3. CASE out = Ok(w)
    <3>1. out.res = "ok" /\ out.fault = FALSE /\ out.world = w
      BY <1>9, <2>3
    <3>2. Answered(out) /\ Goes(b) /\ ctr' = [ctr EXCEPT ![b] = bound]
      BY <2>2, <3>1
    <3>3. w.config \in {"go", "zig", None} /\ o.do # "config" /\ o.do # "unconfig"
      BY <1>3, <1>5, <2>1
    <3> QED
      BY <1>4, <1>5, <1>10, <2>1, <3>1, <3>2, <3>3
  <2>4. CASE out = Refused(w)
    BY <1>9, <1>11, <2>1, <2>2, <2>4
  <2> QED
    BY <2>2, <2>3, <2>4
<1>14. CASE Calls(b, "unconfig", {Ok(removed)}, ctr[b])
  <2>1. o.do = "unconfig" /\ Answered(Ok(removed)) /\ Goes(b) /\ ctr' = [ctr EXCEPT ![b] = ctr[b]]
    BY <1>9, <1>14 DEF Calls, At
  <2> QED
    BY <1>3, <1>8, <1>9, <1>10, <2>1
<1>15. CASE Calls(b, "mark", {Ok(w)}, ctr[b])
  <2>1. o.do = "mark" /\ Answered(Ok(w)) /\ Goes(b) /\ ctr' = [ctr EXCEPT ![b] = ctr[b]]
    BY <1>9, <1>15 DEF Calls, At
  <2> QED
    BY <1>3, <1>5, <1>9, <1>10, <2>1
<1> QED
  BY <1>1, <1>12, <1>13, <1>14, <1>15

\* Operations on images that leave the containers alone.
LEMMA ImageActs ==
  ASSUME NEW b \in Builds, Common(b), UNCHANGED <<ctr, disk, config, claimed>>, Op0(b).do \in {"pull", "ensure"}
  PROVE  /\ Goes(b) => Acting(b)
         /\ (\E f \in {Op0(b).fail, "exit"} : Disposes(b, f)) => Acting(b)
         /\ \A ops : Replaces(ops, Op0(b), StepOps(Current(b), job[b].cfg)) /\ Instead(b, ops) => Acting(b)
<1>1. ASSUME Goes(b)
      PROVE  Acting(b)
  BY <1>1 DEF Acting, Succeeds, Copies
<1>2. ASSUME NEW f \in {Op0(b).fail, "exit"}, Disposes(b, f)
      PROVE  Acting(b)
  BY <1>2 DEF Acting, Otherwise, Fails
<1>3. ASSUME NEW ops, Replaces(ops, Op0(b), StepOps(Current(b), job[b].cfg)), Instead(b, ops)
      PROVE  Acting(b)
  BY <1>3 DEF Acting, Otherwise
<1> QED
  BY <1>1, <1>2, <1>3

\* One operation takes the place of another.
LEMMA SingleReplaces ==
  ASSUME NEW S, NEW o, NEW x \in S, o.do \in {"pull", "ensure"}, x.do \in {"pull", "ensure", "buildMulti"},
         x.fail \in {o.fail, "exit"}, \A i \in Image : Offers(x, i) => Offers(o, i)
  PROVE  Replaces(<<x>>, o, S)
<1>1. <<x>> \in Seq(S) /\ Len(<<x>>) = 1 /\ <<x>>[1] = x
  OBVIOUS
<1>2. OffersOnce(<<x>>)
  BY <1>1 DEF OffersOnce
<1> QED
  BY <1>1, <1>2 DEF Replaces

LEMMA UnaskedCommon ==
  ASSUME TypeOK, NEW b \in Builds, NEW out, out.fault \in BOOLEAN, Reach(job[b].cfg, Op0(b), out.world), Answered(out),
         exited = "no", todo[b] # <<>>, UNCHANGED <<ctr, disk, place, claimed>>, skipped' \subseteq Image
  PROVE  Common(b) /\ UNCHANGED <<ctr, disk, config, claimed>>
<1>1. /\ faults' \in 0..MaxFaults /\ workdir' \in BOOLEAN /\ config' = config /\ config \in {"go", "zig", None}
      /\ Supplied(job[b].cfg, Op0(b), local', remote')
  BY AnswerActs
<1>2. ctr \in [Builds -> ContainerState] /\ disk \in [Builds -> {None, "fresh", "stale", "foreign"}]
  BY DEF TypeOK
<1> QED
  BY <1>1, <1>2 DEF Common

LEMMA PullOpsIn ==
  ASSUME NEW step, NEW c
  PROVE  PullOps \subseteq StepOps(step, c)
BY DEF StepOps, ReleaseOps, GithubOps, CommentOps, ProdOps, PlainOps, QuietOps

LEMMA EnsureImagesActs ==
  ASSUME TypeOK, TodoTyped, ToolsAreTools, NEW b \in Builds, EnsureImagesExists(b)
  PROVE  Acting(b)
<1> DEFINE o == Op0(b)
           c == job[b].cfg
           i == Head(o.imgs)
           listed == Present(World, i) /\ runtime # "host"
           wrong == listed /\ local[i].plat # Host
           outs == IF listed /\ ~wrong THEN Call(World, World) ELSE Pulled(b, i, Host)
           x == [o EXCEPT !.imgs = Tail(@)]
           S == StepOps(Current(b), c)
<1>1. /\ exited = "no" /\ todo[b] # <<>> /\ o.do = "pull" /\ UNCHANGED <<ctr, disk, place, claimed>>
      /\ \E out \in outs :
           /\ Answered(out)
           /\ IF out.res # "ok" THEN FailsAs(b, out) /\ UNCHANGED skipped
              ELSE /\ skipped' = skipped \cup IF wrong THEN Range(Tail(o.imgs)) ELSE {}
                   /\ IF wrong \/ Len(o.imgs) = 1 THEN Goes(b) ELSE Instead(b, <<x>>)
  BY DEF EnsureImagesExists, At
<1>2. o \in PullOps /\ Stocked
  BY <1>1, HeadStocked, KindOf
<1>3. o.imgs \in Seq(BaseImage \cup ToolImage) /\ o.imgs # <<>>
  BY <1>2 DEF PullOps
<1>4. /\ i \in BaseImage \cup ToolImage /\ Tail(o.imgs) \in Seq(BaseImage \cup ToolImage)
      /\ Len(o.imgs) \in Nat /\ Len(o.imgs) > 0 /\ Len(Tail(o.imgs)) = Len(o.imgs) - 1
  BY <1>3, TailRest DEF Rest
<1>5. i \in Mine(c) /\ i \in Image /\ Range(Tail(o.imgs)) \subseteq Image
  <2>1. Range(Tail(o.imgs)) \subseteq BaseImage \cup ToolImage
    BY <1>4, RangeOfSeq
  <2> QED
    BY <1>4, <2>1, ImagesInPlay DEF Mine
<1>6. Fair(c, o, outs)
  BY <1>2, <1>5, PullFair, QuietFair, StoredFacts
<1>7. Len(o.imgs) # 1 => Replaces(<<x>>, o, S)
  <2> SUFFICES ASSUME Len(o.imgs) # 1 PROVE Replaces(<<x>>, o, S)
    OBVIOUS
  <2>1. Tail(o.imgs) # <<>>
    <3>1. Len(<<>>) = 0 /\ Len(Tail(o.imgs)) # 0
      BY <1>4
    <3> QED
      BY ONLY <3>1
  <2>2. x \in PullOps /\ x.do = "pull" /\ x.fail = o.fail
    BY <1>2, <1>4, <2>1 DEF PullOps
  <2>3. \A j \in Image : ~Offers(x, j)
    BY <2>2 DEF Offers
  <2>4. x \in S
    BY <2>2, PullOpsIn
  <2> HIDE DEF x, S, o
  <2> QED
    BY <1>1, <2>2, <2>3, <2>4, SingleReplaces
<1> HIDE DEF outs, wrong, listed, x
<1>8. PICK out \in outs :
        /\ Answered(out)
        /\ IF out.res # "ok" THEN FailsAs(b, out) /\ UNCHANGED skipped
           ELSE /\ skipped' = skipped \cup IF wrong THEN Range(Tail(o.imgs)) ELSE {}
                /\ IF wrong \/ Len(o.imgs) = 1 THEN Goes(b) ELSE Instead(b, <<x>>)
  BY <1>1
<1>9. skipped' \subseteq Image
  BY <1>5, <1>8 DEF TypeOK
<1>10. Common(b) /\ UNCHANGED <<ctr, disk, config, claimed>>
  BY <1>1, <1>6, <1>8, <1>9, UnaskedCommon DEF Fair
<1>11. \/ Goes(b) \/ (\E f \in {o.fail, "exit"} : Disposes(b, f))
       \/ Replaces(<<x>>, o, S) /\ Instead(b, <<x>>)
  BY <1>7, <1>8 DEF FailsAs
<1> QED
  BY <1>1, <1>10, <1>11, ImageActs

\* The operations an intermediate image is built with are of the same step.
LEMMA EnsureOpsIn ==
  ASSUME NEW step, NEW c, NEW o \in StepOps(step, c), o.do = "ensure", AppTag(c) \in Image, AppTag(c) \notin ToolImage
  PROVE  \E X \in {ToolImage, {AppTag(c)}}, body \in {"tool", "fresh"} :
           /\ o \in EnsureOps(X, body)
           /\ EnsureOps(X, body) \cup BuildOps(X, body) \cup RetagOps(X) \cup PushOps(X) \subseteq StepOps(step, c)
<1>1. o \in AnyOps(c)
  BY DEF StepOps, AnyOps, ReleaseOps
<1>2. o \in EnsureOps(ToolImage, "tool") \cup EnsureOps({AppTag(c)}, "fresh")
  BY <1>1, KindOf
<1>3. CASE o \in EnsureOps(ToolImage, "tool")
  <2>1. EnsureOps(ToolImage, "tool") \cup BuildOps(ToolImage, "tool") \cup RetagOps(ToolImage) \cup PushOps(ToolImage)
          \subseteq QuietOps(c)
    BY DEF QuietOps
  <2>2. QuietOps(c) \subseteq StepOps(step, c)
    BY DEF StepOps, ReleaseOps, GithubOps, CommentOps, ProdOps, PlainOps
  <2> QED
    BY <1>3, <2>1, <2>2
<1>4. CASE o \in EnsureOps({AppTag(c)}, "fresh")
  <2>1. Offers(o, AppTag(c))
    BY <1>4 DEF EnsureOps, Offers
  <2>2. o \notin ReleaseOps(c) /\ o \notin PlainOps(c) /\ o \notin CommentOps(c)
    BY <2>1, WhoDoes
  <2>3. StepOps(step, c) = ProdOps(c)
    BY <2>2 DEF StepOps, GithubOps
  <2>4. EnsureOps({AppTag(c)}, "fresh") \cup BuildOps({AppTag(c)}, "fresh") \cup RetagOps({AppTag(c)})
          \cup PushOps({AppTag(c)}) \subseteq ProdOps(c)
    BY DEF ProdOps, PushOps
  <2> QED
    BY <1>4, <2>3, <2>4
<1> QED
  BY <1>2, <1>3, <1>4

\* What takes the place of BuildIntermidiateContainer.
LEMMA EnsureReplaced ==
  ASSUME TypeOK, TodoTyped, ToolsAreTools, NEW b \in Builds, todo[b] # <<>>, Op0(b).do = "ensure"
  PROVE  LET o == Op0(b)
             S == StepOps(Current(b), job[b].cfg)
         IN  /\ o.img \in Mine(job[b].cfg) /\ o.img \in Image /\ o.left \in Seq(Platform) /\ o.plats \in Seq(Platform)
             /\ Replaces(<<[o EXCEPT !.asked = TRUE, !.left = o.plats]>>, o, S)
             /\ o.left # <<>> => \A m \in BOOLEAN : Replaces(<<[o EXCEPT !.left = Tail(@), !.missed = @ \/ m]>>, o, S)
             /\ Replaces(BuildAndPush(o), o, S) /\ Replaces(BuildMulti(o), o, S)
<1> DEFINE o == Op0(b)
           c == job[b].cfg
           S == StepOps(Current(b), c)
<1>1. o \in S /\ AppTag(c) \in Image /\ AppTag(c) \notin ToolImage
  BY HeadOp, StepCfg
<1>2. PICK X \in {ToolImage, {AppTag(c)}}, body \in {"tool", "fresh"} :
        /\ o \in EnsureOps(X, body)
        /\ EnsureOps(X, body) \cup BuildOps(X, body) \cup RetagOps(X) \cup PushOps(X) \subseteq S
  BY <1>1, EnsureOpsIn
<1> HIDE DEF S
<1>3. /\ o.img \in X /\ o.fail = "exit" /\ o.left \in Seq(Platform) /\ o.plats \in Seq(Platform) /\ o.body = body
      /\ o.missed \in BOOLEAN
  BY <1>2 DEF EnsureOps
<1>4. o.img \in Mine(c) /\ o.img \in Image
  BY <1>2, <1>3, HeadStocked
<1>5. ASSUME NEW x \in EnsureOps(X, body) \cup BuildOps(X, body), x.img = o.img, x.do \in {"ensure", "buildMulti"}, x.fail = "exit"
      PROVE  Replaces(<<x>>, o, S)
  <2>1. x \in S /\ \A i \in Image : Offers(x, i) => Offers(o, i)
    BY <1>2, <1>5 DEF Offers
  <2> HIDE DEF o
  <2> QED
    BY <1>3, <1>5, <2>1, SingleReplaces DEF o
<1>6. Replaces(<<[o EXCEPT !.asked = TRUE, !.left = o.plats]>>, o, S)
  <2> DEFINE x == [o EXCEPT !.asked = TRUE, !.left = o.plats]
  <2>1. x \in EnsureOps(X, body) /\ x.img = o.img /\ x.do = "ensure" /\ x.fail = "exit"
    BY <1>2, <1>3 DEF EnsureOps
  <2> HIDE DEF x
  <2>2. Replaces(<<x>>, o, S)
    BY <1>5, <2>1
  <2> QED
    BY <2>2 DEF x
<1>7. ASSUME o.left # <<>>, NEW m \in BOOLEAN
      PROVE  Replaces(<<[o EXCEPT !.left = Tail(@), !.missed = @ \/ m]>>, o, S)
  <2> DEFINE x == [o EXCEPT !.left = Tail(@), !.missed = @ \/ m]
  <2>1. Tail(o.left) \in Seq(Platform)
    BY <1>3, <1>7, TailRest
  <2>2. x \in EnsureOps(X, body) /\ x.img = o.img /\ x.do = "ensure" /\ x.fail = "exit"
    BY <1>2, <1>3, <2>1 DEF EnsureOps
  <2> HIDE DEF x
  <2>3. Replaces(<<x>>, o, S)
    BY <1>5, <2>2
  <2> QED
    BY <2>3 DEF x
<1>8. Replaces(BuildMulti(o), o, S)
  <2> DEFINE x == [do |-> "buildMulti", fail |-> "exit", img |-> o.img, body |-> o.body]
  <2>1. x \in BuildOps(X, body) /\ x.img = o.img /\ x.do = "buildMulti" /\ x.fail = "exit"
    BY <1>3 DEF BuildOps
  <2> HIDE DEF x
  <2>2. Replaces(<<x>>, o, S)
    BY <1>5, <2>1
  <2> QED
    BY <2>2 DEF x, BuildMulti
<1>9. Replaces(BuildAndPush(o), o, S)
  <2> DEFINE x == [do |-> "build", fail |-> "exit", img |-> o.img, body |-> o.body]
             y == [do |-> "tag", fail |-> "exit", src |-> o.img, img |-> o.img]
             z == [do |-> "push", fail |-> "exit", img |-> o.img]
             s == <<x>>
             t == <<y, z>>
             ops == s \o t
  <2>1. BuildAndPush(o) = ops
    BY DEF BuildAndPush, PushImage
  <2>2. x \in BuildOps(X, body) /\ y \in RetagOps(X) /\ z \in PushOps(X)
    BY <1>3 DEF BuildOps, RetagOps, PushOps
  <2>3. x \in S /\ y \in S /\ z \in S
    BY <1>2, <2>2
  <2>4. /\ x.do = "build" /\ y.do = "tag" /\ z.do = "push" /\ x.fail = "exit" /\ y.fail = "exit" /\ z.fail = "exit"
        /\ z.img = o.img /\ o.do = "ensure"
    OBVIOUS
  <2>5. \A i : ~Offers(x, i) /\ ~Offers(y, i) /\ (Offers(z, i) => Offers(o, i))
    BY <2>4 DEF Offers
  <2> HIDE DEF x, y, z, o
  <2>6. ops \in Seq(S) /\ Len(ops) = 3 /\ ops[1] = x /\ ops[2] = y /\ ops[3] = z
    <3>1. s \in Seq(S) /\ Len(s) = 1 /\ s[1] = x /\ t \in Seq(S) /\ Len(t) = 2 /\ t[1] = y /\ t[2] = z
      BY <2>3
    <3> HIDE DEF s, t
    <3>2. ops \in Seq(S) /\ Joined(s, t, ops)
      BY <3>1, JoinedConcat
    <3> HIDE DEF ops
    <3>3. 1 \in 1..Len(s) /\ 1 \in 1..Len(t) /\ 2 \in 1..Len(t) /\ 1 + Len(s) = 2 /\ 2 + Len(s) = 3
      BY <3>1
    <3> QED
      BY <3>1, <3>2, <3>3 DEF Joined
  <2>7. \A k \in 1..Len(ops) : k \in {1, 2, 3}
    BY <2>6
  <2> HIDE DEF ops
  <2>8. OffersOnce(ops)
    BY <2>5, <2>6, <2>7 DEF OffersOnce
  <2>9. \A k \in 1..Len(ops) :
          /\ ops[k].do \in {"pull", "ensure", "build", "buildMulti", "tag", "push"}
          /\ ops[k].fail \in {o.fail, "exit"}
          /\ \A i \in Image : Offers(ops[k], i) => Offers(o, i)
    BY <2>4, <2>5, <2>6, <2>7
  <2>10. Replaces(ops, o, S)
    BY <2>4, <2>6, <2>8, <2>9 DEF Replaces
  <2> QED
    BY <2>1, <2>10
<1> QED
  BY <1>3, <1>4, <1>6, <1>7, <1>8, <1>9 DEF S

LEMMA AskActs ==
  ASSUME TypeOK, TodoTyped, ToolsAreTools, NEW b \in Builds, AskExists(b)
  PROVE  Acting(b)
<1> DEFINE o == Op0(b)
           x == [o EXCEPT !.asked = TRUE, !.left = o.plats]
           S == StepOps(Current(b), job[b].cfg)
<1>1. /\ exited = "no" /\ todo[b] # <<>> /\ o.do = "ensure" /\ UNCHANGED <<ctr, disk, place, history>>
      /\ \E out \in Call(World, World) :
           /\ Answered(out)
           /\ FailsAs(b, out) \/ Goes(b) \/ Instead(b, <<x>>)
  BY DEF AskExists, At
<1>2. Replaces(<<x>>, o, S)
  BY <1>1, EnsureReplaced
<1>3. Fair(job[b].cfg, o, Call(World, World))
  BY QuietFair DEF Stocked
<1> HIDE DEF x
<1>4. PICK out \in Call(World, World) : Answered(out) /\ (FailsAs(b, out) \/ Goes(b) \/ Instead(b, <<x>>))
  BY <1>1
<1>5. Common(b) /\ UNCHANGED <<ctr, disk, config, claimed>>
  BY <1>1, <1>3, <1>4, UnaskedCommon DEF Fair, history, TypeOK
<1>6. Goes(b) \/ (\E f \in {o.fail, "exit"} : Disposes(b, f)) \/ (Replaces(<<x>>, o, S) /\ Instead(b, <<x>>))
  BY <1>2, <1>4 DEF FailsAs
<1> QED
  BY <1>1, <1>5, <1>6, ImageActs

LEMMA TryPullActs ==
  ASSUME TypeOK, TodoTyped, ToolsAreTools, NEW b \in Builds, TryPull(b)
  PROVE  Acting(b)
<1> DEFINE o == Op0(b)
           c == job[b].cfg
           p == Head(o.left)
           x(m) == [o EXCEPT !.left = Tail(@), !.missed = @ \/ m]
           S == StepOps(Current(b), c)
<1>1. /\ exited = "no" /\ todo[b] # <<>> /\ o.do = "ensure" /\ o.left # <<>> /\ UNCHANGED <<ctr, disk, place, history>>
      /\ \E out \in PullByPlatform(b, o.img, p) :
           Answered(out) /\ Instead(b, <<[o EXCEPT !.left = Tail(@), !.missed = @ \/ out.res # "ok"]>>)
  BY DEF TryPull, At
<1>2. PICK out \in PullByPlatform(b, o.img, p) :
        Answered(out) /\ Instead(b, <<[o EXCEPT !.left = Tail(@), !.missed = @ \/ out.res # "ok"]>>)
  BY <1>1
<1>3. Instead(b, <<x(out.res # "ok")>>)
  BY <1>2
<1>4. /\ \A m \in BOOLEAN : Replaces(<<x(m)>>, o, S)
      /\ o.img \in Mine(c) /\ o.img \in Image /\ o.left \in Seq(Platform)
  BY <1>1, EnsureReplaced
<1>5. p \in Platform
  BY <1>1, <1>4, TailRest
<1>6. Fair(c, o, PullByPlatform(b, o.img, p))
  BY <1>4, <1>5, PullFair DEF Stocked
<1>7. Common(b) /\ UNCHANGED <<ctr, disk, config, claimed>>
  BY <1>1, <1>2, <1>6, UnaskedCommon DEF Fair, history, TypeOK
<1> DEFINE m == out.res # "ok"
<1>8. m \in BOOLEAN /\ Instead(b, <<x(m)>>)
  BY <1>3
<1> HIDE DEF x, m
<1>9. Replaces(<<x(m)>>, o, S)
  BY <1>4, <1>8
<1> QED
  BY <1>1, <1>7, <1>8, <1>9, ImageActs

LEMMA DecideActs ==
  ASSUME TypeOK, TodoTyped, ToolsAreTools, NEW b \in Builds, DecideBuild(b)
  PROVE  Acting(b)
<1> DEFINE o == Op0(b)
           c == job[b].cfg
           S == StepOps(Current(b), c)
<1>1. /\ exited = "no" /\ todo[b] # <<>> /\ o.do = "ensure" /\ UNCHANGED <<ctr, disk, place, history>>
      /\ \/ Goes(b) /\ UNCHANGED <<images, faults>>
         \/ Instead(b, BuildAndPush(o)) /\ UNCHANGED <<images, faults>>
         \/ \E out \in PullByPlatform(b, o.img, Host) :
              Answered(out) /\ IF out.res = "ok" THEN Goes(b) ELSE Instead(b, BuildMulti(o))
  BY DEF DecideBuild, At
<1>2. /\ Replaces(BuildAndPush(o), o, S) /\ Replaces(BuildMulti(o), o, S)
      /\ o.img \in Mine(c) /\ o.img \in Image
  BY <1>1, EnsureReplaced
<1>3. Goes(b) \/ Instead(b, BuildAndPush(o)) \/ Instead(b, BuildMulti(o))
  BY <1>1
<1>4. Common(b) /\ UNCHANGED <<ctr, disk, config, claimed>>
  <2>1. CASE UNCHANGED <<images, faults>>
    <3>1. Reach(c, o, World)
      BY ReachWorld DEF Stocked
    <3>2. Supplied(c, o, local, remote)
      BY <3>1 DEF Reach, World
    <3>3. Supplied(c, o, local', remote')
      BY <2>1, <3>2 DEF images
    <3> QED
      BY <1>1, <2>1, <3>3 DEF Common, images, history, TypeOK
  <2>2. CASE \E out \in PullByPlatform(b, o.img, Host) : Answered(out)
    <3>1. Fair(c, o, PullByPlatform(b, o.img, Host))
      BY <1>2, PullFair, StoredFacts DEF Stocked
    <3> QED
      BY <1>1, <2>2, <3>1, UnaskedCommon DEF Fair, history, TypeOK
  <2> QED
    BY <1>1, <2>1, <2>2
<1> QED
  BY <1>1, <1>2, <1>3, <1>4, ImageActs

\* Every operation is one of these.
LEMMA EveryAction ==
  ASSUME TypeOK, TodoTyped, ToolsAreTools, Created, NEW b \in Builds, Act(b)
  PROVE  Acting(b)
<1>1. CASE ImageOp(b)
  BY <1>1, EnsureImagesActs, AskActs, TryPullActs, DecideActs, BuildActs, TagActs, PushActs, InspectActs DEF ImageOp
<1>2. CASE ContainerOp(b)
  BY <1>2, CreateActs, StartActs, WaitActs, InspectActs, CopyActs, CommitActs DEF ContainerOp
<1>3. CASE Prepare(b) \/ RefuseStep(b)
  BY <1>3, InspectActs
<1>4. CASE PassMark(b) \/ ConfigOp(b)
  BY <1>4, ConfigActs
<1> QED
  BY <1>1, <1>2, <1>3, <1>4 DEF Act

-----------------------------------------------------------------------------
(* What is ahead of a build after an operation.                            *)

On(b) == Succeeds(b) /\ Rest(todo[b], 1, todo'[b]) /\ exited' = "no"
Logged(b) ==
  /\ Otherwise(b) /\ Op0(b).fail = "log" /\ Op0(b).do \notin {"mark", "unconfig"}
  /\ Rest(todo[b], 1, todo'[b]) /\ exited' = "no"
Skips(b, n) ==
  /\ n > 0 /\ n <= Len(todo[b]) /\ todo[b][n].do = "mark"
  /\ \A k \in 1..Len(todo[b]) : todo[b][k].do = "mark" => n <= k
  /\ Rest(todo[b], n, todo'[b])
Skipped(b) ==
  /\ Otherwise(b) /\ Op0(b).fail \in {"next", "defer"} /\ Op0(b).do \notin {"mark", "unconfig"} /\ exited' = "no"
  /\ \/ todo'[b] = todo[b] /\ \A k \in 1..Len(todo[b]) : todo[b][k].do # "mark"
     \/ \E n \in Nat : Skips(b, n)
Stopped(b) ==
  /\ Otherwise(b) /\ Op0(b).fail = "err" /\ Op0(b).do \notin {"mark", "unconfig"}
  /\ todo'[b] = <<>> /\ exited' = "no" /\ err'[b]
Expanded(b) ==
  /\ Otherwise(b) /\ exited' = "no"
  /\ \E ops : /\ Replaces(ops, Op0(b), StepOps(Current(b), job[b].cfg))
              /\ Joined(ops, Tail(todo[b]), todo'[b])
Gone(b) ==
  /\ Otherwise(b) /\ exited' # "no"
  /\ todo'[b] = <<>> \/ (todo'[b] = todo[b] /\ Op0(b).do = "wait")

Onward(b) == On(b) \/ Logged(b) \/ Skipped(b) \/ Stopped(b) \/ Expanded(b) \/ Gone(b)

\* A sequence of which nothing is gone is the same.
LEMMA RestAll ==
  ASSUME NEW S, NEW T, NEW s \in Seq(S), NEW t \in Seq(T), Rest(s, 0, t)
  PROVE  t = s
<1>1. Len(s) \in Nat /\ Len(t) = Len(s) /\ \A k \in 1..Len(t) : t[k] = s[k]
  <2>1. Len(s) \in Nat /\ Len(t) = Len(s) - 0 /\ \A k \in 1..Len(t) : t[k] = s[k + 0]
    BY LenProperties DEF Rest
  <2>2. \A k \in 1..Len(t) : k + 0 = k
    BY <2>1
  <2> QED
    BY <2>1, <2>2
<1> QED
  BY <1>1, SeqEqual

LEMMA EveryOnward ==
  ASSUME TypeOK, TodoTyped, NEW b \in Builds, Acting(b)
  PROVE  /\ Onward(b)
         /\ DOMAIN todo' = Builds /\ \A c \in Builds : c # b => todo'[c] = todo[c] /\ err'[c] = err[c]
         /\ todo'[b] \in Seq(StepOps(Current(b), job[b].cfg))
         /\ err' \in [Builds -> BOOLEAN] /\ \A c \in Builds : err[c] => err'[c]
         /\ exited' \in {"no", "exit", "panic"}
         /\ Succeeds(b) => err' = err
<1> DEFINE s == todo[b]
           S == StepOps(Current(b), job[b].cfg)
           o == Op0(b)
<1>1. /\ exited = "no" /\ s # <<>> /\ DOMAIN todo = Builds /\ err \in [Builds -> BOOLEAN]
  BY DEF Acting, Common, TypeOK
<1>2. /\ s \in Seq(S) /\ o = s[1] /\ Len(s) \in Nat /\ Len(s) > 0 /\ Rest(s, 1, Tail(s)) /\ Tail(s) \in Seq(S)
  BY <1>1, HeadOp
<1>3. o.fail \in FailKind
  BY <1>1, HeadOp, KindOf
<1> DEFINE Rests == /\ DOMAIN todo' = Builds /\ \A c \in Builds : c # b => todo'[c] = todo[c] /\ err'[c] = err[c]
                    /\ todo'[b] \in Seq(S)
                    /\ err' \in [Builds -> BOOLEAN] /\ \A c \in Builds : err[c] => err'[c]
                    /\ exited' \in {"no", "exit", "panic"}
                    /\ Goes(b) => err' = err
<1>4. <<>> \in Seq(S) /\ AfterMark(s) \in Seq(S)
  BY <1>2, AfterMarkRest, EmptyRest
<1>5. ASSUME Goes(b)
      PROVE  Rests /\ todo'[b] = Tail(s) /\ exited' = "no"
  BY <1>1, <1>2, <1>5 DEF Goes
<1>6. ASSUME NEW ops, ops \in Seq(S), Instead(b, ops)
      PROVE  Rests /\ todo'[b] = ops \o Tail(s) /\ Joined(ops, Tail(s), todo'[b]) /\ exited' = "no"
  <2>1. todo' = [todo EXCEPT ![b] = ops \o Tail(@)] /\ err' = err /\ exited' = exited
    BY <1>6 DEF Instead
  <2>2. todo'[b] = ops \o Tail(s) /\ DOMAIN todo' = Builds /\ \A c \in Builds : c # b => todo'[c] = todo[c]
    BY <1>1, <2>1
  <2>3. ops \o Tail(s) \in Seq(S) /\ Joined(ops, Tail(s), ops \o Tail(s))
    BY <1>2, <1>6, JoinedConcat
  <2> QED
    BY <1>1, <2>1, <2>2, <2>3
<1>7. ASSUME NEW f \in {o.fail, "exit"}, Disposes(b, f)
      PROVE  /\ Rests
             /\ \/ f = "exit" /\ exited' = "exit" /\ todo'[b] = <<>>
                \/ f = "err" /\ exited' = "no" /\ todo'[b] = <<>> /\ err'[b]
                \/ f = "log" /\ exited' = "no" /\ todo'[b] = Tail(s)
                \/ f \in {"next", "defer"} /\ exited' = "no" /\ todo'[b] = AfterMark(s)
  <2>1. /\ exited' = IF f = "exit" THEN "exit" ELSE exited
        /\ err' = [err EXCEPT ![b] = @ \/ f \in {"err", "defer"}]
        /\ todo' = CASE f = "log" -> [todo EXCEPT ![b] = Tail(@)]
                     [] f \in {"next", "defer"} -> [todo EXCEPT ![b] = AfterMark(@)]
                     [] OTHER -> [todo EXCEPT ![b] = <<>>]
    BY <1>7 DEF Disposes
  <2>2. f \in FailKind
    BY <1>3 DEF FailKind
  <2>3. /\ err' \in [Builds -> BOOLEAN] /\ \A c \in Builds : (err[c] => err'[c]) /\ (c # b => err'[c] = err[c])
        /\ f = "err" => err'[b]
    BY <1>1, <2>1
  <2>4. CASE f = "log"
    <3>1. todo' = [todo EXCEPT ![b] = Tail(@)] /\ exited' = "no"
      BY <1>1, <2>1, <2>4
    <3>2. todo'[b] = Tail(s) /\ DOMAIN todo' = Builds /\ \A c \in Builds : c # b => todo'[c] = todo[c]
      BY <1>1, <3>1
    <3>3. Goes(b) => err' = err
      BY DEF Goes
    <3> QED
      BY <1>2, <2>3, <2>4, <3>1, <3>2, <3>3
  <2>5. CASE f \in {"next", "defer"}
    <3>1. todo' = [todo EXCEPT ![b] = AfterMark(@)] /\ exited' = "no"
      BY <1>1, <2>1, <2>5
    <3>2. todo'[b] = AfterMark(s) /\ DOMAIN todo' = Builds /\ \A c \in Builds : c # b => todo'[c] = todo[c]
      BY <1>1, <3>1
    <3>3. Goes(b) => err' = err
      BY DEF Goes
    <3> QED
      BY <1>4, <2>3, <2>5, <3>1, <3>2, <3>3
  <2>6. CASE f \in {"exit", "err"}
    <3>1. todo' = [todo EXCEPT ![b] = <<>>] /\ exited' = IF f = "exit" THEN "exit" ELSE "no"
      BY <1>1, <2>1, <2>6
    <3>2. todo'[b] = <<>> /\ DOMAIN todo' = Builds /\ \A c \in Builds : c # b => todo'[c] = todo[c]
      BY <1>1, <3>1
    <3>3. Goes(b) => err' = err
      BY DEF Goes
    <3> QED
      BY <1>4, <2>3, <2>6, <3>1, <3>2, <3>3
  <2> QED
    BY <2>2, <2>4, <2>5, <2>6 DEF FailKind
<1>8. CASE Succeeds(b)
  <2>1. Goes(b)
    BY <1>8 DEF Succeeds
  <2>2. On(b)
    BY <1>2, <1>5, <1>8, <2>1 DEF On
  <2> QED
    BY <1>5, <1>8, <2>1, <2>2 DEF Onward
<1>9. CASE Otherwise(b) /\ Fails(b) /\ ~Succeeds(b)
  <2>1. PICK f \in {o.fail, "exit"} : Disposes(b, f)
    BY <1>9 DEF Fails
  <2>2. o.do \notin {"mark", "unconfig"}
    BY <1>9 DEF Fails
  <2>3. Rests
    BY <1>7, <2>1
  <2>4. \/ f = "exit" /\ exited' = "exit" /\ todo'[b] = <<>>
        \/ f = "err" /\ exited' = "no" /\ todo'[b] = <<>> /\ err'[b]
        \/ f = "log" /\ exited' = "no" /\ todo'[b] = Tail(s)
        \/ f \in {"next", "defer"} /\ exited' = "no" /\ todo'[b] = AfterMark(s)
    BY <1>7, <2>1
  <2>5. CASE f = "exit" /\ exited' = "exit" /\ todo'[b] = <<>>
    BY <1>9, <2>3, <2>5 DEF Onward, Gone
  <2>6. CASE f = "err" /\ exited' = "no" /\ todo'[b] = <<>> /\ err'[b]
    BY <1>9, <2>2, <2>3, <2>6 DEF Onward, Stopped
  <2>7. CASE f = "log" /\ exited' = "no" /\ todo'[b] = Tail(s)
    BY <1>2, <1>9, <2>2, <2>3, <2>7 DEF Onward, Logged
  <2>8. CASE f \in {"next", "defer"} /\ exited' = "no" /\ todo'[b] = AfterMark(s)
    <3>1. PICK n \in 0..Len(s) :
            /\ Rest(s, n, AfterMark(s))
            /\ \A k \in 1..Len(s) : s[k].do = "mark" => n > 0 /\ n <= k
            /\ n > 0 => s[n].do = "mark"
      BY <1>2, AfterMarkRest
    <3>2. CASE n = 0
      <4>1. AfterMark(s) = s
        BY <1>2, <1>4, <3>1, <3>2, RestAll
      <4>2. \A k \in 1..Len(s) : s[k].do # "mark"
        BY <3>1, <3>2
      <4>3. Skipped(b)
        BY <1>9, <2>2, <2>8, <4>1, <4>2 DEF Skipped
      <4> QED
        BY <1>9, <2>3, <4>3 DEF Onward
    <3>3. CASE n > 0
      <4>1. n \in Nat /\ Skips(b, n)
        BY <1>2, <2>8, <3>1, <3>3 DEF Skips
      <4>2. Skipped(b)
        BY <1>9, <2>2, <2>8, <4>1 DEF Skipped
      <4> QED
        BY <1>9, <2>3, <4>2 DEF Onward
    <3> QED
      BY <1>2, <3>1, <3>2, <3>3
  <2> QED
    BY <2>4, <2>5, <2>6, <2>7, <2>8
<1>10. CASE Otherwise(b) /\ ~Succeeds(b) /\ \E ops : Replaces(ops, o, S) /\ Instead(b, ops)
  <2>1. PICK ops : Replaces(ops, o, S) /\ Instead(b, ops)
    BY <1>10
  <2>2. ops \in Seq(S)
    BY <2>1 DEF Replaces
  <2>3. Rests /\ Joined(ops, Tail(s), todo'[b]) /\ exited' = "no"
    BY <1>6, <2>1, <2>2
  <2>4. Expanded(b)
    BY <1>10, <2>1, <2>3 DEF Expanded
  <2> QED
    BY <1>10, <2>3, <2>4 DEF Onward
<1>11. CASE Otherwise(b) /\ ~Succeeds(b) /\ exited' = "panic" /\ o.do = "wait" /\ UNCHANGED <<todo, err>>
  <2>1. Gone(b)
    BY <1>11 DEF Gone
  <2> QED
    BY <1>1, <1>2, <1>11, <2>1 DEF Onward
<1>12. Succeeds(b) \/ Otherwise(b)
  BY DEF Acting
<1>13. Otherwise(b) =>
         \/ Fails(b) \/ (\E ops : Replaces(ops, o, S) /\ Instead(b, ops))
         \/ exited' = "panic" /\ o.do = "wait" /\ UNCHANGED <<todo, err>>
  BY DEF Otherwise
<1> QED
  BY <1>8, <1>9, <1>10, <1>11, <1>12, <1>13

Moves(b) ==
  /\ Common(b) /\ Onward(b)
  /\ DOMAIN todo' = Builds /\ \A c \in Builds : c # b => todo'[c] = todo[c] /\ err'[c] = err[c]
  /\ todo'[b] \in Seq(StepOps(Current(b), job[b].cfg))
  /\ err' \in [Builds -> BOOLEAN] /\ \A c \in Builds : err[c] => err'[c]
  /\ exited' \in {"no", "exit", "panic"}
  /\ Succeeds(b) => err' = err

LEMMA EveryMove ==
  ASSUME TypeOK, TodoTyped, ToolsAreTools, Created, NEW b \in Builds, Act(b)
  PROVE  Moves(b)
<1>1. Acting(b)
  BY EveryAction
<1> QED
  BY <1>1, EveryOnward DEF Moves, Acting

LEMMA Placed ==
  ASSUME NEW b \in Builds, Moves(b)
  PROVE  /\ runtime' = runtime /\ job' = job /\ pos' = pos /\ run' = run /\ Builds' = Builds
         /\ exited = "no" /\ todo[b] # <<>>
         /\ \A c \in Builds : Current(c)' = Current(c)
         /\ \A c \in Builds : c # b => todo'[c] = todo[c] /\ err'[c] = err[c] /\ ctr'[c] = ctr[c]
         /\ \A c \in Builds : c # b => disk'[c] = disk[c] \/ disk'[c] \in OfThisRun(c)
         /\ \A c : OfThisRun(c)' = OfThisRun(c)
<1>1. /\ runtime' = runtime /\ job' = job /\ pos' = pos /\ run' = run /\ Builds' = Builds
      /\ exited = "no" /\ todo[b] # <<>>
      /\ \A c \in Builds : Current(c)' = Current(c)
  BY DEF Moves, Common, place, Builds, Current
<1>2. \A c \in Builds : c # b => todo'[c] = todo[c] /\ err'[c] = err[c] /\ ctr'[c] = ctr[c]
  BY DEF Moves, Common
<1>3. \A c \in Builds : c # b => disk'[c] = disk[c] \/ disk'[c] \in OfThisRun(c)
  BY DEF Moves, Common
<1>4. \A c : OfThisRun(c)' = OfThisRun(c)
  BY <1>1 DEF OfThisRun, SharesFolder
<1> QED
  BY <1>1, <1>2, <1>3, <1>4

\* What is ahead is what is left of what was, or operations have been replaced.
LEMMA Shorter ==
  ASSUME TypeOK, TodoTyped, NEW b \in Builds, Moves(b)
  PROVE  \/ \E n : Rest(todo[b], n, todo'[b])
         \/ /\ Otherwise(b) /\ exited' = "no"
            /\ \E ops : /\ Replaces(ops, Op0(b), StepOps(Current(b), job[b].cfg))
                        /\ Joined(ops, Tail(todo[b]), todo'[b])
<1> DEFINE S == StepOps(Current(b), job[b].cfg)
<1>1. todo[b] \in Seq(S)
  BY Placed, HeadOp
<1>2. Rest(todo[b], Len(todo[b]), <<>>)
  BY <1>1, EmptyRest
<1>3. Rest(todo[b], 0, todo[b])
  <2>1. Len(todo[b]) \in Nat
    BY <1>1, LenProperties
  <2> QED
    BY <2>1 DEF Rest
<1> HIDE DEF S
<1>4. Onward(b)
  BY DEF Moves
<1>5. CASE On(b) \/ Logged(b)
  BY <1>5 DEF On, Logged
<1>6. CASE Skipped(b)
  BY <1>3, <1>6 DEF Skipped, Skips
<1>7. CASE Stopped(b)
  BY <1>2, <1>7 DEF Stopped
<1>8. CASE Gone(b)
  BY <1>2, <1>3, <1>8 DEF Gone
<1>9. CASE Expanded(b)
  BY <1>9 DEF Expanded
<1> QED
  BY <1>4, <1>5, <1>6, <1>7, <1>8, <1>9 DEF Onward

\* The operations that follow those that took the place of the first.
LEMMA Replaced ==
  ASSUME TypeOK, TodoTyped, NEW b \in Builds, Moves(b), NEW ops,
         Replaces(ops, Op0(b), StepOps(Current(b), job[b].cfg))
  PROVE  /\ Len(ops) \in Nat /\ Len(Tail(todo[b])) \in Nat /\ Rest(todo[b], 1, Tail(todo[b]))
         /\ Op0(b).do \in {"pull", "ensure"} /\ OffersOnce(ops)
         /\ \A k \in 1..Len(ops) :
              /\ ops[k].do \notin {"start", "commit", "create", "mark", "bind", "config", "unconfig"}
              /\ ops[k].fail \in {Op0(b).fail, "exit"}
              /\ \A i \in Image : Offers(ops[k], i) => Offers(Op0(b), i)
<1>1. ops \in Seq(StepOps(Current(b), job[b].cfg))
  BY DEF Replaces
<1>2. Tail(todo[b]) \in Seq(StepOps(Current(b), job[b].cfg)) /\ Rest(todo[b], 1, Tail(todo[b]))
  BY Placed, HeadOp
<1>3. Len(ops) \in Nat /\ Len(Tail(todo[b])) \in Nat
  BY <1>1, <1>2, LenProperties
<1> QED
  BY <1>2, <1>3 DEF Replaces

LEMMA TypesMove ==
  ASSUME TypeOK, TodoTyped, NEW b \in Builds, Moves(b)
  PROVE  TypeOK' /\ TodoTyped'
<1> DEFINE S == StepOps(Current(b), job[b].cfg)
<1>1. /\ runtime' = runtime /\ job' = job /\ pos' = pos /\ run' = run /\ Builds' = Builds
      /\ \A c \in Builds : Current(c)' = Current(c)
      /\ \A c \in Builds : c # b => todo'[c] = todo[c]
  BY Placed
<1>2. /\ todo[b] # <<>> /\ todo[b] \in Seq(S) /\ todo'[b] \in Seq(S) /\ pos[b] # 0
      /\ S \subseteq AnyOps(job[b].cfg)
  BY Placed, HeadOp DEF Moves, StepOps, ReleaseOps, AnyOps
<1>3. Supplied(job[b].cfg, Op0(b), local', remote')
  BY DEF Moves, Common
<1>4. local' \in [Image -> Stored] /\ remote' \in [Image -> [Platform -> Body \cup {None}]]
  BY <1>3 DEF Supplied
<1>5. \A x \in claimed' : x.img \in Image
  <2>1. CASE claimed' = claimed
    BY <2>1 DEF TypeOK
  <2>2. CASE Succeeds(b) /\ Op0(b).do = "push"
    <3>1. claimed' = claimed \cup {Given(b)} /\ Given(b).img = Op0(b).img
      BY <2>2 DEF Succeeds, Given
    <3>2. Op0(b) \in PushOps(ToolImage \cup {AppTag(job[b].cfg), AppURI(job[b].cfg)})
      BY <1>2, <2>2, HeadOp, KindOf
    <3>3. Op0(b).img \in Image
      BY <3>2, StepCfg, ImagesInPlay DEF PushOps
    <3> QED
      BY <3>1, <3>3 DEF TypeOK
  <2>3. Onward(b)
    BY DEF Moves
  <2>4. Succeeds(b) \/ Otherwise(b)
    BY <2>3 DEF Onward, On, Logged, Skipped, Stopped, Expanded, Gone
  <2> QED
    BY <2>1, <2>2, <2>4 DEF Succeeds, Otherwise
<1>6. ASSUME NEW c \in Builds, NEW k \in DOMAIN todo'[c]
      PROVE  todo'[c][k].fail \in {"exit", "err", "log", "next", "defer"}
  <2>1. CASE c = b
    <3> HIDE DEF S
    <3>1. todo'[b][k] \in S
      BY <1>2, <1>6, <2>1, ElementOfSeq, LenProperties
    <3> QED
      BY <1>2, <2>1, <3>1, KindOf DEF FailKind
  <2>2. CASE c # b
    BY <1>1, <1>6, <2>2 DEF TypeOK
  <2> QED
    BY <2>1, <2>2
<1>7. TypeOK'
  BY <1>1, <1>4, <1>5, <1>6 DEF TypeOK, Moves, Common, Builds
<1>8. TodoTyped'
  <2> SUFFICES ASSUME NEW c \in Builds
               PROVE  IF pos'[c] = 0 THEN todo'[c] = <<>> ELSE todo'[c] \in Seq(StepOps(Current(c)', job'[c].cfg))
    BY <1>1 DEF TodoTyped
  <2>1. CASE c = b
    BY <1>1, <1>2, <2>1
  <2>2. CASE c # b
    BY <1>1, <2>2 DEF TodoTyped
  <2> QED
    BY <2>1, <2>2
<1> QED
  BY <1>7, <1>8

\* Programs keep what they started with.
LEMMA StartsMove ==
  ASSUME TypeOK, TodoTyped, StartsWillEnd, OfferedOnce, MarksArePlain, ConfigsWillClean, NEW b \in Builds, Moves(b)
  PROVE  StartsWillEnd' /\ OfferedOnce' /\ MarksArePlain' /\ ConfigsWillClean'
<1> DEFINE s == todo[b]
           t == todo'[b]
<1>1. Builds' = Builds /\ \A c \in Builds : c # b => todo'[c] = todo[c]
  BY Placed
<1>2. Len(s) \in Nat /\ Len(s) > 0 /\ Op0(b) = s[1]
  BY Placed, HeadOp
<1>3. StartsEnd(s) /\ OffersOnce(s) /\ MarkedPlain(s) /\ ConfigsClean(s)
  BY DEF StartsWillEnd, OfferedOnce, MarksArePlain, ConfigsWillClean
<1>4. StartsEnd(t) /\ OffersOnce(t) /\ MarkedPlain(t) /\ ConfigsClean(t)
  <2>1. ASSUME NEW n, Rest(s, n, t)
        PROVE  StartsEnd(t) /\ OffersOnce(t) /\ MarkedPlain(t) /\ ConfigsClean(t)
    <3> HIDE DEF s, t
    <3> QED
      BY <1>2, <1>3, <2>1, StartsEndRest, OffersOnceRest, MarkedPlainRest, ConfigsCleanRest
  <2>2. ASSUME NEW ops, Replaces(ops, Op0(b), StepOps(Current(b), job[b].cfg)), Joined(ops, Tail(s), t)
        PROVE  StartsEnd(t) /\ OffersOnce(t) /\ MarkedPlain(t) /\ ConfigsClean(t)
    <3> DEFINE r == Tail(s)
    <3>1. /\ Len(ops) \in Nat /\ Len(r) \in Nat /\ Rest(s, 1, r) /\ OffersOnce(ops)
          /\ \A k \in 1..Len(ops) :
               /\ ops[k].do \notin {"start", "commit", "create", "mark", "bind", "config", "unconfig"}
               /\ \A i \in Image : Offers(ops[k], i) => Offers(s[1], i)
      BY <1>2, <2>2, Replaced
    <3> HIDE DEF s, t, r
    <3>2. StartsEnd(r) /\ MarkedPlain(r) /\ ConfigsClean(r)
      BY <1>2, <1>3, <3>1, StartsEndRest, MarkedPlainRest, ConfigsCleanRest
    <3>3. Joined(ops, r, t)
      BY <2>2 DEF r
    <3>4. StartsEnd(ops)
      BY <3>1 DEF StartsEnd
    <3>5. StartsEnd(t)
      BY <3>1, <3>2, <3>3, <3>4, StartsEndJoined
    <3>6. OffersOnce(t)
      <4>1. \A k \in 1..Len(ops), i \in Image \ ToolImage : Offers(ops[k], i) => Offers(s[1], i)
        BY <3>1
      <4> QED
        BY <1>2, <1>3, <3>1, <3>3, <4>1, OffersOnceExpanded
    <3>7. MarkedPlain(t)
      BY <3>1, <3>2, <3>3, MarkedPlainJoined
    <3>8. ConfigsClean(t)
      BY <3>1, <3>2, <3>3, ConfigsCleanJoined
    <3> QED
      BY <3>5, <3>6, <3>7, <3>8
  <2> QED
    BY <2>1, <2>2, Shorter
<1> QED
  BY <1>1, <1>4 DEF StartsWillEnd, OfferedOnce, MarksArePlain, ConfigsWillClean

LEMMA RunningMove ==
  ASSUME TypeOK, TodoTyped, StartsWillEnd, RunningWillEnd, NEW b \in Builds, Moves(b)
  PROVE  RunningWillEnd'
<1> DEFINE s == todo[b]
           t == todo'[b]
           o == Op0(b)
<1>1. /\ Builds' = Builds /\ runtime' = runtime /\ exited = "no"
      /\ \A c \in Builds : c # b => todo'[c] = todo[c] /\ ctr'[c] = ctr[c]
  BY Placed
<1>2. Len(s) \in Nat /\ Len(s) > 0 /\ o = s[1]
  BY Placed, HeadOp
<1>3. ASSUME runtime # "host", exited' = "no", ctr'[b].state = "running"
      PROVE  Ends(t, 0)
  \* A container that runs already ends behind the operation, if it goes well.
  <2>1. ASSUME ctr[b].state = "running", o.do # "wait", ~(o.do = "stop" /\ o.fail = "exit")
        PROVE  Ends(s, 1) /\ o.do \in Inside /\ o.fail = "exit"
    <3>1. Ends(s, 0)
      BY <1>1, <1>3, <2>1 DEF RunningWillEnd
    <3>2. PICK l \in (0 + 1)..Len(s) :
            /\ s[l].do = "wait" \/ (s[l].do = "stop" /\ s[l].fail = "exit")
            /\ \A m \in (0 + 1)..(l - 1) : s[m].do \in Inside /\ s[m].fail = "exit"
      BY <3>1 DEF Ends
    <3>3. l # 1
      BY <1>2, <2>1, <3>2
    <3>4. l \in (1 + 1)..Len(s) /\ 1 \in (0 + 1)..(l - 1) /\ \A m \in (1 + 1)..(l - 1) : m \in (0 + 1)..(l - 1)
      BY <1>2, <3>2, <3>3
    <3> HIDE DEF s, o
    <3>5. Ends(s, 1)
      BY <3>2, <3>4 DEF Ends
    <3>6. s[1].do \in Inside /\ s[1].fail = "exit"
      BY <3>2, <3>4
    <3> QED
      BY <1>2, <3>5, <3>6
  <2>2. CASE On(b)
    <3>1. Rest(s, 1, t) /\ Succeeds(b)
      BY <2>2 DEF On
    <3>2. o.do = "start" \/ (ctr[b].state = "running" /\ o.do # "wait" /\ o.do # "stop")
      BY <1>3, <3>1 DEF Succeeds
    <3>3. Ends(s, 1)
      <4>1. CASE o.do = "start"
        <5>1. StartsEnd(s) /\ 1 \in 1..Len(s)
          BY <1>2 DEF StartsWillEnd
        <5> QED
          BY <1>2, <4>1, <5>1 DEF StartsEnd
      <4>2. CASE o.do # "start"
        BY <2>1, <3>2, <4>2
      <4> QED
        BY <4>1, <4>2
    <3> HIDE DEF s, t
    <3> QED
      BY <1>2, <3>1, <3>3, EndsRest
  <2>3. CASE Otherwise(b) /\ o.fail # "exit"
    <3>1. ctr[b].state = "running" /\ o.do # "wait"
      BY <1>3, <2>3 DEF Otherwise
    <3> QED
      BY <2>1, <2>3, <3>1
  <2>4. CASE Expanded(b)
    <3>1. Otherwise(b) /\ o.do \in {"pull", "ensure"}
      BY <2>4 DEF Expanded, Replaces
    <3>2. ctr[b].state = "running" /\ o.do # "wait"
      BY <1>3, <3>1 DEF Otherwise
    <3>3. o.do \in Inside
      BY <2>1, <3>1, <3>2
    <3> QED
      BY <3>1, <3>3 DEF Inside
  <2>5. Onward(b)
    BY DEF Moves
  <2> QED
    BY <1>3, <2>2, <2>3, <2>4, <2>5 DEF Onward, Logged, Skipped, Stopped, Gone
<1> QED
  BY <1>1, <1>3 DEF RunningWillEnd

LEMMA AdriftMove ==
  ASSUME TypeOK, TodoTyped, AdriftReported, NEW b \in Builds, Moves(b)
  PROVE  AdriftReported'
<1>1. /\ Builds' = Builds /\ runtime' = runtime /\ job' = job /\ pos' = pos /\ exited = "no"
      /\ \A c \in Builds : c # b => ctr'[c] = ctr[c] /\ err'[c] = err[c]
  BY Placed
<1>2. \A c \in Builds : Commenting(c)' <=> Commenting(c)
  BY <1>1 DEF Commenting
<1>3. ASSUME runtime # "host", exited' = "no", ctr'[b].state = "adrift"
      PROVE  err'[b] \/ Commenting(b)
  <2>1. Onward(b) /\ (err[b] => err'[b])
    BY DEF Moves
  <2>2. Succeeds(b) \/ Otherwise(b)
    BY <2>1 DEF Onward, On, Logged, Skipped, Stopped, Expanded, Gone
  <2>3. ctr[b].state = "adrift" \/ err'[b] = TRUE \/ Commenting(b)
    BY <1>3, <2>2 DEF Succeeds, Otherwise
  <2>4. ctr[b].state = "adrift" => err[b] \/ Commenting(b)
    BY <1>1, <1>3 DEF AdriftReported
  <2> QED
    BY <2>1, <2>3, <2>4
<1>4. ASSUME runtime # "host", exited' = "no", NEW c \in Builds, ctr'[c].state = "adrift"
      PROVE  err'[c] \/ Commenting(c)
  <2>1. CASE c = b
    BY <1>3, <1>4, <2>1
  <2>2. CASE c # b
    BY <1>1, <1>4, <2>2 DEF AdriftReported
  <2> QED
    BY <2>1, <2>2
<1> QED
  BY <1>1, <1>2, <1>4 DEF AdriftReported

LEMMA CreatedMove ==
  ASSUME TypeOK, TodoTyped, Created, MarksArePlain, NEW b \in Builds, Moves(b)
  PROVE  Created'
<1> DEFINE s == todo[b]
           t == todo'[b]
           o == Op0(b)
           Fine(k) == ctr'[b].body \in Body \/ \E j \in 1..(k - 1) : t[j].do = "create"
<1>1. /\ Builds' = Builds /\ runtime' = runtime
      /\ \A c \in Builds : c # b => todo'[c] = todo[c] /\ ctr'[c] = ctr[c]
  BY Placed
<1>2. Len(s) \in Nat /\ Len(s) > 0 /\ o = s[1]
  BY Placed, HeadOp
<1>3. o.do = "create" => o.fail = "exit"
  <2>1. o.do = "create" => o \in CreateOps
    BY Placed, HeadOp, KindOf
  <2> QED
    BY <2>1 DEF CreateOps
<1>4. ASSUME runtime # "host", NEW k \in 1..Len(t), t[k].do = "commit"
      PROVE  Fine(k)
  <2>1. \A q \in 1..Len(s) : s[q].do = "commit" => ctr[b].body \in Body \/ \E j \in 1..(q - 1) : s[j].do = "create"
    BY <1>4 DEF Created
  <2>2. ASSUME Rest(s, 1, t), ctr[b].body \in Body \/ o.do = "create" => ctr'[b].body \in Body
        PROVE  Fine(k)
    <3>1. k + 1 \in 1..Len(s) /\ s[k + 1].do = "commit"
      BY <1>2, <1>4, <2>2 DEF Rest
    <3>2. CASE ctr[b].body \in Body
      BY <2>2, <3>2
    <3>3. CASE \E j \in 1..((k + 1) - 1) : s[j].do = "create"
      <4>1. PICK j \in 1..k : s[j].do = "create"
        BY <1>4, <3>3
      <4>2. CASE j = 1
        BY <1>2, <2>2, <4>1, <4>2
      <4>3. CASE j # 1
        <5>1. j - 1 \in 1..(k - 1) /\ j - 1 \in 1..Len(t) /\ (j - 1) + 1 = j
          BY <1>2, <1>4, <2>2, <4>1, <4>3 DEF Rest
        <5>2. t[j - 1] = s[j]
          BY <2>2, <5>1 DEF Rest
        <5> QED
          BY <4>1, <5>1, <5>2
      <4> QED
        BY <4>2, <4>3
    <3> QED
      BY <2>1, <3>1, <3>2, <3>3
  <2>3. ASSUME t = s, ctr'[b].body = ctr[b].body
        PROVE  Fine(k)
    BY <1>4, <2>1, <2>3
  <2>4. CASE On(b)
    <3>1. Succeeds(b) /\ Rest(s, 1, t)
      BY <2>4 DEF On
    <3>2. ctr[b].body \in Body \/ o.do = "create" => ctr'[b].body \in Body
      BY <1>4, <3>1 DEF Succeeds
    <3> QED
      BY <2>2, <3>1, <3>2
  <2>5. CASE Logged(b)
    BY <1>3, <2>2, <2>5 DEF Logged, Otherwise
  <2>6. CASE Skipped(b)
    <3>1. ctr'[b].body = ctr[b].body
      BY <2>6 DEF Skipped, Otherwise
    <3>2. CASE t = s
      BY <2>3, <3>1, <3>2
    <3>3. CASE \E n \in Nat : Skips(b, n)
      <4>1. PICK n \in Nat : Skips(b, n)
        BY <3>3
      <4>2. Rest(s, n, t) /\ n > 0 /\ s[n].do = "mark" /\ MarkedPlain(s)
        BY <4>1 DEF Skips, MarksArePlain
      <4> HIDE DEF s, t
      <4>3. t[k].do # "commit"
        BY <1>2, <1>4, <4>2, BindsMarked
      <4> QED
        BY <1>4, <4>3
    <3> QED
      BY <2>6, <3>2, <3>3 DEF Skipped
  <2>7. CASE Stopped(b)
    <3>1. t = <<>>
      BY <2>7 DEF Stopped
    <3> QED
      BY <1>4, <3>1
  <2>8. CASE Gone(b)
    <3>1. t = <<>> \/ t = s
      BY <2>8 DEF Gone
    <3>2. ctr'[b].body = ctr[b].body
      BY <2>8 DEF Gone, Otherwise
    <3>3. t # <<>>
      BY <1>4
    <3> QED
      BY <2>3, <3>1, <3>2, <3>3
  <2>9. CASE Expanded(b)
    <3>1. PICK ops : Replaces(ops, o, StepOps(Current(b), job[b].cfg)) /\ Joined(ops, Tail(s), t)
      BY <2>9 DEF Expanded
    <3> DEFINE r == Tail(s)
    <3>2. /\ Len(ops) \in Nat /\ Len(r) \in Nat /\ Rest(s, 1, r) /\ o.do \in {"pull", "ensure"}
          /\ \A q \in 1..Len(ops) : ops[q].do # "commit"
      BY <3>1, Replaced
    <3>3. Joined(ops, r, t) /\ ctr'[b].body = ctr[b].body
      BY <2>9, <3>1 DEF Expanded, Otherwise
    <3> HIDE DEF r
    <3>4. ~(k <= Len(ops))
      BY <1>4, <3>2, <3>3 DEF Joined
    <3> DEFINE q == k - Len(ops)
    <3>5. q \in 1..Len(r) /\ q + Len(ops) = k
      BY <1>4, <3>2, <3>3, <3>4 DEF Joined
    <3>6. t[k] = r[q]
      BY <3>3, <3>5 DEF Joined
    <3>7. q + 1 \in 1..Len(s) /\ s[q + 1] = r[q]
      BY <1>2, <3>2, <3>5 DEF Rest
    <3>8. CASE ctr[b].body \in Body
      BY <3>3, <3>8
    <3>9. CASE \E j \in 1..((q + 1) - 1) : s[j].do = "create"
      <4>1. PICK j \in 1..q : s[j].do = "create"
        BY <3>5, <3>9
      <4>2. j # 1
        BY <1>2, <3>2, <4>1
      <4>3. j - 1 \in 1..Len(r) /\ (j - 1) + 1 = j /\ (j - 1) + Len(ops) \in 1..(k - 1)
        BY <3>2, <3>5, <4>1, <4>2
      <4>4. r[j - 1] = s[j]
        BY <3>2, <4>3 DEF Rest
      <4>5. t[(j - 1) + Len(ops)] = r[j - 1]
        BY <3>3, <4>3 DEF Joined
      <4> QED
        BY <4>1, <4>3, <4>4, <4>5
    <3> QED
      BY <1>4, <2>1, <3>6, <3>7, <3>8, <3>9
  <2>10. Onward(b)
    BY DEF Moves
  <2> QED
    BY <2>4, <2>5, <2>6, <2>7, <2>8, <2>9, <2>10 DEF Onward
<1> QED
  BY <1>1, <1>4 DEF Created

LEMMA CompiledMove ==
  ASSUME TypeOK, TodoTyped, Compiled, NEW b \in Builds, Moves(b)
  PROVE  Compiled'
<1> DEFINE s == todo[b]
           t == todo'[b]
           o == Op0(b)
<1>1. /\ Builds' = Builds /\ job' = job /\ pos' = pos /\ exited = "no"
      /\ \A c \in Builds : c # b => todo'[c] = todo[c] /\ err'[c] = err[c]
      /\ \A c \in Builds : c # b => disk'[c] = disk[c] \/ disk'[c] \in OfThisRun(c)
      /\ \A c : OfThisRun(c)' = OfThisRun(c)
  BY Placed
<1>2. Len(s) \in Nat /\ Len(s) > 0 /\ o = s[1]
  BY Placed, HeadOp
<1>3. /\ err[b] => err'[b]
      /\ disk[b] \in OfThisRun(b) => disk'[b] \in OfThisRun(b)
  <2>1. Onward(b)
    BY DEF Moves
  <2>2. Succeeds(b) \/ Otherwise(b)
    BY <2>1 DEF Onward, On, Logged, Skipped, Stopped, Expanded, Gone
  <2>3. disk'[b] = disk[b] \/ disk'[b] = "fresh"
    BY <2>2 DEF Succeeds, Otherwise
  <2> QED
    BY <2>3, StoredFacts DEF Moves
<1>4. ASSUME exited' = "no", Makes(s)
      PROVE  disk'[b] = "fresh" \/ err'[b] \/ Makes(t)
  <2>1. s[1].fail \in {"exit", "err"}
    <3>1. PICK l \in 1..Len(s) : \A m \in 1..l : s[m].fail \in {"exit", "err"}
      BY <1>4 DEF Makes
    <3> QED
      BY <1>2, <3>1
  <2>2. CASE On(b)
    <3>1. Rest(s, 1, t) /\ disk'[b] = IF o.do = "wait" /\ o.makes THEN "fresh" ELSE disk[b]
      BY <2>2 DEF On, Succeeds
    <3>2. CASE o.do = "wait" /\ o.makes
      BY <3>1, <3>2
    <3>3. CASE ~(o.do = "wait" /\ o.makes)
      <4>1. ~(s[1].do = "wait" /\ s[1].makes)
        BY <1>2, <3>3
      <4> HIDE DEF s, t, o
      <4> QED
        BY <1>2, <1>4, <3>1, <4>1, MakesRest
    <3> QED
      BY <3>2, <3>3
  <2>3. CASE Logged(b) \/ Skipped(b)
    BY <1>2, <2>1, <2>3 DEF Logged, Skipped
  <2>4. CASE Stopped(b)
    BY <2>4 DEF Stopped
  <2>5. CASE Gone(b)
    BY <1>4, <2>5 DEF Gone
  <2>6. CASE Expanded(b)
    <3>1. PICK ops : Replaces(ops, o, StepOps(Current(b), job[b].cfg)) /\ Joined(ops, Tail(s), t)
      BY <2>6 DEF Expanded
    <3> DEFINE r == Tail(s)
    <3>2. /\ Len(ops) \in Nat /\ Len(r) \in Nat /\ Rest(s, 1, r) /\ o.do \in {"pull", "ensure"}
          /\ \A q \in 1..Len(ops) : ops[q].fail \in {o.fail, "exit"}
      BY <3>1, Replaced
    <3>3. Joined(ops, r, t) /\ ~(s[1].do = "wait" /\ s[1].makes) /\ \A q \in 1..Len(ops) : ops[q].fail \in {"exit", "err"}
      BY <1>2, <2>1, <3>1, <3>2
    <3> HIDE DEF s, t, r, o
    <3>4. Makes(r)
      BY <1>2, <1>4, <3>2, <3>3, MakesRest
    <3> QED
      BY <3>2, <3>3, <3>4, MakesJoined
  <2>7. Onward(b)
    BY DEF Moves
  <2> QED
    BY <2>2, <2>3, <2>4, <2>5, <2>6, <2>7 DEF Onward
<1> HIDE DEF s, t
<1>5. ASSUME exited' = "no", NEW c \in Builds, NEW k \in 1..pos[c], job[c].steps[k] \in CompileStep
      PROVE  disk'[c] \in OfThisRun(c) \/ err'[c] \/ (k = pos[c] /\ Makes(todo'[c]))
  <2>1. disk[c] \in OfThisRun(c) \/ err[c] \/ (k = pos[c] /\ Makes(todo[c]))
    BY <1>1, <1>5 DEF Compiled
  <2>2. CASE c = b
    BY <1>3, <1>4, <1>5, <2>1, <2>2, StoredFacts DEF s, t
  <2>3. CASE c # b
    BY <1>1, <2>1, <2>3
  <2> QED
    BY <2>2, <2>3
<1> QED
  BY <1>1, <1>5 DEF Compiled

\* The images of one build are not those of another.
LEMMA OwnImages ==
  ASSUME TypeOK, NEW b \in Builds, NEW c \in Builds, b # c
  PROVE  \A i \in {AppTag(job[c].cfg), AppURI(job[c].cfg)} : i \in Image /\ i \notin Mine(job[b].cfg)
<1>1. job[b].cfg.name # job[c].cfg.name
  <2>1. job \in Jobs /\ b \in DOMAIN job /\ c \in DOMAIN job
    BY DEF TypeOK, Builds
  <2>2. \A j \in Jobs : \A x, y \in DOMAIN j : j[y].cfg.name = j[x].cfg.name => y = x
    BY ContainerAssumption DEF ContainerAssumption
  <2> QED
    BY ONLY <2>1, <2>2, b # c
<1>2. \A d : AppTag(d)[1] = d.name /\ AppURI(d)[1] = d.name
  BY DEF AppTag, AppURI
<1>3. \A i \in {AppTag(job[c].cfg), AppURI(job[c].cfg)} : i \notin {AppTag(job[b].cfg), AppURI(job[b].cfg)}
  <2>1. /\ AppTag(job[b].cfg)[1] = job[b].cfg.name /\ AppURI(job[b].cfg)[1] = job[b].cfg.name
        /\ AppTag(job[c].cfg)[1] = job[c].cfg.name /\ AppURI(job[c].cfg)[1] = job[c].cfg.name
    BY ONLY <1>2
  <2> QED
    BY ONLY <1>1, <2>1
<1>4. /\ AppTag(job[c].cfg) \in Image \ (BaseImage \cup ToolImage)
      /\ AppURI(job[c].cfg) \in Image \ (BaseImage \cup ToolImage)
  BY StepCfg
<1> DEFINE Shared == BaseImage \cup ToolImage
<1>5. Mine(job[b].cfg) = Shared \cup {AppTag(job[b].cfg), AppURI(job[b].cfg)}
  BY DEF Mine
<1>6. AppTag(job[c].cfg) \in Image \ Shared /\ AppURI(job[c].cfg) \in Image \ Shared
  BY <1>4
<1> HIDE DEF Shared
<1> QED
  BY ONLY <1>3, <1>5, <1>6

\* What an operation pushes or builds is of its own build, and an application
\* image is of a production step.
LEMMA OffersOwn ==
  ASSUME TypeOK, TodoTyped, NEW b \in Builds, todo[b] # <<>>, NEW i \in Image, Offers(Op0(b), i)
  PROVE  /\ i \in ToolImage \cup {AppTag(job[b].cfg), AppURI(job[b].cfg)}
         /\ i \notin ToolImage => Current(b) \in ProdStep
<1> DEFINE o == Op0(b)
           c == job[b].cfg
<1>1. o \in AnyOps(c) /\ o \in StepOps(Current(b), c)
  BY HeadOp
<1>2. o.do \in {"push", "ensure", "buildMulti"} /\ o.img = i
  BY DEF Offers
<1>3. \/ o \in EnsureOps(ToolImage, "tool") \cup EnsureOps({AppTag(c)}, "fresh")
      \/ o \in BuildOps(ToolImage, "tool") \cup BuildOps({AppTag(c)}, "fresh")
      \/ o \in PushOps(ToolImage \cup {AppTag(c), AppURI(c)})
  BY <1>1, <1>2, KindOf
<1>4. i \in ToolImage \cup {AppTag(c), AppURI(c)}
  BY <1>2, <1>3 DEF EnsureOps, BuildOps, PushOps
<1>5. i \notin ToolImage => o \notin PlainOps(c) \cup CommentOps(c) \cup ReleaseOps(c)
  BY WhoDoes
<1>6. i \notin ToolImage => Current(b) \in ProdStep
  BY <1>1, <1>5 DEF StepOps, GithubOps
<1> QED
  BY <1>4, <1>6

LEMMA SourcedMove ==
  ASSUME TypeOK, TodoTyped, Sourced, NEW b \in Builds, Moves(b)
  PROVE  Sourced'
<1>1. /\ Builds' = Builds /\ job' = job /\ pos' = pos /\ runtime' = runtime
      /\ \A c \in Builds : Current(c)' = Current(c)
      /\ \A c \in Builds : c # b => todo'[c] = todo[c] /\ err'[c] = err[c] /\ ctr'[c] = ctr[c]
      /\ \A c \in Builds : c # b => disk'[c] = disk[c] \/ disk'[c] \in OfThisRun(c)
      /\ \A c : OfThisRun(c)' = OfThisRun(c)
  BY Placed
<1> DEFINE Good(d, s, k) ==
             /\ s[k].fail = "exit" /\ s[k].do \notin {"pull", "ensure", "tag", "build", "buildMulti"}
             /\ s[k].do \in Copies => disk[d] \in OfThisRun(d) \/ err[d]
             /\ s[k].do = "commit" =>
                  From(s, k, Copies) \/ (Untouched(s, k, Copies) /\ (ctr[d].body \in OfThisRun(d) \/ err[d]))
             /\ s[k].do = "tagCommit" =>
                  From(s, k, {"commit"}) \/ (Untouched(s, k, {"commit"}) /\ (ctr[d].made.body \in OfThisRun(d) \/ err[d]))
             /\ s[k].do = "push" => s[k].img = AppURI(job[d].cfg) /\
                  \/ TaggedBefore(s, k, s[k].img)
                  \/ k = 1 /\ (local[s[k].img].body \in OfThisRun(d) \/ err[d])
           Later(d, s, k) ==
             /\ s[k].fail = "exit" /\ s[k].do \notin {"pull", "ensure", "tag", "build", "buildMulti"}
             /\ s[k].do \in Copies => disk'[d] \in OfThisRun(d) \/ err'[d]
             /\ s[k].do = "commit" =>
                  From(s, k, Copies) \/ (Untouched(s, k, Copies) /\ (ctr'[d].body \in OfThisRun(d) \/ err'[d]))
             /\ s[k].do = "tagCommit" =>
                  From(s, k, {"commit"}) \/ (Untouched(s, k, {"commit"}) /\ (ctr'[d].made.body \in OfThisRun(d) \/ err'[d]))
             /\ s[k].do = "push" => s[k].img = AppURI(job[d].cfg) /\
                  \/ TaggedBefore(s, k, s[k].img)
                  \/ k = 1 /\ (local'[s[k].img].body \in OfThisRun(d) \/ err'[d])
<1>2. \A d \in Builds : Packaging(d)' <=> Packaging(d)
  BY <1>1 DEF Packaging, Compiles
<1>3. \A d \in Builds : Packaging(d) => \A k \in 1..Len(todo[d]) : Good(d, todo[d], k)
  BY DEF Sourced
<1>4. ASSUME NEW d \in Builds, d # b, Packaging(d), NEW k \in 1..Len(todo'[d])
      PROVE  Later(d, todo'[d], k)
  <2>1. /\ todo'[d] = todo[d] /\ err'[d] = err[d] /\ ctr'[d] = ctr[d] /\ Good(d, todo[d], k)
        /\ disk'[d] = disk[d] \/ disk'[d] \in OfThisRun(d)
    BY <1>1, <1>3, <1>4
  <2>2. local'[AppURI(job[d].cfg)] = local[AppURI(job[d].cfg)]
    BY <1>4, OwnImages DEF Moves, Common, Supplied
  <2> HIDE DEF Moves
  <2> QED
    BY ONLY <2>1, <2>2
<1>5. ASSUME Packaging(b), NEW k \in 1..Len(todo'[b])
      PROVE  Later(b, todo'[b], k)
  <2> DEFINE s == todo[b]
             t == todo'[b]
             o == Op0(b)
             x == ctr[b]
             y == ctr'[b]
  <2>1. Len(s) \in Nat /\ Len(s) > 0 /\ o = s[1]
    BY Placed, HeadOp
  <2>2. \A q \in 1..Len(s) : Good(b, s, q)
    BY <1>3, <1>5
  <2>3. Good(b, s, 1)
    BY <2>1, <2>2
  <2>4. o.fail = "exit" /\ o.do \notin {"pull", "ensure"}
    BY <2>1, <2>3
  <2>5. ~Logged(b) /\ ~Skipped(b) /\ ~Stopped(b) /\ ~Expanded(b)
    BY <2>4 DEF Logged, Skipped, Stopped, Expanded, Replaces
  <2>6. On(b) \/ Gone(b)
    BY <2>5 DEF Moves, Onward
  <2>7. CASE Gone(b)
    <3>1. t # <<>>
      BY <1>5
    <3>2. t = s /\ o.do = "wait" /\ y.body = x.body /\ y.made = x.made /\ disk' = disk
      BY <2>7, <3>1 DEF Gone, Otherwise
    <3>3. err[b] => err'[b]
      BY DEF Moves
    <3>4. Good(b, t, k)
      BY <1>5, <2>2, <3>2
    <3>5. t[k].do = "push" => TaggedBefore(t, k, t[k].img)
      BY <2>1, <3>2, <3>4
    <3> QED
      BY <3>2, <3>3, <3>4, <3>5
  <2>8. CASE On(b)
    <3>1. Succeeds(b) /\ Rest(s, 1, t) /\ err' = err
      BY <2>8 DEF On, Moves
    <3>2. k + 1 \in 1..Len(s) /\ t[k] = s[k + 1] /\ k > 0
      BY <1>5, <2>1, <3>1 DEF Rest
    <3>3. Good(b, s, k + 1)
      BY <2>2, <3>2
    <3>4. disk[b] \in OfThisRun(b) => disk'[b] \in OfThisRun(b)
      <4>1. disk'[b] = disk[b] \/ disk'[b] = "fresh"
        BY <3>1 DEF Succeeds
      <4> QED
        BY <4>1, StoredFacts
    <3>5. runtime # "host"
      BY <1>5 DEF Packaging
    <3>6. \A K : ~From(s, 1, K)
      BY DEF From
    <3>7. \A K : /\ From(s, k + 1, K) => From(t, k, K) \/ (o.do \in K /\ Untouched(t, k, K))
                 /\ Untouched(s, k + 1, K) => Untouched(t, k, K) /\ o.do \notin K \cup {"create"}
      <4> HIDE DEF s, t, o
      <4> QED
        BY <1>5, <2>1, <3>1, FromRest DEF t
    <3>8. t[k].do = "commit" => From(t, k, Copies) \/ (Untouched(t, k, Copies) /\ (y.body \in OfThisRun(b) \/ err'[b]))
      <4>1. o.do \in Copies => y.body \in OfThisRun(b) \/ err'[b]
        <5>1. o.do \in Copies => y.body = disk[b]
          BY <3>1, <3>5 DEF Succeeds
        <5>2. o.do \in Copies => disk[b] \in OfThisRun(b) \/ err[b]
          BY <2>1, <2>3
        <5> QED
          BY <3>1, <5>1, <5>2
      <4>2. o.do \notin Copies \cup {"create"} => y.body = x.body
        BY <3>1 DEF Succeeds
      <4>3. t[k].do = "commit" =>
              From(s, k + 1, Copies) \/ (Untouched(s, k + 1, Copies) /\ (x.body \in OfThisRun(b) \/ err[b]))
        BY <3>2, <3>3
      <4> QED
        BY <3>1, <3>7, <4>1, <4>2, <4>3
    <3>9. t[k].do = "tagCommit" =>
            From(t, k, {"commit"}) \/ (Untouched(t, k, {"commit"}) /\ (y.made.body \in OfThisRun(b) \/ err'[b]))
      <4>1. o.do = "commit" => y.made.body \in OfThisRun(b) \/ err'[b]
        <5>1. o.do = "commit" => y.made.body = x.body
          BY <3>1, <3>5 DEF Succeeds
        <5>2. o.do = "commit" => x.body \in OfThisRun(b) \/ err[b]
          BY <2>1, <2>3, <3>6
        <5> QED
          BY <3>1, <5>1, <5>2
      <4>2. o.do \notin {"commit"} \cup {"create"} => y.made = x.made
        BY <3>1 DEF Succeeds
      <4>3. t[k].do = "tagCommit" =>
              From(s, k + 1, {"commit"}) \/ (Untouched(s, k + 1, {"commit"}) /\ (x.made.body \in OfThisRun(b) \/ err[b]))
        BY <3>2, <3>3
      <4> QED
        BY <3>1, <3>7, <4>1, <4>2, <4>3
    <3>10. t[k].do = "push" => t[k].img = AppURI(job[b].cfg) /\
             \/ TaggedBefore(t, k, t[k].img)
             \/ k = 1 /\ (local'[t[k].img].body \in OfThisRun(b) \/ err'[b])
      <4> SUFFICES ASSUME t[k].do = "push"
                   PROVE  t[k].img = AppURI(job[b].cfg) /\
                            \/ TaggedBefore(t, k, t[k].img)
                            \/ k = 1 /\ (local'[t[k].img].body \in OfThisRun(b) \/ err'[b])
        OBVIOUS
      <4>1. t[k].img = AppURI(job[b].cfg) /\ TaggedBefore(s, k + 1, t[k].img)
        BY <3>2, <3>3
      <4>2. s[k].do = "tagCommit" /\ s[k].img = t[k].img
        <5>1. (k + 1) - 1 = k
          BY <1>5
        <5> QED
          BY <4>1, <5>1 DEF TaggedBefore
      <4>3. CASE k = 1
        <5>1. o.do = "tagCommit" /\ o.img = t[k].img
          BY <2>1, <4>2, <4>3
        <5>2. local'[o.img] = x.made
          BY <3>1, <3>5, <5>1 DEF Succeeds
        <5>3. x.made.body \in OfThisRun(b) \/ err[b]
          BY <2>1, <2>3, <3>6, <5>1
        <5> QED
          BY <3>1, <4>1, <4>3, <5>1, <5>2, <5>3
      <4>4. CASE k # 1
        <5>1. k - 1 \in 1..Len(t) /\ (k - 1) + 1 = k /\ k > 1
          BY <1>5, <4>4
        <5>2. t[k - 1] = s[k]
          BY <3>1, <5>1 DEF Rest
        <5>3. TaggedBefore(t, k, t[k].img)
          BY <4>2, <5>1, <5>2 DEF TaggedBefore
        <5> QED
          BY <4>1, <5>3
      <4> QED
        BY <4>3, <4>4
    <3> QED
      BY <3>1, <3>2, <3>3, <3>4, <3>8, <3>9, <3>10
  <2> QED
    BY <2>6, <2>7, <2>8
<1>6. \A d \in Builds : Packaging(d) => \A k \in 1..Len(todo'[d]) : Later(d, todo'[d], k)
  BY <1>4, <1>5
<1> QED
  BY <1>1, <1>2, <1>6 DEF Sourced

\* A claim is new or old.
LEMMA ClaimsMove ==
  ASSUME TypeOK, TodoTyped, NEW b \in Builds, Moves(b), NEW x \in claimed'
  PROVE  \/ x \in claimed
         \/ /\ On(b) /\ Op0(b).do = "push" /\ x = Given(b) /\ x.img = Op0(b).img
            /\ Op0(b).img \in ToolImage \cup {AppTag(job[b].cfg), AppURI(job[b].cfg)}
            /\ Op0(b).img \in Image /\ Offers(Op0(b), Op0(b).img)
            /\ Op0(b).img \notin ToolImage => Current(b) \in ProdStep
            /\ runtime # "host" => /\ x.plat \in Platform /\ x.body \in Body
                                   /\ (x.cut = TRUE /\ runtime = "docker") \/ remote'[x.img][x.plat] = x.body
<1>1. x \in claimed \/ (On(b) /\ Op0(b).do = "push" /\ x = Given(b))
  BY DEF Moves, Onward, On, Succeeds, Logged, Skipped, Stopped, Expanded, Gone, Otherwise
<1>2. ASSUME On(b), Op0(b).do = "push", x = Given(b)
      PROVE  /\ x.img = Op0(b).img
             /\ Op0(b).img \in ToolImage \cup {AppTag(job[b].cfg), AppURI(job[b].cfg)}
             /\ Op0(b).img \in Image /\ Offers(Op0(b), Op0(b).img)
             /\ Op0(b).img \notin ToolImage => Current(b) \in ProdStep
             /\ runtime # "host" => /\ x.plat \in Platform /\ x.body \in Body
                                    /\ (x.cut = TRUE /\ runtime = "docker") \/ remote'[x.img][x.plat] = x.body
  <2>1. Op0(b) \in PushOps(ToolImage \cup {AppTag(job[b].cfg), AppURI(job[b].cfg)}) /\ todo[b] # <<>>
    BY <1>2, Placed, HeadOp, KindOf
  <2>2. Op0(b).img \in ToolImage \cup {AppTag(job[b].cfg), AppURI(job[b].cfg)}
    BY <2>1 DEF PushOps
  <2>3. Op0(b).img \in Image
    BY <2>2, StepCfg, ImagesInPlay
  <2>4. Offers(Op0(b), Op0(b).img)
    BY <1>2 DEF Offers
  <2>5. Op0(b).img \notin ToolImage => Current(b) \in ProdStep
    BY <2>1, <2>3, <2>4, OffersOwn
  <2>6. x.img = Op0(b).img
    BY <1>2 DEF Given
  <2>7. runtime # "host" => /\ x.plat \in Platform /\ x.body \in Body
                            /\ (x.cut = TRUE /\ runtime = "docker") \/ remote'[x.img][x.plat] = x.body
    BY <1>2 DEF On, Succeeds
  <2> QED
    BY <2>2, <2>3, <2>4, <2>5, <2>6, <2>7
<1> QED
  BY <1>1, <1>2

\* No operation offers an image again that is behind it.
LEMMA OffersLess ==
  ASSUME TypeOK, TodoTyped, NEW b \in Builds, Moves(b), NEW i \in Image,
         \A k \in 1..Len(todo[b]) : ~Offers(todo[b][k], i)
  PROVE  \A k \in 1..Len(todo'[b]) : ~Offers(todo'[b][k], i)
<1> DEFINE s == todo[b]
           t == todo'[b]
<1>1. Len(s) \in Nat /\ Len(s) > 0 /\ Op0(b) = s[1]
  BY Placed, HeadOp
<1>2. ASSUME NEW n, Rest(s, n, t), NEW k \in 1..Len(t)
      PROVE  ~Offers(t[k], i)
  <2>1. k + n \in 1..Len(s) /\ t[k] = s[k + n]
    BY <1>1, <1>2 DEF Rest
  <2> QED
    BY <2>1
<1>3. ASSUME NEW ops, Replaces(ops, Op0(b), StepOps(Current(b), job[b].cfg)), Joined(ops, Tail(s), t), NEW k \in 1..Len(t)
      PROVE  ~Offers(t[k], i)
  <2> DEFINE r == Tail(s)
  <2>1. /\ Len(ops) \in Nat /\ Len(r) \in Nat /\ Rest(s, 1, r)
        /\ \A q \in 1..Len(ops) : Offers(ops[q], i) => Offers(s[1], i)
    BY <1>1, <1>3, Replaced
  <2>2. Joined(ops, r, t) /\ ~Offers(s[1], i)
    BY <1>1, <1>3
  <2> HIDE DEF r, s
  <2>3. CASE k <= Len(ops)
    <3>1. k \in 1..Len(ops) /\ t[k] = ops[k]
      BY <1>3, <2>1, <2>2, <2>3 DEF Joined
    <3> QED
      BY <2>1, <2>2, <3>1
  <2>4. CASE ~(k <= Len(ops))
    <3> DEFINE q == k - Len(ops)
    <3>1. q \in 1..Len(r) /\ q + Len(ops) = k
      BY <1>3, <2>1, <2>2, <2>4 DEF Joined
    <3> HIDE DEF q
    <3>2. t[q + Len(ops)] = r[q]
      BY <2>2, <3>1 DEF Joined
    <3>3. r[q] = s[q + 1] /\ q + 1 \in 1..Len(s)
      BY <1>1, <2>1, <3>1 DEF Rest, s
    <3> QED
      BY <3>1, <3>2, <3>3 DEF s
  <2> QED
    BY <1>3, <2>1, <2>3, <2>4
<1> QED
  BY <1>2, <1>3, Shorter

LEMMA ToolsMove ==
  ASSUME NEW b \in Builds, Moves(b)
  PROVE  ToolsAreTools'
BY DEF Moves, Common, Supplied, ToolsAreTools

LEMMA KeptMove ==
  ASSUME TypeOK, TodoTyped, OfferedOnce, ToolsAreTools, ClaimsKept, NEW b \in Builds, Moves(b)
  PROVE  ClaimsKept'
<1> DEFINE Held(x, d) ==
             /\ x.img \in {AppTag(job[d].cfg), AppURI(job[d].cfg)}
             /\ \A k \in 1..Len(todo[d]) : ~Offers(todo[d][k], x.img)
             /\ \A k \in (pos[d] + 1)..Len(job[d].steps) : job[d].steps[k] \notin ProdStep
           Holds(x, d) ==
             /\ x.img \in {AppTag(job[d].cfg), AppURI(job[d].cfg)}
             /\ \A k \in 1..Len(todo'[d]) : ~Offers(todo'[d][k], x.img)
             /\ \A k \in (pos[d] + 1)..Len(job[d].steps) : job[d].steps[k] \notin ProdStep
<1>1. /\ Builds' = Builds /\ job' = job /\ pos' = pos /\ runtime' = runtime
      /\ \A c \in Builds : c # b => todo'[c] = todo[c]
  BY Placed
<1>2. ASSUME runtime # "host", NEW x \in claimed'
      PROVE  /\ x.img \in Image /\ x.plat \in Platform
             /\ (x.img \in ToolImage /\ x.body = "tool") \/ \E d \in Builds : Holds(x, d)
  <2>1. CASE x \in claimed
    <3>1. /\ x.img \in Image /\ x.plat \in Platform
          /\ (x.img \in ToolImage /\ x.body = "tool") \/ \E d \in Builds : Held(x, d)
      BY <1>2, <2>1 DEF ClaimsKept
    <3>2. ASSUME NEW d \in Builds, Held(x, d)
          PROVE  Holds(x, d)
      <4>1. CASE d = b
        <5>1. \A k \in 1..Len(todo[b]) : ~Offers(todo[b][k], x.img)
          BY <3>2, <4>1
        <5>2. \A k \in 1..Len(todo'[b]) : ~Offers(todo'[b][k], x.img)
          BY <3>1, <5>1, OffersLess
        <5> QED
          BY <3>2, <4>1, <5>2
      <4>2. CASE d # b
        BY <1>1, <3>2, <4>2
      <4> QED
        BY <4>1, <4>2
    <3> QED
      BY <3>1, <3>2
  <2>2. CASE x \notin claimed
    <3> DEFINE o == Op0(b)
               s == todo[b]
               t == todo'[b]
    <3>1. /\ On(b) /\ o.do = "push" /\ x = Given(b) /\ x.img = o.img
          /\ o.img \in ToolImage \cup {AppTag(job[b].cfg), AppURI(job[b].cfg)}
          /\ o.img \in Image /\ Offers(o, o.img)
          /\ o.img \notin ToolImage => Current(b) \in ProdStep
          /\ x.plat \in Platform /\ x.body \in Body
      BY <1>2, <2>2, ClaimsMove
    <3>2. CASE o.img \in ToolImage
      <4>1. x.body = local[o.img].body
        BY <3>1 DEF Given
      <4>2. x.body \in {None, "tool"}
        BY <3>2, <4>1 DEF ToolsAreTools
      <4> QED
        BY <3>1, <3>2, <4>2, StoredFacts
    <3>3. CASE o.img \notin ToolImage
      <4>1. Len(s) \in Nat /\ Len(s) > 0 /\ o = s[1] /\ pos[b] \in 1..Len(job[b].steps)
        BY Placed, HeadOp
      <4>2. OffersOnce(s) /\ Rest(s, 1, t)
        BY <3>1 DEF OfferedOnce, On
      <4>3. ASSUME NEW k \in 1..Len(t)
            PROVE  ~Offers(t[k], o.img)
        <5>1. k + 1 \in 1..Len(s) /\ 1 \in 1..Len(s) /\ 1 < k + 1 /\ t[k] = s[k + 1]
          BY <4>1, <4>2, <4>3 DEF Rest
        <5> QED
          BY <3>1, <3>3, <4>1, <4>2, <5>1 DEF OffersOnce
      <4>4. ASSUME NEW k \in (pos[b] + 1)..Len(job[b].steps)
            PROVE  job[b].steps[k] \notin ProdStep
        <5>1. job \in Jobs /\ b \in DOMAIN job /\ job[b].steps \in Seq(StepName)
          BY StepCfg DEF TypeOK, Builds
        <5>2. Len(job[b].steps) \in Nat /\ DOMAIN job[b].steps = 1..Len(job[b].steps)
          BY <5>1, LenProperties
        <5>3. k \in DOMAIN job[b].steps /\ pos[b] \in DOMAIN job[b].steps /\ k # pos[b]
          BY <4>1, <4>4, <5>2
        <5>4. job[b].steps[pos[b]] \in ProdStep
          BY <3>1, <3>3 DEF Current
        <5> QED
          BY <5>1, <5>3, <5>4, ContainerAssumption DEF ContainerAssumption
      <4>5. Holds(x, b)
        BY <3>1, <3>3, <4>3, <4>4
      <4> QED
        BY <3>1, <4>5
    <3> QED
      BY <3>2, <3>3
  <2> QED
    BY <2>1, <2>2
<1> QED
  BY <1>1, <1>2 DEF ClaimsKept

LEMMA PushedMove ==
  ASSUME TypeOK, TodoTyped, ToolsAreTools, ClaimsKept, PushedIsRemote, NEW b \in Builds, Moves(b)
  PROVE  PushedIsRemote'
<1> DEFINE o == Op0(b)
           c == job[b].cfg
<1>1. runtime' = runtime /\ todo[b] # <<>>
  BY Placed
<1>2. ASSUME runtime # "host", NEW x \in claimed'
      PROVE  remote'[x.img][x.plat] = x.body \/ (runtime = "docker" /\ x.cut)
  <2>1. CASE x \notin claimed
    BY <1>2, <2>1, ClaimsMove
  <2>2. CASE x \in claimed
    <3>1. (remote[x.img][x.plat] = x.body \/ (runtime = "docker" /\ x.cut)) /\ x.img \in Image /\ x.plat \in Platform
      BY <1>2, <2>2 DEF PushedIsRemote, ClaimsKept
    <3>2. Supplied(c, o, local', remote')
      BY DEF Moves, Common
    <3>3. CASE x.img \in ToolImage /\ x.body = "tool"
      <4>1. remote'[x.img][x.plat] \in {remote[x.img][x.plat], "tool"}
        BY <3>1, <3>2, <3>3 DEF Supplied
      <4> QED
        BY <3>1, <3>3, <4>1
    <3>4. CASE \E d \in Builds : /\ x.img \in {AppTag(job[d].cfg), AppURI(job[d].cfg)}
                                 /\ \A k \in 1..Len(todo[d]) : ~Offers(todo[d][k], x.img)
      <4>1. PICK d \in Builds : /\ x.img \in {AppTag(job[d].cfg), AppURI(job[d].cfg)}
                                /\ \A k \in 1..Len(todo[d]) : ~Offers(todo[d][k], x.img)
        BY <3>4
      <4>2. ~Offers(o, x.img)
        <5>1. CASE d = b
          <6>1. Len(todo[b]) \in Nat /\ Len(todo[b]) > 0 /\ o = todo[b][1]
            BY <1>1, HeadOp
          <6> QED
            BY <4>1, <5>1, <6>1
        <5>2. CASE d # b
          <6>1. x.img \notin Mine(c)
            BY <4>1, <5>2, OwnImages
          <6> QED
            BY <1>1, <3>1, <6>1, OffersOwn DEF Mine
        <5> QED
          BY <5>1, <5>2
      <4>3. remote'[x.img] = remote[x.img]
        BY <3>1, <3>2, <4>2 DEF Supplied, Offers
      <4> QED
        BY <3>1, <4>3
    <3> QED
      BY <1>2, <2>2, <3>3, <3>4 DEF ClaimsKept
  <2> QED
    BY <2>1, <2>2
<1> QED
  BY <1>1, <1>2 DEF PushedIsRemote

LEMMA StaleMove ==
  ASSUME TypeOK, TodoTyped, Sourced, StaleIsReported, NEW b \in Builds, Moves(b)
  PROVE  StaleIsReported'
<1>1. runtime' = runtime /\ Builds' = Builds /\ job' = job /\ todo[b] # <<>>
  BY Placed
<1>2. \A d \in Builds : err[d] => err'[d]
  BY DEF Moves
<1>3. ASSUME runtime # "host", NEW d \in Builds, NEW x \in claimed', x.img = AppURI(job[d].cfg), Compiles(d), ~job[d].cfg.custom
      PROVE  x.body \in OfThisRun(d) \/ err'[d]
  <2>1. CASE x \in claimed
    BY <1>2, <1>3, <2>1 DEF StaleIsReported
  <2>2. CASE x \notin claimed
    <3> DEFINE o == Op0(b)
    <3>1. /\ On(b) /\ o.do = "push" /\ x = Given(b) /\ x.img = o.img
          /\ o.img \in ToolImage \cup {AppTag(job[b].cfg), AppURI(job[b].cfg)}
          /\ o.img \notin ToolImage => Current(b) \in ProdStep
      BY <2>2, ClaimsMove
    <3>2. d = b
      <4>1. AppURI(job[d].cfg) \notin ToolImage /\ AppURI(job[d].cfg) \in {AppTag(job[b].cfg), AppURI(job[b].cfg)}
        BY <1>3, <3>1, StepCfg
      <4> QED
        BY <4>1, OwnImages DEF Mine
    <3>3. Current(b) \in ProdStep
      BY <1>3, <3>1, StepCfg
    <3>4. pos[b] > 0 /\ Len(todo[b]) \in Nat /\ Len(todo[b]) > 0 /\ o = todo[b][1]
      BY <1>1, HeadOp
    <3>5. Packaging(b)
      BY <1>3, <3>2, <3>3, <3>4 DEF Packaging
    <3>6. o.img = AppURI(job[b].cfg) /\ (TaggedBefore(todo[b], 1, o.img) \/ local[o.img].body \in OfThisRun(b) \/ err[b])
      BY <3>1, <3>4, <3>5 DEF Sourced
    <3>7. ~TaggedBefore(todo[b], 1, o.img)
      BY DEF TaggedBefore
    <3>8. x.body = local[o.img].body
      BY <3>1 DEF Given
    <3> QED
      BY <1>2, <3>2, <3>6, <3>7, <3>8
  <2> QED
    BY <2>1, <2>2
<1>4. \A d \in Builds : (Compiles(d)' <=> Compiles(d)) /\ OfThisRun(d)' = OfThisRun(d)
  BY <1>1, Placed DEF Compiles
<1> QED
  BY <1>1, <1>3, <1>4 DEF StaleIsReported

\* While a file is to be removed, it is, or the operation removes it, or the process ends.
LEMMA CleansMove ==
  ASSUME TypeOK, TodoTyped, NEW b \in Builds, Moves(b), exited' = "no", Cleans(todo[b], 0)
  PROVE  Cleans(todo'[b], 0) \/ (On(b) /\ Op0(b).do = "unconfig")
<1> DEFINE s == todo[b]
           t == todo'[b]
           o == Op0(b)
<1>1. Len(s) \in Nat /\ Len(s) > 0 /\ o = s[1]
  BY Placed, HeadOp
<1>2. PICK l \in (0 + 1)..Len(s) : CleansAt(s, 0, l)
  BY DEF Cleans
<1>3. l \in 1..Len(s) /\ s[l].do = "unconfig"
  BY <1>2 DEF CleansAt
<1>4. CASE l = 1
  <2>1. o.do = "unconfig"
    BY <1>1, <1>3, <1>4
  <2>2. On(b)
    BY <1>1, <2>1 DEF Moves, Onward, Logged, Skipped, Stopped, Expanded, Replaces, Gone
  <2> QED
    BY <2>1, <2>2
<1>5. CASE l # 1
  <2>1. l > 1 /\ 1 \in (0 + 1)..(l - 1)
    BY <1>3, <1>5
  <2>2. /\ s[1].do \notin {"config", "ensure", "pull"}
        /\ s[1].do = "mark" \/ s[1].fail = "exit" \/ Deferred(s, 1, l)
    BY <1>2, <2>1 DEF CleansAt
  <2>3. ASSUME NEW n \in Nat, n < l
        PROVE  Cleans(s, n)
    <3>1. l \in (n + 1)..Len(s) /\ \A m \in (n + 1)..(l - 1) : m \in (0 + 1)..(l - 1)
      BY <1>3, <2>3
    <3>2. CleansAt(s, n, l)
      BY <1>2, <3>1 DEF CleansAt
    <3> QED
      BY <3>1, <3>2 DEF Cleans
  <2>4. CASE On(b)
    <3>1. Rest(s, 1, t) /\ Cleans(s, 0 + 1)
      BY <2>1, <2>3, <2>4 DEF On
    <3> HIDE DEF s, t
    <3>2. Cleans(t, 0)
      BY <1>1, <3>1, CleansRest
    <3> QED
      BY <3>2 DEF t
  <2>5. CASE Logged(b) \/ Stopped(b)
    BY <1>1, <2>2, <2>5 DEF Logged, Stopped, Deferred
  <2>6. CASE Skipped(b)
    <3>1. Deferred(s, 1, l)
      BY <1>1, <2>2, <2>6 DEF Skipped
    <3>2. PICK q \in (1 + 1)..(l - 1) : s[q].do = "mark"
      BY <3>1 DEF Deferred
    <3>3. q \in 1..Len(s)
      BY <1>3, <3>2
    <3>4. PICK n \in Nat : Skips(b, n)
      BY <2>6, <3>2, <3>3 DEF Skipped
    <3>5. n <= q /\ Rest(s, n, t)
      BY <3>2, <3>3, <3>4 DEF Skips
    <3>6. n < l /\ 0 + n = n
      BY <1>3, <3>2, <3>5
    <3>7. Cleans(s, n)
      BY <2>3, <3>6
    <3> HIDE DEF s, t
    <3>8. Cleans(t, 0)
      BY <1>1, <3>5, <3>6, <3>7, CleansRest
    <3> QED
      BY <3>8 DEF t
  <2>7. CASE Expanded(b)
    BY <1>1, <2>2, <2>7 DEF Expanded, Replaces
  <2>8. CASE Gone(b)
    BY <2>8 DEF Gone
  <2> QED
    BY <2>4, <2>5, <2>6, <2>7, <2>8 DEF Moves, Onward
<1> QED
  BY <1>4, <1>5

LEMMA BindsMove ==
  ASSUME TypeOK, TodoTyped, MarksArePlain, ConfigsWillClean, BindsOwn, NEW b \in Builds, Moves(b)
  PROVE  BindsOwn'
<1> DEFINE s == todo[b]
           t == todo'[b]
           o == Op0(b)
           L(d) == Language(job[d].cfg)
<1>1. /\ Builds' = Builds /\ job' = job /\ exited = "no" /\ s # <<>>
      /\ \A c \in Builds : c # b => todo'[c] = todo[c]
  BY Placed
<1>2. Len(s) \in Nat /\ Len(s) > 0 /\ o = s[1] /\ o \in AnyOps(job[b].cfg)
  BY <1>1, HeadOp
<1>3. o.do = "config" => o.language = L(b) /\ o.fail = "err"
  <2>1. o.do = "config" => o \in ConfigOps(job[b].cfg)
    BY <1>2, KindOf
  <2> QED
    BY <2>1 DEF ConfigOps
<1>4. \/ On(b) /\ o.do = "config" /\ config' = L(b)
      \/ On(b) /\ o.do = "unconfig" /\ config' = None
      \/ config' = config /\ ~(On(b) /\ o.do \in {"config", "unconfig"})
  <2>1. On(b) => config' = IF o.do = "config" THEN o.language ELSE IF o.do = "unconfig" THEN None ELSE config
    BY DEF On, Succeeds
  <2>2. ~On(b) => config' = config
    BY DEF Moves, Onward, Logged, Skipped, Stopped, Expanded, Gone, Otherwise
  <2> QED
    BY <1>3, <2>1, <2>2
<1>5. ASSUME exited' = "no", NEW d \in Builds, Binds(todo'[d])
      PROVE  config' \in {None, L(d)} \/ \E c \in Builds : c # d /\ Cleans(todo'[c], 0) /\ config' = L(c)
  <2>1. CASE On(b) /\ o.do = "config" /\ config' = L(b)
    <3>1. Cleans(s, 1)
      <4>1. ConfigsClean(s) /\ 1 \in 1..Len(s)
        BY <1>2 DEF ConfigsWillClean
      <4> QED
        BY <1>2, <2>1, <4>1 DEF ConfigsClean
    <3>2. Rest(s, 1, t) /\ Cleans(s, 0 + 1)
      BY <2>1, <3>1 DEF On
    <3> HIDE DEF s, t
    <3>3. Cleans(t, 0)
      BY <1>2, <3>2, CleansRest
    <3> QED
      BY <2>1, <3>3 DEF t
  <2>2. CASE On(b) /\ o.do = "unconfig" /\ config' = None
    BY <2>2
  <2>3. CASE config' = config /\ ~(On(b) /\ o.do \in {"config", "unconfig"})
    \* What binds now did so before.
    <3>1. Binds(todo[d])
      <4>1. CASE d # b
        BY <1>1, <1>5, <4>1
      <4>2. CASE d = b
        <5> DEFINE r == Tail(s)
        <5>1. Binds(t)
          BY <1>5, <4>2
        <5>2. CASE (On(b) \/ Logged(b))
          <6>1. Rest(s, 1, t) /\ s[1].do # "config"
            BY <1>2, <1>3, <2>3, <5>2 DEF On, Logged
          <6> HIDE DEF s, t
          <6>2. Binds(s)
            BY <1>2, <5>1, <6>1, BindsRest
          <6> QED
            BY <4>2, <6>2 DEF s
        <5>3. CASE Skipped(b)
          <6>1. CASE t = s
            BY <4>2, <5>1, <6>1
          <6>2. CASE \E n \in Nat : Skips(b, n)
            <7>1. PICK n \in Nat : Skips(b, n)
              BY <6>2
            <7>2. Rest(s, n, t) /\ n > 0 /\ s[n].do = "mark" /\ MarkedPlain(s)
              BY <7>1 DEF Skips, MarksArePlain
            <7> HIDE DEF s, t
            <7>3. ~Binds(t)
              BY <1>2, <7>2, BindsMarked
            <7> QED
              BY <5>1, <7>3
          <6> QED
            BY <5>3, <6>1, <6>2 DEF Skipped
        <5>4. CASE Stopped(b)
          BY <5>1, <5>4 DEF Stopped, Binds
        <5>5. CASE Expanded(b)
          <6>1. PICK ops : Replaces(ops, o, StepOps(Current(b), job[b].cfg)) /\ Joined(ops, r, t)
            BY <5>5 DEF Expanded
          <6>2. /\ Len(ops) \in Nat /\ Len(r) \in Nat /\ Rest(s, 1, r) /\ s[1].do # "config"
                /\ \A q \in 1..Len(ops) : ops[q].do \notin {"bind", "config"}
            BY <1>2, <6>1, Replaced
          <6> HIDE DEF s, t, r
          <6>3. Binds(r)
            BY <5>1, <6>1, <6>2, BindsJoined
          <6>4. Binds(s)
            BY <1>2, <6>2, <6>3, BindsRest
          <6> QED
            BY <4>2, <6>4 DEF s
        <5>6. CASE Gone(b)
          BY <1>5, <5>6 DEF Gone
        <5> QED
          BY <5>2, <5>3, <5>4, <5>5, <5>6 DEF Moves, Onward
      <4> QED
        BY <4>1, <4>2
    <3>2. config \in {None, L(d)} \/ \E c \in Builds : c # d /\ Cleans(todo[c], 0) /\ config = L(c)
      BY <1>1, <3>1 DEF BindsOwn
    <3>3. ASSUME NEW c \in Builds, Cleans(todo[c], 0)
          PROVE  Cleans(todo'[c], 0)
      <4>1. CASE c = b
        BY <1>5, <2>3, <3>3, <4>1, CleansMove
      <4>2. CASE c # b
        BY <1>1, <3>3, <4>2
      <4> QED
        BY <4>1, <4>2
    <3> QED
      BY <2>3, <3>2, <3>3
  <2> QED
    BY <1>4, <2>1, <2>2, <2>3
<1> QED
  BY <1>1, <1>5 DEF BindsOwn

\* An operation of a build.
LEMMA OperationKeeps ==
  ASSUME IInv, NEW b \in Builds, Act(b)
  PROVE  IInv'
<1>1. /\ TypeOK /\ TodoTyped /\ Created /\ StartsWillEnd /\ RunningWillEnd /\ AdriftReported /\ Compiled /\ Sourced
      /\ OfferedOnce /\ ToolsAreTools /\ ClaimsKept /\ MarksArePlain /\ ConfigsWillClean /\ BindsOwn
      /\ PushedIsRemote /\ StaleIsReported
  BY DEF IInv
<1>2. Moves(b)
  BY <1>1, EveryMove
<1>3. TypeOK' /\ TodoTyped'
  BY <1>1, <1>2, TypesMove
<1>4. StartsWillEnd' /\ OfferedOnce' /\ MarksArePlain' /\ ConfigsWillClean'
  BY <1>1, <1>2, StartsMove
<1>5. RunningWillEnd' /\ AdriftReported' /\ Created' /\ Compiled' /\ Sourced'
  BY <1>1, <1>2, RunningMove, AdriftMove, CreatedMove, CompiledMove, SourcedMove
<1>6. ToolsAreTools' /\ ClaimsKept' /\ PushedIsRemote' /\ StaleIsReported' /\ BindsOwn'
  BY <1>1, <1>2, ToolsMove, KeptMove, PushedMove, StaleMove, BindsMove
<1> QED
  BY <1>3, <1>4, <1>5, <1>6 DEF IInv

-----------------------------------------------------------------------------
(* The other steps of a run.                                               *)

\* Nothing is ahead: what the invariant says of a program holds.
LEMMA NothingAhead ==
  /\ Len(<<>>) = 0 /\ StartsEnd(<<>>) /\ OffersOnce(<<>>) /\ MarkedPlain(<<>>) /\ ConfigsClean(<<>>)
  /\ ~Binds(<<>>) /\ ~Makes(<<>>) /\ ~Cleans(<<>>, 0) /\ ~Ends(<<>>, 0)
<1>1. Len(<<>>) = 0 /\ 1..Len(<<>>) = {} /\ (0 + 1)..Len(<<>>) = {}
  OBVIOUS
<1> QED
  BY <1>1 DEF StartsEnd, OffersOnce, MarkedPlain, ConfigsClean, Binds, Makes, Cleans, Ends

LEMMA NextStepKeeps ==
  ASSUME IInv, NEW b \in Builds, NextStep(b)
  PROVE  IInv'
<1> DEFINE c == job[b].cfg
           step == job[b].steps[pos[b] + 1]
           t == todo'[b]
<1>1. /\ TypeOK /\ TodoTyped /\ Created /\ StartsWillEnd /\ RunningWillEnd /\ AdriftReported /\ Compiled /\ Sourced
      /\ OfferedOnce /\ ToolsAreTools /\ ClaimsKept /\ MarksArePlain /\ ConfigsWillClean /\ BindsOwn
      /\ PushedIsRemote /\ StaleIsReported
  BY DEF IInv
<1>2. /\ exited = "no" /\ todo[b] = <<>> /\ pos[b] < Len(job[b].steps)
      /\ pos' = [pos EXCEPT ![b] = @ + 1]
      /\ todo' = [todo EXCEPT ![b] = Program(step, c, runtime)]
      /\ ctr' = [ctr EXCEPT ![b] = NoContainer]
      /\ UNCHANGED <<runtime, job, local, remote, workdir, config, disk, err, exited, run, faults, skipped, claimed>>
  BY DEF NextStep, images, history
<1>3. /\ job[b].steps \in Seq(StepName) /\ Len(job[b].steps) \in Nat /\ pos[b] \in 0..Len(job[b].steps)
      /\ DOMAIN pos = Builds /\ DOMAIN todo = Builds /\ ctr \in [Builds -> ContainerState]
  BY <1>1, StepCfg, LenProperties DEF TypeOK
<1>4. pos[b] + 1 \in 1..Len(job[b].steps) /\ pos[b] \in Nat
  BY <1>2, <1>3
<1>5. step \in StepName
  BY <1>3, <1>4, ElementOfSeq
<1>6. /\ Builds' = Builds /\ job' = job /\ runtime' = runtime
      /\ pos'[b] = pos[b] + 1 /\ \A d \in Builds : d # b => pos'[d] = pos[d]
      /\ t = Program(step, c, runtime) /\ \A d \in Builds : d # b => todo'[d] = todo[d]
      /\ ctr'[b] = NoContainer /\ \A d \in Builds : d # b => ctr'[d] = ctr[d]
      /\ DOMAIN pos' = Builds /\ DOMAIN todo' = Builds
  BY <1>2, <1>3 DEF Builds
<1> DEFINE F(d) == OfThisRun(d)
<1>0. \A d : OfThisRun(d)' = F(d)
  BY <1>6 DEF OfThisRun, SharesFolder
<1>7. /\ Current(b)' = step /\ \A d \in Builds : d # b => Current(d)' = Current(d)
  BY <1>6 DEF Current
<1>8. /\ Ready(t, StepOps(step, c))
      /\ step \in CompileStep => Makes(t)
      /\ step \in ProdStep /\ ~c.custom => Packs(t, c)
  BY <1>5, <1>6, ProgramReady
<1> HIDE DEF step, t
<1>9. /\ t \in Seq(StepOps(step, c)) /\ StartsEnd(t) /\ CommitsCreated(t)
      /\ MarkedPlain(t) /\ ConfigsClean(t) /\ ~Binds(t) /\ OffersOnce(t)
  BY <1>8 DEF Ready
<1>10. TypeOK'
  <2>1. NoContainer \in ContainerState
    BY StoredFacts DEF NoContainer, ContainerState
  <2>2. ctr' \in [Builds -> ContainerState]
    BY <1>2, <1>3, <2>1
  <2>3. ASSUME NEW d \in Builds
        PROVE  /\ pos'[d] \in 0..Len(job[d].steps)
               /\ \A k \in DOMAIN todo'[d] : todo'[d][k].fail \in {"exit", "err", "log", "next", "defer"}
    <3>1. CASE d = b
      <4>1. ASSUME NEW k \in DOMAIN t PROVE t[k].fail \in {"exit", "err", "log", "next", "defer"}
        <5>1. t[k] \in StepOps(step, c)
          BY <1>9, <4>1, ElementOfSeq, LenProperties
        <5>2. t[k] \in AnyOps(c)
          BY <5>1 DEF StepOps, ReleaseOps, AnyOps
        <5> QED
          BY <5>2, KindOf DEF FailKind
      <4> QED
        BY <1>3, <1>4, <1>6, <3>1, <4>1 DEF t
    <3>2. CASE d # b
      BY <1>1, <1>6, <3>2 DEF TypeOK
    <3> QED
      BY <3>1, <3>2
  <2> QED
    BY <1>1, <1>2, <1>6, <2>2, <2>3 DEF TypeOK
<1>11. TodoTyped'
  <2> SUFFICES ASSUME NEW d \in Builds
               PROVE  IF pos'[d] = 0 THEN todo'[d] = <<>> ELSE todo'[d] \in Seq(StepOps(Current(d)', job'[d].cfg))
    BY <1>6 DEF TodoTyped
  <2>1. CASE d = b
    BY <1>4, <1>6, <1>7, <1>9, <2>1 DEF t
  <2>2. CASE d # b
    BY <1>1, <1>6, <1>7, <2>2 DEF TodoTyped
  <2> QED
    BY <2>1, <2>2
<1>12. StartsWillEnd' /\ OfferedOnce' /\ MarksArePlain' /\ ConfigsWillClean'
  <2>1. \A d \in Builds : StartsEnd(todo'[d]) /\ OffersOnce(todo'[d]) /\ MarkedPlain(todo'[d]) /\ ConfigsClean(todo'[d])
    BY <1>1, <1>6, <1>9 DEF t, StartsWillEnd, OfferedOnce, MarksArePlain, ConfigsWillClean
  <2> QED
    BY <1>6, <2>1 DEF StartsWillEnd, OfferedOnce, MarksArePlain, ConfigsWillClean
<1>13. RunningWillEnd' /\ AdriftReported' /\ Created'
  <2>1. ctr'[b].state \notin {"running", "adrift"}
    BY <1>6 DEF NoContainer
  <2>2. RunningWillEnd'
    BY <1>1, <1>2, <1>6, <2>1 DEF RunningWillEnd
  <2>3. \A k \in 1..Len(t) : t[k].do = "commit" => \E j \in 1..(k - 1) : t[j].do = "create"
    BY <1>9 DEF CommitsCreated
  <2>4. ASSUME runtime # "host", NEW d \in Builds, NEW k \in 1..Len(todo'[d]), todo'[d][k].do = "commit"
        PROVE  ctr'[d].body \in Body \/ \E j \in 1..(k - 1) : todo'[d][j].do = "create"
    BY <1>1, <1>6, <2>3, <2>4 DEF Created, t
  <2>5. \A d \in Builds : d # b => (Commenting(d)' <=> Commenting(d))
    BY <1>6 DEF Commenting
  <2>6. AdriftReported'
    BY <1>1, <1>2, <1>6, <2>1, <2>5 DEF AdriftReported
  <2>7. Created'
    BY <1>6, <2>4 DEF Created
  <2> QED
    BY <2>2, <2>6, <2>7
<1>14. Compiled'
  <2>1. ASSUME NEW d \in Builds, NEW k \in 1..pos'[d], job[d].steps[k] \in CompileStep
        PROVE  disk[d] \in F(d) \/ err[d] \/ (k = pos'[d] /\ Makes(todo'[d]))
    <3>1. CASE d # b
      BY <1>1, <1>2, <1>6, <2>1, <3>1 DEF Compiled
    <3>2. CASE d = b /\ k = pos[b] + 1
      BY <1>6, <1>8, <2>1, <3>2 DEF step, t
    <3>3. CASE d = b /\ k # pos[b] + 1
      <4>1. k \in 1..pos[b]
        BY <1>4, <1>6, <2>1, <3>3
      <4>2. disk[b] \in F(b) \/ err[b] \/ Makes(todo[b])
        BY <1>1, <1>2, <2>1, <3>3, <4>1 DEF Compiled
      <4> QED
        BY <1>2, <3>3, <4>2, NothingAhead
    <3> QED
      BY <3>1, <3>2, <3>3
  <2> QED
    BY <1>0, <1>2, <1>6, <2>1 DEF Compiled
<1>15. Sourced'
  \* When a production step begins the application has been compiled.
  <2>1. ASSUME step \in ProdStep, Compiles(b)
        PROVE  disk[b] \in F(b) \/ err[b]
    <3>1. job \in Jobs /\ b \in DOMAIN job /\ DOMAIN job[b].steps = 1..Len(job[b].steps)
      BY <1>1, <1>3, LenProperties DEF TypeOK, Builds
    <3>2. PICK l \in DOMAIN job[b].steps : job[b].steps[l] \in CompileStep
      BY <2>1 DEF Compiles
    <3>3. l < pos[b] + 1
      BY <1>4, <2>1, <3>1, <3>2, ContainerAssumption DEF ContainerAssumption, step
    <3>4. l \in 1..pos[b]
      BY <1>4, <3>1, <3>2, <3>3
    <3>5. disk[b] \in F(b) \/ err[b] \/ Makes(todo[b])
      BY <1>1, <1>2, <3>2, <3>4 DEF Compiled
    <3> QED
      BY <1>2, <3>5, NothingAhead
  <2> DEFINE Later(d, s, k) ==
               /\ s[k].fail = "exit" /\ s[k].do \notin {"pull", "ensure", "tag", "build", "buildMulti"}
               /\ s[k].do \in Copies => disk[d] \in F(d) \/ err[d]
               /\ s[k].do = "commit" =>
                    From(s, k, Copies) \/ (Untouched(s, k, Copies) /\ (ctr'[d].body \in F(d) \/ err[d]))
               /\ s[k].do = "tagCommit" =>
                    From(s, k, {"commit"}) \/ (Untouched(s, k, {"commit"}) /\ (ctr'[d].made.body \in F(d) \/ err[d]))
               /\ s[k].do = "push" => s[k].img = AppURI(job[d].cfg) /\
                    \/ TaggedBefore(s, k, s[k].img)
                    \/ k = 1 /\ (local[s[k].img].body \in F(d) \/ err[d])
  <2>2. \A d \in Builds : Packaging(d)' <=>
          (runtime # "host" /\ pos'[d] > 0 /\ Current(d)' \in ProdStep /\ ~job[d].cfg.custom /\ Compiles(d))
    BY <1>6 DEF Packaging, Compiles
  <2>3. ASSUME NEW d \in Builds, d # b, Packaging(d)', NEW k \in 1..Len(todo'[d])
        PROVE  Later(d, todo'[d], k)
    <3>1. Packaging(d)
      BY <1>6, <1>7, <2>2, <2>3 DEF Packaging
    <3>2. todo'[d] = todo[d] /\ ctr'[d] = ctr[d]
      BY <1>6, <2>3
    <3> QED
      BY <1>1, <2>3, <3>1, <3>2 DEF Sourced
  <2>4. ASSUME Packaging(b)', NEW k \in 1..Len(t)
        PROVE  Later(b, t, k)
    <3>1. step \in ProdStep /\ Compiles(b) /\ ~c.custom
      BY <1>7, <2>2, <2>4
    <3>2. Packs(t, c)
      BY <1>8, <3>1
    <3> QED
      BY <2>1, <2>4, <3>1, <3>2 DEF Packs
  <2>5. \A d \in Builds : Packaging(d)' => \A k \in 1..Len(todo'[d]) : Later(d, todo'[d], k)
    BY <2>3, <2>4 DEF t
  <2>6. Builds' = Builds /\ job' = job /\ local' = local /\ disk' = disk /\ err' = err
    BY ONLY <1>2, <1>6
  <2> QED
    BY ONLY <1>0, <2>5, <2>6 DEF Sourced
<1>16. ToolsAreTools' /\ PushedIsRemote'
  BY <1>1, <1>2 DEF ToolsAreTools, PushedIsRemote
<1>17. StaleIsReported'
  BY <1>0, <1>1, <1>2, <1>6 DEF StaleIsReported, Compiles
<1>18. ClaimsKept'
  <2>1. ASSUME NEW x \in claimed, NEW d \in Builds, x.img \in {AppTag(job[d].cfg), AppURI(job[d].cfg)},
               \A k \in 1..Len(todo[d]) : ~Offers(todo[d][k], x.img),
               \A k \in (pos[d] + 1)..Len(job[d].steps) : job[d].steps[k] \notin ProdStep
        PROVE  /\ \A k \in 1..Len(todo'[d]) : ~Offers(todo'[d][k], x.img)
               /\ \A k \in (pos'[d] + 1)..Len(job[d].steps) : job[d].steps[k] \notin ProdStep
    <3>1. CASE d # b
      BY <1>6, <2>1, <3>1
    <3>2. CASE d = b
      <4>1. pos[b] + 1 \in (pos[b] + 1)..Len(job[b].steps)
        BY <1>4
      <4>2. step \notin ProdStep
        BY <2>1, <3>2, <4>1 DEF step
      <4>3. StepOps(step, c) \subseteq PlainOps(c) \cup CommentOps(c) \cup ReleaseOps(c)
        BY <4>2 DEF StepOps, GithubOps
      <4>4. x.img \in Image \ ToolImage
        BY <1>1, <2>1, <3>2, StepCfg
      <4>5. ASSUME NEW k \in 1..Len(t) PROVE ~Offers(t[k], x.img)
        <5>1. t[k] \in PlainOps(c) \cup CommentOps(c) \cup ReleaseOps(c)
          BY <1>9, <4>3, <4>5, ElementOfSeq, LenProperties
        <5> QED
          BY <4>4, <5>1, WhoDoes
      <4>6. \A k \in (pos'[b] + 1)..Len(job[b].steps) : k \in (pos[b] + 1)..Len(job[b].steps)
        BY <1>3, <1>4, <1>6
      <4> QED
        BY <2>1, <3>2, <4>5, <4>6 DEF t
    <3> QED
      BY <3>1, <3>2
  <2>2. ASSUME runtime # "host", NEW x \in claimed
        PROVE  /\ x.img \in Image /\ x.plat \in Platform
               /\ \/ x.img \in ToolImage /\ x.body = "tool"
                  \/ \E d \in Builds :
                       /\ x.img \in {AppTag(job[d].cfg), AppURI(job[d].cfg)}
                       /\ \A k \in 1..Len(todo'[d]) : ~Offers(todo'[d][k], x.img)
                       /\ \A k \in (pos'[d] + 1)..Len(job[d].steps) : job[d].steps[k] \notin ProdStep
    BY <1>1, <2>1, <2>2 DEF ClaimsKept
  <2> QED
    BY <1>2, <1>6, <2>2 DEF ClaimsKept
<1>19. BindsOwn'
  <2>1. ASSUME NEW d \in Builds, Binds(todo'[d])
        PROVE  \/ config \in {None, Language(job[d].cfg)}
               \/ \E e \in Builds : e # d /\ Cleans(todo'[e], 0) /\ config = Language(job[e].cfg)
    <3>1. d # b /\ Binds(todo[d])
      BY <1>6, <1>9, <2>1 DEF t
    <3>2. \/ config \in {None, Language(job[d].cfg)}
          \/ \E e \in Builds : e # d /\ Cleans(todo[e], 0) /\ config = Language(job[e].cfg)
      BY <1>1, <1>2, <3>1 DEF BindsOwn
    <3>3. ASSUME NEW e \in Builds, Cleans(todo[e], 0) PROVE todo'[e] = todo[e]
      BY <1>2, <1>6, <3>3, NothingAhead
    <3> QED
      BY <3>2, <3>3
  <2> QED
    BY <1>2, <1>6, <2>1 DEF BindsOwn
<1> QED
  BY <1>10, <1>11, <1>12, <1>13, <1>14, <1>15, <1>16, <1>17, <1>18, <1>19 DEF IInv

\* The process is killed, or nothing happens.
LEMMA KillKeeps ==
  ASSUME IInv, exited' \in {exited, "killed"},
         UNCHANGED <<runtime, job, local, remote, workdir, config, ctr, disk, pos, todo, err, run, faults, skipped, claimed>>
  PROVE  IInv'
<1>1. Builds' = Builds /\ \A d \in Builds : (Current(d)' = Current(d)) /\ (Compiles(d)' <=> Compiles(d))
  BY DEF Builds, Current, Compiles
<1>0. \A d \in Builds : OfThisRun(d)' = OfThisRun(d) /\ (Commenting(d)' <=> Commenting(d))
  BY <1>1 DEF OfThisRun, SharesFolder, Commenting
<1>2. \A d \in Builds : Packaging(d)' <=> Packaging(d)
  BY <1>1 DEF Packaging
<1>3. TypeOK' /\ TodoTyped' /\ Created'
  BY <1>1 DEF IInv, TypeOK, TodoTyped, Created
<1>4. StartsWillEnd' /\ OfferedOnce' /\ MarksArePlain' /\ ConfigsWillClean' /\ ToolsAreTools'
  BY <1>1 DEF IInv, StartsWillEnd, OfferedOnce, MarksArePlain, ConfigsWillClean, ToolsAreTools
<1>5. exited' = "no" => exited = "no"
  OBVIOUS
<1>6. RunningWillEnd' /\ AdriftReported' /\ Compiled' /\ BindsOwn'
  BY <1>0, <1>1, <1>5 DEF IInv, RunningWillEnd, AdriftReported, Compiled, BindsOwn
<1>7. Sourced'
  BY <1>0, <1>1, <1>2 DEF IInv, Sourced
<1>8. ClaimsKept' /\ PushedIsRemote' /\ StaleIsReported'
  BY <1>0, <1>1 DEF IInv, ClaimsKept, PushedIsRemote, StaleIsReported
<1> QED
  BY <1>3, <1>4, <1>6, <1>7, <1>8 DEF IInv

\* A run begins: no build has begun a step, and nothing has been claimed.
Fresh == claimed = {} /\ \A b \in Builds : pos[b] = 0 /\ todo[b] = <<>> /\ ctr[b] = NoContainer

LEMMA FreshRun ==
  TypeOK /\ ToolsAreTools /\ Fresh => IInv
<1> SUFFICES ASSUME TypeOK, ToolsAreTools, Fresh PROVE IInv
  OBVIOUS
<1>1. TodoTyped
  BY DEF TodoTyped, Fresh
<1>2. StartsWillEnd /\ OfferedOnce /\ MarksArePlain /\ ConfigsWillClean
  BY NothingAhead DEF Fresh, StartsWillEnd, OfferedOnce, MarksArePlain, ConfigsWillClean
<1>3. Created /\ RunningWillEnd /\ AdriftReported
  BY NothingAhead DEF Fresh, Created, RunningWillEnd, AdriftReported, NoContainer
<1>4. Compiled /\ Sourced
  BY NothingAhead DEF Fresh, Compiled, Sourced
<1>5. ClaimsKept /\ PushedIsRemote /\ StaleIsReported
  BY DEF Fresh, ClaimsKept, PushedIsRemote, StaleIsReported
<1>6. BindsOwn
  BY NothingAhead DEF Fresh, BindsOwn
<1> QED
  BY <1>1, <1>2, <1>3, <1>4, <1>5, <1>6 DEF IInv

LEMMA InitKeeps ==
  ASSUME Init
  PROVE  IInv
<1>1. /\ runtime \in Runtimes /\ job \in Jobs /\ local \in Stores /\ remote = Registry
      /\ workdir = FALSE /\ config = None
      /\ ctr = [b \in Builds |-> NoContainer] /\ disk = [b \in Builds |-> None]
      /\ pos = [b \in Builds |-> 0] /\ todo = [b \in Builds |-> <<>>] /\ err = [b \in Builds |-> FALSE]
      /\ exited = "no" /\ run = 1 /\ faults = 0 /\ skipped = {} /\ claimed = {}
  BY DEF Init
<1>2. /\ Stores \subseteq [Image -> Stored] /\ Registry \in [Image -> [Platform -> Body \cup {None}]]
      /\ MaxFaults \in Nat /\ MaxRuns \in Nat \ {0}
      /\ \A i \in ToolImage :
           /\ \A s \in Stores : s[i].body \in {None, "tool"}
           /\ \A q \in Platform : Registry[i][q] \in {None, "tool"}
      /\ \A b \in Builds : job[b].steps \in Seq(StepName)
  BY <1>1, ContainerAssumption DEF ContainerAssumption, Builds
<1>3. ToolsAreTools
  BY <1>1, <1>2 DEF ToolsAreTools
<1>4. TypeOK
  <2>1. NoContainer \in ContainerState
    BY StoredFacts DEF NoContainer, ContainerState
  <2>2. \A b \in Builds : 0 \in 0..Len(job[b].steps)
    BY <1>2, LenProperties
  <2>3. local \in [Image -> Stored] /\ remote \in [Image -> [Platform -> Body \cup {None}]]
    BY ONLY <1>1, <1>2
  <2>4. ctr \in [Builds -> ContainerState] /\ disk \in [Builds -> {None, "fresh", "stale", "foreign"}] /\ err \in [Builds -> BOOLEAN]
    BY ONLY <1>1, <2>1
  <2>5. /\ DOMAIN pos = Builds /\ DOMAIN todo = Builds
        /\ \A b \in Builds :
             /\ pos[b] \in 0..Len(job[b].steps)
             /\ \A k \in DOMAIN todo[b] : todo[b][k].fail \in {"exit", "err", "log", "next", "defer"}
    <3>1. ASSUME NEW b \in Builds PROVE pos[b] = 0 /\ todo[b] = <<>>
      BY <1>1, <3>1
    <3>2. DOMAIN <<>> = {}
      OBVIOUS
    <3> QED
      BY <1>1, <2>2, <3>1, <3>2
  <2>6. exited \in {"no", "exit", "panic", "killed"} /\ run \in 1..MaxRuns /\ faults \in 0..MaxFaults
    BY ONLY <1>1, <1>2
  <2>7. workdir \in BOOLEAN /\ config \in {"go", "zig", None} /\ skipped \subseteq Image /\ \A x \in claimed : x.img \in Image
    BY ONLY <1>1
  <2> QED
    BY <1>1, <2>3, <2>4, <2>5, <2>6, <2>7 DEF TypeOK
<1>5. Fresh
  BY <1>1 DEF Fresh
<1> QED
  BY <1>3, <1>4, <1>5, FreshRun

LEMMA RerunKeeps ==
  ASSUME IInv, Rerun
  PROVE  IInv'
<1>1. /\ run < MaxRuns /\ run' = run + 1 /\ exited' = "no"
      /\ local' = [i \in Image |-> [local[i] EXCEPT !.body = Older(@)]]
      /\ remote' = [i \in Image |-> [p \in Platform |-> Older(remote[i][p])]]
      /\ disk' = [b \in Builds |-> Older(disk[b])] /\ ctr' = [b \in Builds |-> NoContainer]
      /\ pos' = [b \in Builds |-> 0] /\ todo' = [b \in Builds |-> <<>>] /\ err' = [b \in Builds |-> FALSE]
      /\ skipped' = {} /\ claimed' = {}
      /\ UNCHANGED <<runtime, job, workdir, config, faults>>
  BY DEF Rerun
<1>2. TypeOK /\ ToolsAreTools
  BY DEF IInv
<1>3. Builds' = Builds
  BY <1>1 DEF Builds
<1>4. \A x \in Body \cup {None} : Older(x) \in Body \cup {None} /\ (x \in {None, "tool"} => Older(x) = x)
  BY DEF Older, Body, None
<1>5. ASSUME NEW s \in Stored
      PROVE  [s EXCEPT !.body = Older(@)] \in Stored /\ [s EXCEPT !.body = Older(@)].body = Older(s.body)
  <2>1. CASE s = Absent
    <3>1. Older(None) = None
      BY DEF Older, None
    <3> QED
      BY <2>1, <3>1 DEF Absent, Stored
  <2>2. CASE s \in [plat : Platform, body : Body]
    <3>1. Older(s.body) \in Body
      BY <2>2 DEF Older, Body
    <3> QED
      BY <2>2, <3>1 DEF Stored
  <2> QED
    BY <2>1, <2>2 DEF Stored
<1>6. local' \in [Image -> Stored] /\ \A i \in Image : local'[i].body = Older(local[i].body)
  BY <1>1, <1>2, <1>5 DEF TypeOK
<1>7. remote' \in [Image -> [Platform -> Body \cup {None}]] /\ \A i \in Image, p \in Platform : remote'[i][p] = Older(remote[i][p])
  BY <1>1, <1>2, <1>4 DEF TypeOK
<1>8. ToolsAreTools'
  <2> SUFFICES ASSUME NEW i \in ToolImage
               PROVE  local'[i].body \in {None, "tool"} /\ \A p \in Platform : remote'[i][p] \in {None, "tool"}
    BY DEF ToolsAreTools
  <2>1. i \in Image
    BY ImagesInPlay
  <2>2. local[i].body \in {None, "tool"} /\ \A p \in Platform : remote[i][p] \in {None, "tool"}
    BY <1>2 DEF ToolsAreTools
  <2>3. \A x \in {None, "tool"} : Older(x) = x
    BY DEF Older, None
  <2> QED
    BY <1>6, <1>7, <2>1, <2>2, <2>3
<1>9. TypeOK'
  <2>1. NoContainer \in ContainerState
    BY StoredFacts DEF NoContainer, ContainerState
  <2>2. \A b \in Builds : 0 \in 0..Len(job[b].steps)
    BY <1>2, StepCfg, LenProperties
  <2>3. disk' \in [Builds -> {None, "fresh", "stale", "foreign"}]
    BY <1>1, <1>2 DEF TypeOK, Older, None
  <2>4. run' \in 1..MaxRuns
    BY <1>1, <1>2, ContainerAssumption DEF TypeOK, ContainerAssumption
  <2> QED
    BY <1>1, <1>2, <1>3, <1>6, <1>7, <2>1, <2>2, <2>3, <2>4 DEF TypeOK
<1>10. Fresh'
  BY <1>1, <1>3 DEF Fresh
<1> QED
  BY <1>8, <1>9, <1>10, FreshRun, PTL

-----------------------------------------------------------------------------
(* The theorems.                                                           *)

LEMMA NextCases ==
  ASSUME Next
  PROVE  (\E b \in Builds : Act(b) \/ NextStep(b)) \/ Kill \/ Rerun
<1>1. \A b \in Builds : ImageOp(b) \/ ContainerOp(b) \/ StepOp(b) => Act(b) \/ NextStep(b)
  BY DEF StepOp, Act
<1> QED
  BY <1>1 DEF Next

\* The invariant holds in every reachable state, whatever the jobs, the stores
\* and the registries are, and however many calls fail and runs are killed.
THEOREM ContainerInvariant == Spec => []IInv
<1>1. Init => IInv
  BY InitKeeps
<1>2. IInv /\ [Next]_vars => IInv'
  <2> SUFFICES ASSUME IInv, [Next]_vars PROVE IInv'
    OBVIOUS
  <2>1. ASSUME NEW b \in Builds, Act(b) PROVE IInv'
    BY <2>1, OperationKeeps
  <2>2. ASSUME NEW b \in Builds, NextStep(b) PROVE IInv'
    BY <2>2, NextStepKeeps
  <2>3. CASE Kill
    BY <2>3, KillKeeps DEF Kill, images, place, history
  <2>4. CASE Rerun
    BY <2>4, RerunKeeps
  <2>5. CASE UNCHANGED vars
    BY <2>5, KillKeeps DEF vars
  <2> QED
    BY <2>1, <2>2, <2>3, <2>4, <2>5, NextCases
<1> QED
  BY <1>1, <1>2, PTL DEF Spec

\* The handles of the builds, the stores, the registries and the folders hold
\* what they may hold, and what a run claims is about images in play.
THEOREM ContainerTypes == Spec => []TypeOK
<1>1. IInv => TypeOK
  BY DEF IInv
<1> QED
  BY <1>1, ContainerInvariant, PTL

\* However the calls of a step fail, the container it started has been waited
\* for or stopped when the step is over (BuildingContainer, Prod, Wait, Stop);
\* where the wait itself failed, the build has failed with it or the container
\* was one that comments on a pull request (Wait returns the error and neither
\* stops nor asks again).
THEOREM StepsStopWhatTheyStart == Spec => []NothingLeftRunning
<1>1. IInv => NothingLeftRunning
  <2> SUFFICES ASSUME IInv, runtime # "host", NEW b \in Builds, exited = "no", Idle(b)
               PROVE  /\ ctr[b].state # "running"
                      /\ ctr[b].state = "adrift" => err[b] \/ Commenting(b)
    BY DEF NothingLeftRunning
  <2>1. ctr[b].state = "running" => Ends(todo[b], 0)
    BY DEF IInv, RunningWillEnd
  <2>2. todo[b] = <<>>
    BY DEF Idle
  <2>3. ctr[b].state = "adrift" => err[b] \/ Commenting(b)
    BY DEF IInv, AdriftReported
  <2> QED
    BY <2>1, <2>2, <2>3, NothingAhead
<1> QED
  BY <1>1, ContainerInvariant, PTL

\* What is pushed for an application that is compiled in the run was compiled in
\* the run, or the build has reported an error (the registry's order of compile
\* and production steps, CopyFileTo, Commit, Tag and Push); the zig builds of a
\* group compile in one folder, and what they push one of them compiled.
THEOREM NoStaleImageUnreported == Spec => []StaleIsReported
<1>1. IInv => StaleIsReported
  BY DEF IInv
<1> QED
  BY <1>1, ContainerInvariant, PTL

\* What a push that returned no error was given stays in the registry for the
\* rest of the run, unless the daemon's answer broke off: no build overwrites it
\* (Container.Push, LogAggregator.Copy, PodmanManager.PushImage).
THEOREM PushesArrive == Spec => []PushedIsRemote
<1>1. IInv => PushedIsRemote
  BY DEF IInv
<1> QED
  BY <1>1, ContainerInvariant, PTL

\* Who removes the configuration behind a start is releasing.
LEMMA CleansReleasing ==
  ASSUME TypeOK, TodoTyped, NEW c \in Builds, Cleans(todo[c], 0)
  PROVE  Releasing(c)
<1> DEFINE s == todo[c]
           f == job[c].cfg
<1>1. PICK l \in (0 + 1)..Len(s) : s[l].do = "unconfig"
  BY DEF Cleans, CleansAt
<1>2. s # <<>>
  BY NothingAhead
<1>3. pos[c] # 0 /\ s \in Seq(StepOps(Current(c), f)) /\ pos[c] \in 1..Len(job[c].steps)
  BY <1>2, HeadOp
<1>4. s[l] \in StepOps(Current(c), f)
  <2>1. Len(s) \in Nat
    BY <1>3, LenProperties
  <2>2. l \in 1..Len(s)
    BY <2>1
  <2> QED
    BY <1>3, <2>2, ElementOfSeq
<1>5. s[l] \notin PlainOps(f) /\ s[l] \notin CommentOps(f) /\ s[l] \notin ProdOps(f)
  BY <1>1, WhoDoes
<1>6. Current(c) = "gorelease"
  BY <1>4, <1>5 DEF StepOps, GithubOps
<1>7. pos[c] > 0
  BY <1>3
<1> QED
  BY <1>2, <1>6, <1>7 DEF Releasing, Current, Idle

\* A release starts with the default configuration of its own language, whatever
\* an earlier run left in /tmp, unless a build of the other language is releasing
\* at the same time (writeDefaultConfigContent).
THEOREM ReleasesUseTheirOwn == Spec => OwnConfiguration
<1> DEFINE Own == \A b \in Builds :
             ctr[b].config = None /\ ctr'[b].config \notin {None, Language(job[b].cfg)} =>
               \E c \in Builds : c # b /\ Releasing(c) /\ ctr'[b].config = Language(job[c].cfg)
<1>1. IInv /\ [Next]_vars => [Own]_vars
  <2> SUFFICES ASSUME IInv, Next, NEW b \in Builds,
                      ctr[b].config = None, ctr'[b].config \notin {None, Language(job[b].cfg)}
               PROVE  \E c \in Builds : c # b /\ Releasing(c) /\ ctr'[b].config = Language(job[c].cfg)
    OBVIOUS
  <2>1. TypeOK /\ TodoTyped /\ ToolsAreTools /\ Created /\ BindsOwn /\ DOMAIN ctr = Builds
    BY DEF IInv, TypeOK
  <2>2. ASSUME NEW d \in Builds, Act(d)
        PROVE  d = b /\ exited = "no" /\ todo[b] # <<>> /\ Op0(b).do = "bind" /\ ctr'[b].config = config
    <3>1. Moves(d) /\ Acting(d)
      BY <2>1, <2>2, EveryMove, EveryAction
    <3>2. d = b
      BY <3>1, Placed
    <3>3. ctr'[b].config # ctr[b].config /\ ctr'[b].config # None
      OBVIOUS
    <3>4. Succeeds(b)
      BY <3>1, <3>2, <3>3 DEF Acting, Otherwise
    <3>5. Op0(b).do = "bind" /\ ctr'[b].config = config
      BY <3>3, <3>4 DEF Succeeds
    <3> QED
      BY <3>1, <3>2, <3>5, Placed
  <2>3. ASSUME NEW d \in Builds, NextStep(d) PROVE FALSE
    <3>1. ctr' = [ctr EXCEPT ![d] = NoContainer]
      BY <2>3 DEF NextStep
    <3>2. ctr'[b] = ctr[b] \/ ctr'[b] = NoContainer
      BY <2>1, <3>1
    <3> QED
      BY <3>2 DEF NoContainer
  <2>4. ~Kill
    BY DEF Kill
  <2>5. ~Rerun
    BY DEF Rerun, NoContainer
  <2>6. exited = "no" /\ todo[b] # <<>> /\ Op0(b).do = "bind" /\ ctr'[b].config = config
    BY <2>2, <2>3, <2>4, <2>5, NextCases
  <2>7. Binds(todo[b])
    <3>1. Len(todo[b]) \in Nat /\ Len(todo[b]) > 0 /\ Op0(b) = todo[b][1]
      BY <2>1, <2>6, HeadOp
    <3>2. 1 \in 1..Len(todo[b]) /\ 1..(1 - 1) = {}
      BY <3>1
    <3> QED
      BY <2>6, <3>1, <3>2 DEF Binds
  <2>8. PICK c \in Builds : c # b /\ Cleans(todo[c], 0) /\ config = Language(job[c].cfg)
    BY <2>1, <2>6, <2>7 DEF BindsOwn
  <2> QED
    BY <2>1, <2>6, <2>8, CleansReleasing
<1> QED
  BY <1>1, ContainerInvariant, PTL DEF Spec, OwnConfiguration
=============================================================================
