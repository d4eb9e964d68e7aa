------------------------------ MODULE DockerManager ------------------------------
(***************************************************************************)
(* pkg/cri/docker.  The Docker API answers a pull, push or build with a    *)
(* stream in which it reports what goes wrong later.  Pulls and pushes are *)
(* read line by line (LogAggregator.Copy), and a line with errorDetail is  *)
(* an error; but a stream that breaks off, or a line too long to scan,     *)
(* ends it like a complete one (Lost).  The stream of a build is copied to *)
(* the terminal and nobody looks at it.                                    *)
(***************************************************************************)
EXTENDS Managers

\* The platform asked for is not passed on: the daemon takes its own.
PullImage(w, i, p, auth) ==
  IF Offered(w, i, Host) THEN Call(Fetched(w, i, Host), w) \cup {Lost(w)} ELSE {Refused(w)}

\* Image ids, none of which equals the name ImageExists looks for.
ListImage(w, i) == {}

\* With a platform the image has to be there, and is pulled again when its
\* platform is another one.  A pull lost in its stream makes the create fail.
CreateContainer(w, i, hasPlatform, auth) ==
  IF ~Present(w, i) THEN {Refused(w)}
  ELSE IF ~hasPlatform \/ w.local[i].plat = Host THEN Call(w, w)
  ELSE IF Offered(w, i, Host) THEN Call(Fetched(w, i, Host), w) ELSE {Refused(w)}

BuildImage(w, i, body) == Call(Keep(w, i, [plat |-> Host, body |-> body]), w) \cup {Lost(w)}

\* ensureBuilderExists lists the buildx builders and creates the missing one.
EnsureBuilderExists(w) == {Ok(w), Dies(w)}

\* buildx pushes all platforms in one go; then the image is pulled for each.
BuildMultiArchImage(w, i, body) ==
  LET pushed == Offer(w, i, Platform, body)
      built == Call(Fetched(pushed, i, Host), w) \cup {Lost(pushed), Dies(pushed)}
  IN  built \cup (EnsureBuilderExists(w) \ {Ok(w)})

TagImage(w, image, i) == IF image = Absent THEN {Refused(w)} ELSE Call(Keep(w, i, image), w)
PushImage(w, i, auth) ==
  IF Present(w, i)
  THEN Call(Offer(w, i, {w.local[i].plat}, w.local[i].body), w) \cup {Lost(w)}
  ELSE {Refused(w)}
InspectImage(w, i) == IF Present(w, i) THEN Call(w, w) ELSE {Refused(w)}

StartContainer(w) == Call(w, w)
StopContainer(w) == Call(w, w)
CommitContainer(w, i, body) == Call(Keep(w, i, [plat |-> Host, body |-> body]), w)
CopyContentToContainer(w) == Call(w, w)
\* A tar of one file, made before the daemon is asked.
CopyToContainer(w, found) == IF found THEN Call(w, w) ELSE {Refused(w)}
\* A tar of a folder; the content of symbolic links is left out.
CopyDirectorToContainer(w, found, links) == IF found THEN Call(w, w) ELSE {Refused(w)}
\* The command's exit code is not asked for.
ExecContainer(w, running) == IF running THEN Call(w, w) ELSE {Refused(w)}
InspectContainer(w) == Call(w, w)
\* An exit status that is zero or not, or no status at all.
WaitContainer(w) == Call(w, w) \cup {Outcome("nonzero", TRUE, w)}
=============================================================================
