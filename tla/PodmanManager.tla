------------------------------ MODULE PodmanManager ------------------------------
(***************************************************************************)
(* pkg/cri/podman: the same operations over the Podman bindings, which     *)
(* return when the operation has ended, with its error.                    *)
(***************************************************************************)
EXTENDS Managers

\* The credentials reach the manager in the URL alphabet of base64 and are
\* decoded with the standard one: where the two differ decoding fails.
DecodeRegistryAuth(auth) == auth # "urlsafe"

PullImage(w, i, p, auth) ==
  IF DecodeRegistryAuth(auth) /\ Offered(w, i, p) THEN Call(Fetched(w, i, p), w) ELSE {Refused(w)}

ListImage(w, i) == IF Present(w, i) THEN {i} ELSE {}

\* With a platform the image is pulled, whether it is there or not.
CreateContainer(w, i, hasPlatform, auth) ==
  IF hasPlatform THEN PullImage(w, i, Host, auth)
  ELSE IF Present(w, i) THEN Call(w, w) ELSE {Refused(w)}

\* Every error on the way ends the process.
BuildImage(w, i, body) == {Ok(Keep(w, i, [plat |-> Host, body |-> body])), Dies(w)}

\* One build per platform, then a manifest list of them, which is pushed.
BuildMultiArchImage(w, i, body) ==
  LET listed == Keep(w, i, [plat |-> Host, body |-> body])
  IN  {Ok(Offer(listed, i, Platform, body)), Dies(w), Dies(listed)}

TagImage(w, image, i) == IF image = Absent THEN {Refused(w)} ELSE Call(Keep(w, i, image), w)
\* Mutant: an error in the progress of the push is not returned.
PushImageQuiet(w, i, auth) ==
  IF Present(w, i) THEN Call(Offer(w, i, {w.local[i].plat}, w.local[i].body), w) \cup {Lost(w)}
  ELSE {Refused(w)}
PushImage(w, i, auth) ==
  IF DecodeRegistryAuth(auth) /\ Present(w, i)
  THEN Call(Offer(w, i, {w.local[i].plat}, w.local[i].body), w)
  ELSE {Refused(w)}
InspectImage(w, i) == IF Present(w, i) THEN Call(w, w) ELSE {Refused(w)}

StartContainer(w) == Call(w, w)
StopContainer(w) == Call(w, w)
CommitContainer(w, i, body) == Call(Keep(w, i, [plat |-> Host, body |-> body]), w)
CopyContentToContainer(w) == Call(w, w)
CopyToContainer(w, found) == IF found THEN Call(w, w) ELSE {Refused(w)}
\* A symbolic link is followed although its header says that it has no content.
CopyDirectorToContainer(w, found, links) == IF found /\ ~links THEN Call(w, w) ELSE {Refused(w)}
\* The command's exit code is not asked for.
ExecContainer(w, running) == IF running THEN Call(w, w) ELSE {Refused(w)}
InspectContainer(w) == Call(w, w)
WaitContainer(w) == Call(w, w) \cup {Outcome("nonzero", TRUE, w)}
=============================================================================
