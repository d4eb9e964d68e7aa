------------------------------ MODULE HostManager ------------------------------
(***************************************************************************)
(* pkg/cri/host: steps run as processes of this machine.  There are no     *)
(* images: what concerns them succeeds and does nothing.  A container that *)
(* mounts the working directory makes the folder src in it, which it must  *)
(* not find there.                                                         *)
(***************************************************************************)
EXTENDS Managers

PullImage(w) == {Ok(w)}
ListImage == {}
CreateContainer(w) == Call(w, w)
BuildImage(w) == {Ok(w)}
\* It returns no reader, and the caller closes it.
BuildMultiArchImage(w) == {Dies(w)}
TagImage(w) == {Ok(w)}
PushImage(w) == {Ok(w)}
InspectImage(w) == {Ok(w)}

\* The folder stays when the command does not start.
StartContainer(w, mounts) ==
  LET made == [w EXCEPT !.workdir = @ \/ mounts]
  IN  IF ~mounts THEN Call(w, w)
      ELSE IF w.workdir THEN {Outcome("exit", FALSE, w)}
      ELSE {Ok(made), Broken(made), Dies(w)}
StopContainer(w) == {Ok(w)}
CommitContainer(w) == {Ok(w)}
\* Only the script has a place on the host.
CopyContentToContainer(w, script) ==
  IF script THEN Call(w, w) \cup {Dies(w)} ELSE {Outcome("exit", FALSE, w)}
CopyToContainer(w) == {Ok(w)}
CopyDirectorToContainer(w) == {Ok(w)}
ExecContainer(w) == {Ok(w)}
InspectContainer(w) == {Ok(w)}
\* The status of the process, or none when it could not be waited for.
WaitContainer(w) == Call(w, w) \cup {Outcome("nonzero", TRUE, w)}
=============================================================================
