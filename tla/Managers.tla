-------------------------------- MODULE Managers --------------------------------
(***************************************************************************)
(* What the container managers (pkg/cri) act on: a local image store, which *)
(* holds one platform under a name, and the registries, which hold any     *)
(* number of platforms; whether the working directory has a folder src     *)
(* (only HostManager minds); and goreleaser's default file.  The daemons   *)
(* are external; a manager's operation is the set of outcomes its caller   *)
(* may see.                                                                *)
(***************************************************************************)
CONSTANTS
  Host,    \* the platform of the containers on this machine
  Alien    \* any other platform

None == "none"
Platform == {Host, Alien}
\* What an image holds: a base image, a tool image built from an embedded
\* Dockerfile, the application that its build compiled in this run, one of an
\* earlier run, or what another build of this run compiled.
Body == {"base", "tool", "fresh", "stale", "foreign"}
Absent == [plat |-> None, body |-> None]
Stored == {Absent} \cup [plat : Platform, body : Body]

\* A world w has the fields local, remote, workdir and config.
Present(w, i) == w.local[i] # Absent
Offered(w, i, p) == w.remote[i][p] # None
Keep(w, i, image) == [w EXCEPT !.local[i] = image]
Fetched(w, i, p) == Keep(w, i, [plat |-> p, body |-> w.remote[i][p]])
Offer(w, i, plats, body) == [w EXCEPT !.remote[i] = [p \in Platform |-> IF p \in plats THEN body ELSE @[p]]]

Outcome(res, fault, w) == [res |-> res, fault |-> fault, world |-> w]
Ok(w) == Outcome("ok", FALSE, w)
Refused(w) == Outcome("error", FALSE, w)   \* an error the state explains
Broken(w) == Outcome("error", TRUE, w)     \* the call failed on its own
Lost(w) == Outcome("ok", TRUE, w)          \* it failed and the caller is not told
Dies(w) == Outcome("exit", TRUE, w)        \* the manager calls os.Exit(1)

\* A call that takes w to done, or fails and leaves w.
Call(done, w) == {Ok(done), Broken(w)}
=============================================================================
