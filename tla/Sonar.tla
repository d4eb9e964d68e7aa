--------------------------------- MODULE Sonar ---------------------------------
(***************************************************************************)
(* The sonarcloud step of every build of a group (pkg/sonarcloud).  In the *)
(* local environment the builds share one container named sonarqube: under *)
(* the lock of LeaderElection (cmd/engine.go) each finds or creates it,    *)
(* starts it, waits until it is up and obtains its token, which only the   *)
(* first one can have issued and which is kept in a file of the container. *)
(* The SonarQube server is external.  A call may fail, at most MaxFaults   *)
(* times, and the process may be killed and run again, up to MaxRuns runs; *)
(* the container survives it.                                              *)
(***************************************************************************)
EXTENDS Integers, FiniteSets

CONSTANTS
  Build,          \* the builds of the group
  Runtimes,       \* subset of {"docker", "podman"}
  Envs,           \* subset of {"local", "build"}
  MaxFaults, MaxRuns

ASSUME SonarAssumption ==
  /\ Runtimes \subseteq {"docker", "podman"} /\ Envs \subseteq {"local", "build"}
  /\ MaxFaults \in Nat /\ MaxRuns \in Nat

VARIABLES
  runtime, env,
  state,      \* the named container: "none", "created", "stopped", "booting" or "up"
  password,   \* the administrator still has the password the image comes with
  issued,     \* the server has issued a token under the name local
  metadata,   \* the token is in the container's metadata file
  holder,     \* the builds that hold the leader lock
  pc,         \* where each build is
  token,      \* the token each build has: "none", "local" or "env"
  exited,     \* "no", "exit" (os.Exit(1)) or "killed"
  run, faults

server == <<state, password, issued, metadata>>
vars == <<runtime, env, state, password, issued, metadata, holder, pc, token, exited, run, faults>>

Leading == {"pull", "create", "start", "ready", "copy", "password", "generate", "save", "leave"}
Places == {"begin", "wait", "scan", "done"} \cup Leading

Init ==
  /\ runtime \in Runtimes /\ env \in Envs
  /\ state = "none" /\ password = TRUE /\ issued = FALSE /\ metadata = FALSE
  /\ holder = {}
  /\ pc = [b \in Build |-> "begin"]
  /\ token = [b \in Build |-> "env"]
  /\ exited = "no" /\ run = 1 /\ faults = 0

------------------------------------------------------------------------------
(* What a build does *)

Goes(b, from, to) == exited = "no" /\ pc[b] = from /\ pc' = [pc EXCEPT ![b] = to]
\* Whatever fails in Start, Setup, Pull or Analyze ends the process.
Exits(b, from) == exited = "no" /\ pc[b] = from /\ exited' = "exit" /\ UNCHANGED pc
Fault == faults < MaxFaults /\ faults' = faults + 1
Stays == UNCHANGED <<runtime, env, run>>

\* SonarcloudContainer.Run: only the local environment sets up a server.
Begin(b) ==
  /\ env = "build" /\ Goes(b, "begin", "scan")
  /\ UNCHANGED <<server, holder, token, exited, faults>> /\ Stays

\* LeaderElection.Leader: TryLock, or else Lock.  Both run the function.
TryLock(b) ==
  /\ env = "local"
  /\ IF holder = {} THEN Goes(b, "begin", "pull") /\ holder' = {b}
     ELSE Goes(b, "begin", "wait") /\ UNCHANGED holder
  /\ UNCHANGED <<server, token, exited, faults>> /\ Stays
\* Mutant: a build that is not the leader does not wait.
LockAlways(b) ==
  /\ Goes(b, "wait", "pull") /\ holder' = holder \cup {b}
  /\ UNCHANGED <<server, token, exited, faults>> /\ Stays
Lock(b) ==
  /\ holder = {} /\ Goes(b, "wait", "pull") /\ holder' = {b}
  /\ UNCHANGED <<server, token, exited, faults>> /\ Stays
\* Mutant: the lock is not released.
UnlockNever(b) ==
  /\ Goes(b, "leave", "scan")
  /\ UNCHANGED <<server, holder, token, exited, faults>> /\ Stays
Unlock(b) ==
  /\ Goes(b, "leave", "scan") /\ holder' = holder \ {b}
  /\ UNCHANGED <<server, token, exited, faults>> /\ Stays

\* A call of the build fails on its own.
Fails(b) ==
  /\ \E from \in (Leading \ {"leave"}) \cup {"scan"} : Exits(b, from)
  /\ Fault /\ UNCHANGED <<server, holder, token>> /\ Stays

Pull(b) ==
  /\ Goes(b, "pull", "create")
  /\ UNCHANGED <<server, holder, token, exited, faults>> /\ Stays

\* Create looks for "/sonarqube" in the names of the containers.  Podman's
\* names have no slash: there it creates a second container of that name,
\* which Podman refuses.
Create(b) ==
  /\ \/ state = "none" /\ Goes(b, "create", "start") /\ state' = "created" /\ UNCHANGED exited
     \/ state # "none" /\ runtime = "docker" /\ Goes(b, "create", "start") /\ UNCHANGED <<state, exited>>
     \/ state # "none" /\ runtime = "podman" /\ Exits(b, "create") /\ UNCHANGED state
  /\ UNCHANGED <<password, issued, metadata, holder, token, faults>> /\ Stays

\* Starting a container that runs changes nothing.
Start(b) ==
  /\ Goes(b, "start", "ready")
  /\ state' = IF state \in {"created", "stopped"} THEN "booting" ELSE state
  /\ UNCHANGED <<password, issued, metadata, holder, token, exited, faults>> /\ Stays

\* Ready polls the server's status for five minutes; giving up is a failure.
Ready(b) ==
  /\ state = "up" /\ Goes(b, "ready", "copy")
  /\ UNCHANGED <<server, holder, token, exited, faults>> /\ Stays

\* Mutant: the server is set up whether it has been or not.
ReadMetadataNever(b) ==
  /\ Goes(b, "copy", "password")
  /\ UNCHANGED <<server, holder, token, exited, faults>> /\ Stays
\* Setup: with a metadata file its token is taken and nothing else is done.
ReadMetadata(b) ==
  /\ IF metadata
     THEN Goes(b, "copy", "leave") /\ token' = [token EXCEPT ![b] = "local"]
     ELSE Goes(b, "copy", "password") /\ UNCHANGED token
  /\ UNCHANGED <<server, holder, exited, faults>> /\ Stays

\* The status of the answer is not looked at: the password may be changed.
ChangePassword(b) ==
  /\ Goes(b, "password", "generate") /\ password' = FALSE
  /\ UNCHANGED <<state, issued, metadata, holder, token, exited, faults>> /\ Stays

\* A second token of the same name is refused with a list of errors, which is
\* no map of strings.
GenerateToken(b) ==
  /\ IF issued \/ password
     THEN Exits(b, "generate") /\ UNCHANGED issued
     ELSE Goes(b, "generate", "save") /\ issued' = TRUE /\ UNCHANGED exited
  /\ UNCHANGED <<state, password, metadata, holder, token, faults>> /\ Stays

\* Mutant: the metadata file is forgotten.
KeepToken(b) ==
  /\ Goes(b, "save", "leave") /\ token' = [token EXCEPT ![b] = "local"]
  /\ UNCHANGED <<server, holder, exited, faults>> /\ Stays
SaveMetadata(b) ==
  /\ Goes(b, "save", "leave") /\ metadata' = TRUE
  /\ token' = [token EXCEPT ![b] = "local"]
  /\ UNCHANGED <<state, password, issued, holder, exited, faults>> /\ Stays

\* Analyze runs the scanner and waits for it.
Analyze(b) ==
  /\ Goes(b, "scan", "done")
  /\ UNCHANGED <<server, holder, token, exited, faults>> /\ Stays

Setup(b) == ReadMetadata(b) \/ ChangePassword(b) \/ GenerateToken(b) \/ SaveMetadata(b)
Election(b) == TryLock(b) \/ Lock(b) \/ Unlock(b)
Step(b) ==
  Begin(b) \/ Election(b) \/ Pull(b) \/ Create(b) \/ Start(b) \/ Ready(b) \/ Setup(b) \/ Analyze(b)

------------------------------------------------------------------------------
(* What happens to it *)

Boots ==
  /\ state = "booting" /\ state' = "up"
  /\ UNCHANGED <<runtime, env, password, issued, metadata, holder, pc, token, exited, run, faults>>

\* The process is interrupted.
Kill ==
  /\ exited = "no" /\ run < MaxRuns /\ exited' = "killed"
  /\ UNCHANGED <<runtime, env, server, holder, pc, token, run, faults>>

Done(b) == pc[b] = "done"
RunOver == exited # "no" \/ \A b \in Build : Done(b)
\* The next process finds the container running, or stopped with the machine.
Rerun ==
  /\ RunOver /\ run < MaxRuns /\ run' = run + 1
  /\ state' \in IF state \in {"booting", "up"} THEN {state, "stopped"} ELSE {state}
  /\ holder' = {} /\ exited' = "no"
  /\ pc' = [b \in Build |-> "begin"] /\ token' = [b \in Build |-> "env"]
  /\ UNCHANGED <<runtime, env, password, issued, metadata, faults>>

Next == (\E b \in Build : Step(b) \/ Fails(b)) \/ Boots \/ Kill \/ Rerun

Spec == Init /\ [][Next]_vars
\* Goroutines are scheduled and sync.Mutex lets every waiter in; that the
\* server comes up is assumed, Ready gives up on one that does not (Fails).
FairSpec == Spec /\ WF_vars(Boots) /\ \A b \in Build : WF_vars(Step(b))

------------------------------------------------------------------------------
(* Properties *)

\* Types: LeaderElection (a mutex has one holder), SonarqubeContainer and the
\* server behind them.
TypeOK ==
  /\ runtime \in Runtimes /\ env \in Envs
  /\ state \in {"none", "created", "stopped", "booting", "up"}
  /\ password \in BOOLEAN /\ issued \in BOOLEAN /\ metadata \in BOOLEAN
  /\ holder \subseteq Build /\ \A b, c \in holder : b = c
  /\ pc \in [Build -> Places]
  /\ token \in [Build -> {"local", "env"}]
  /\ exited \in {"no", "exit", "killed"}
  /\ run \in Nat \ {0} /\ faults \in Nat

\* Every build that goes on to the analysis in the local environment has the
\* token of the shared server (Token, after Start), and it is kept for others.
ScansWithItsToken ==
  \A b \in Build : env = "local" /\ pc[b] \in {"leave", "scan", "done"} =>
    token[b] = "local" /\ issued /\ metadata

\* A token that is issued and in no file is about to be saved by the one build
\* that obtained it, or an earlier process or a failure took it along: two
\* builds never set up the server at once.
Lost == issued /\ ~metadata
LostOnlyByCrash ==
  Lost => \/ \E b \in Build : pc[b] = "save" /\ holder = {b}
          \/ exited # "no" \/ run > 1

\* The process does not end itself without a cause: a call that failed, a
\* token an earlier process lost between generating and saving it, or on
\* Podman a server that is already there.  In particular no build asks for a
\* token that another one has obtained.
ExitExplained ==
  exited = "exit" =>
    \/ faults > 0
    \/ Lost /\ run > 1 /\ \E b \in Build : pc[b] = "generate"
    \/ runtime = "podman" /\ state # "none" /\ \E b \in Build : pc[b] = "create"

\* Leader lets everyone in: every run ends, with all builds analysed unless
\* the process exits.
EveryRunEnds == []<>RunOver
=============================================================================
