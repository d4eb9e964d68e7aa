----------------------------- MODULE EngineOutcome -----------------------------
(***************************************************************************)
(* What the engine promises its caller about a run, with nothing of how it *)
(* walks steps: builds wait for every earlier group to succeed, a failure  *)
(* is never taken back, and the exit code reports it.                      *)
(***************************************************************************)
EXTENDS Integers, Sequences

CONSTANTS
  Build,   \* the builds of the run
  Groups   \* the sequence of groups, each a sequence of builds

VARIABLES
  phase,   \* per build: "waiting", "running", "ok" or "failed"
  code     \* "none" while the engine runs, then its exit code

vars == <<phase, code>>

Member(b, g) == \E i \in DOMAIN Groups[g] : Groups[g][i] = b

Init ==
  /\ phase = [b \in Build |-> "waiting"]
  /\ code = "none"

Move(b, from, to) == code = "none" /\ phase[b] = from /\ phase' = [phase EXCEPT ![b] = to]

\* A build starts when every build of every earlier group has succeeded.
Start(b) ==
  /\ Move(b, "waiting", "running")
  /\ \E h \in DOMAIN Groups :
       /\ Member(b, h)
       /\ \A g \in 1..(h - 1) : \A c \in Build : Member(c, g) => phase[c] = "ok"
  /\ UNCHANGED code

Succeed(b) == Move(b, "running", "ok") /\ UNCHANGED code

\* Something of the build fails: it can only end as failed.
Fail(b) == Move(b, "running", "failed") /\ UNCHANGED code

\* A failure that ends the process at once.
Abort(b) == Move(b, "running", "failed") /\ code' = "1"

ExitFail ==
  /\ code = "none" /\ \E b \in Build : phase[b] = "failed"
  /\ code' = "1"
  /\ UNCHANGED phase

ExitOK ==
  /\ code = "none"
  /\ \A g \in DOMAIN Groups : \A b \in Build : Member(b, g) => phase[b] = "ok"
  /\ code' = "0"
  /\ UNCHANGED phase

Next ==
  \/ \E b \in Build : Start(b) \/ Succeed(b) \/ Fail(b) \/ Abort(b)
  \/ ExitFail \/ ExitOK

Spec == Init /\ [][Next]_vars

\* A run that has a failure, or nothing left to do, ends.
FairSpec == Spec /\ WF_vars(ExitFail) /\ WF_vars(ExitOK)
=============================================================================
