------------------------------- MODULE KeyValue -------------------------------
(***************************************************************************)
(* The key value server (pkg/kv) between the builds.  The gcloud step of a *)
(* build posts its tokens from a container and does not look at the        *)
(* answers; its python step gets the access token from another container;  *)
(* registry credentials "mem:accesstoken" are read in the engine itself    *)
(* (utils.GetValue).  The bearer token is issued once and lasts MaxAge.    *)
(* The builds of a group run at once, the groups in turn (Pipeline); one   *)
(* that fails ends the engine, and with it the server, whatever containers *)
(* are still calling it.                                                   *)
(***************************************************************************)
EXTENDS Integers, Sequences, FiniteSets

CONSTANTS
  Build,
  Group,       \* the group of each build
  MaxAge,      \* TokenMaxAge
  MaxClock,    \* bound on the time a run takes
  MaxLost      \* bound on the calls that get no answer

None == "none"
Empty == "empty"        \* a token that GCP did not give: the body of length 0

ASSUME KeyValueAssumption ==
  /\ None \notin Build /\ Empty \notin Build
  /\ Group \in [Build -> Nat]
  /\ MaxAge \in Nat /\ MaxClock \in Nat /\ MaxLost \in Nat

Key == {"idtoken", "accesstoken"}

VARIABLES
  clock,      \* time since the server was started
  listening,  \* the engine runs and its listener is open
  store,      \* kv.store: the build whose value is under each key
  readers,    \* builds whose call holds mu for reading
  writers,    \* builds whose call holds mu for writing
  calls,      \* the calls each build has left
  at,         \* the current call: "idle", "sent", "admitted" or "locked"
  begun,      \* builds that have begun
  obtained,   \* builds to which GCP gave an access token
  kept,       \* builds whose access token was stored
  read,       \* what each build got for the access token, by GET and by "mem:"
  failed,     \* builds one of whose calls was refused for its age
  lost        \* calls without an answer so far

mu == <<readers, writers>>
vars == <<clock, listening, store, readers, writers, calls, at, begun, obtained, kept, read, failed, lost>>

Post(key, value) == [do |-> "post", key |-> key, value |-> value]
Get == [do |-> "get", key |-> "accesstoken", value |-> None]
Mem == [do |-> "mem", key |-> "accesstoken", value |-> None]

\* StartHttpServer: an empty store and one bearer token, issued now.
Init ==
  /\ clock = 0 /\ listening = TRUE
  /\ store = [k \in Key |-> None]
  /\ readers = {} /\ writers = {}
  /\ calls = [b \in Build |-> <<>>] /\ at = [b \in Build |-> "idle"]
  /\ begun = {} /\ obtained = {} /\ kept = {} /\ failed = {} /\ lost = 0
  /\ read = [b \in Build |-> [get |-> None, mem |-> None]]

Current(b) == Head(calls[b])
Busy(b) == calls[b] # <<>>
Done(b) == b \in begun /\ ~Busy(b)

------------------------------------------------------------------------------
(* The builds *)

\* A build begins once the groups before its own are done.  gcpAuth fails, or
\* gives an access token and, for a service account, an id token too.
Begin(b) ==
  /\ listening /\ b \notin begun /\ \A c \in Build : Group[c] < Group[b] => Done(c)
  /\ begun' = begun \cup {b}
  /\ \E posts \in { <<>>,
                    <<Post("idtoken", b), Post("accesstoken", b)>>,
                    <<Post("idtoken", Empty), Post("accesstoken", b)>> } :
       /\ calls' = [calls EXCEPT ![b] = posts \o <<Get, Mem>>]
       /\ obtained' = IF posts = <<>> THEN obtained ELSE obtained \cup {b}
  /\ UNCHANGED <<clock, listening, store, mu, at, kept, read, failed, lost>>

\* setValue, curl: a request that reaches the server.  A read in the engine
\* goes past the server and its token.
Send(b) ==
  /\ listening /\ Busy(b) /\ at[b] = "idle"
  /\ at' = [at EXCEPT ![b] = IF Current(b).do = "mem" THEN "admitted" ELSE "sent"]
  /\ UNCHANGED <<clock, listening, store, mu, calls, begun, obtained, kept, read, failed, lost>>

\* The call is over, whatever its answer: nobody looks at it.
Answered(b) == calls' = [calls EXCEPT ![b] = Tail(@)] /\ at' = [at EXCEPT ![b] = "idle"]

\* No connection, or the server is gone with the engine.
Lose(b) ==
  /\ Busy(b) /\ at[b] \in {"idle", "sent"} /\ Current(b).do # "mem"
  /\ \/ ~listening /\ UNCHANGED lost
     \/ lost < MaxLost /\ lost' = lost + 1
  /\ Answered(b)
  /\ UNCHANGED <<clock, listening, store, mu, begun, obtained, kept, read, failed>>

------------------------------------------------------------------------------
(* The server *)

\* ValidateToken, whose token was generated at time 0.
\* Mutant: the age is compared the other way round.
ValidateTokenOld == clock >= MaxAge
ValidateToken == ~(clock > MaxAge)

\* authMiddleware, and Set's check of the body.
Admit(b) ==
  /\ at[b] = "sent"
  /\ IF ~ValidateToken THEN Answered(b) /\ failed' = failed \cup {b}
     ELSE IF Current(b).value = Empty THEN Answered(b) /\ UNCHANGED failed
     ELSE at' = [at EXCEPT ![b] = "admitted"] /\ UNCHANGED <<calls, failed>>
  /\ UNCHANGED <<clock, listening, store, mu, begun, obtained, kept, read, lost>>
\* GetVal takes mu for reading, SetVal for writing.
RLock(b) ==
  /\ at[b] = "admitted" /\ Current(b).do # "post" /\ writers = {}
  /\ readers' = readers \cup {b} /\ at' = [at EXCEPT ![b] = "locked"]
  /\ UNCHANGED <<clock, listening, store, writers, calls, begun, obtained, kept, read, failed, lost>>
\* Mutant: SetVal takes the lock for reading.
LockShared(b) ==
  /\ at[b] = "admitted" /\ Current(b).do = "post" /\ writers = {}
  /\ readers' = readers \cup {b} /\ at' = [at EXCEPT ![b] = "locked"]
  /\ UNCHANGED <<clock, listening, store, writers, calls, begun, obtained, kept, read, failed, lost>>
Lock(b) ==
  /\ at[b] = "admitted" /\ Current(b).do = "post" /\ mu = <<{}, {}>>
  /\ writers' = {b} /\ at' = [at EXCEPT ![b] = "locked"]
  /\ UNCHANGED <<clock, listening, store, readers, calls, begun, obtained, kept, read, failed, lost>>

GetVal(b) ==
  /\ at[b] = "locked" /\ Current(b).do # "post"
  /\ read' = [read EXCEPT ![b] = IF Current(b).do = "get"
                                 THEN [@ EXCEPT !.get = store["accesstoken"]]
                                 ELSE [@ EXCEPT !.mem = store["accesstoken"]]]
  /\ readers' = readers \ {b} /\ Answered(b)
  /\ UNCHANGED <<clock, listening, store, writers, begun, obtained, kept, failed, lost>>
\* Mutant: every value is kept under one key.
SetValOneKey(b) ==
  /\ at[b] = "locked" /\ Current(b).do = "post"
  /\ store' = [store EXCEPT !["idtoken"] = Current(b).value]
  /\ kept' = IF Current(b).key = "accesstoken" THEN kept \cup {b} ELSE kept
  /\ writers' = writers \ {b} /\ readers' = readers \ {b} /\ Answered(b)
  /\ UNCHANGED <<clock, listening, begun, obtained, read, failed, lost>>
\* Mutant: the lock is not released.
SetValNoUnlock(b) ==
  /\ at[b] = "locked" /\ Current(b).do = "post"
  /\ store' = [store EXCEPT ![Current(b).key] = Current(b).value]
  /\ kept' = IF Current(b).key = "accesstoken" THEN kept \cup {b} ELSE kept
  /\ Answered(b)
  /\ UNCHANGED <<clock, listening, mu, begun, obtained, read, failed, lost>>
SetVal(b) ==
  /\ at[b] = "locked" /\ Current(b).do = "post"
  /\ store' = [store EXCEPT ![Current(b).key] = Current(b).value]
  /\ kept' = IF Current(b).key = "accesstoken" THEN kept \cup {b} ELSE kept
  /\ writers' = writers \ {b} /\ readers' = readers \ {b} /\ Answered(b)
  /\ UNCHANGED <<clock, listening, begun, obtained, read, failed, lost>>

\* The engine closes the listener when it has joined every build (Start).
StopServer ==
  /\ listening /\ \A b \in Build : Done(b)
  /\ listening' = FALSE
  /\ UNCHANGED <<clock, store, mu, calls, at, begun, obtained, kept, read, failed, lost>>

\* executeBuild: a step of b fails, maybe because waiting for its container did,
\* and the engine exits at once: the calls under way are cut off, and the
\* containers of b and of the others call a server that is gone.
ExecuteBuildFails(b) ==
  /\ listening /\ Busy(b)
  /\ listening' = FALSE /\ readers' = {} /\ writers' = {} /\ at' = [c \in Build |-> "idle"]
  /\ UNCHANGED <<clock, store, calls, begun, obtained, kept, read, failed, lost>>

Tick ==
  /\ clock < MaxClock /\ clock' = clock + 1
  /\ UNCHANGED <<listening, store, mu, calls, at, begun, obtained, kept, read, failed, lost>>

Client(b) == Begin(b) \/ Send(b) \/ Lose(b)
Handler(b) == Admit(b) \/ RLock(b) \/ GetVal(b) \/ Lock(b) \/ SetVal(b)
Next == (\E b \in Build : Client(b) \/ Handler(b) \/ ExecuteBuildFails(b)) \/ StopServer \/ Tick

Spec == Init /\ [][Next]_vars
\* The containers and the server's goroutines are scheduled, and a RWMutex
\* lets a waiting writer in although readers keep coming.
FairSpec ==
  /\ Spec /\ WF_vars(StopServer)
  /\ \A b \in Build : WF_vars(Client(b)) /\ WF_vars(Handler(b)) /\ SF_vars(Lock(b))

------------------------------------------------------------------------------
(* Properties *)

\* Types: KeyValueStore never holds an empty value, Server, the calls.
TypeOK ==
  /\ clock \in Nat /\ listening \in BOOLEAN
  /\ store \in [Key -> Build \cup {None}]
  /\ readers \subseteq Build /\ writers \subseteq Build
  /\ at \in [Build -> {"idle", "sent", "admitted", "locked"}]
  /\ begun \subseteq Build /\ obtained \subseteq begun /\ kept \subseteq obtained /\ failed \subseteq begun
  /\ read \in [Build -> [get : Build \cup {None}, mem : Build \cup {None}]]
  /\ lost \in Nat

\* Go's maps may not be written while anybody else uses them (GetVal, SetVal):
\* nobody else is between lock and unlock with a call that writes.
MapNotRaced ==
  \A b, c \in Build : at[b] = "locked" /\ at[c] = "locked" /\ b # c =>
    Current(b).do # "post" /\ Current(c).do # "post"

\* A build that is done and whose access token was stored got its own, or that of a build that
\* runs in its group (all builds use the same keys); never one of an earlier
\* group, and never none, unless its call was refused or lost.
Peer(b, v) == v \in Build /\ Group[v] = Group[b]
OwnTokenRead ==
  \A b \in Build : Done(b) /\ b \in kept =>
    /\ Peer(b, read[b].mem)
    /\ Peer(b, read[b].get) \/ (read[b].get = None /\ (b \in failed \/ lost > 0))

\* A build reads nothing only if neither it nor a build of an earlier group was
\* given a token, the bearer token has expired, or a call was lost.
EmptyExplained ==
  \A b \in Build : Done(b) /\ read[b].get = None =>
    \/ lost > 0
    \/ clock > MaxAge
    \/ \A c \in obtained : Group[c] >= Group[b] /\ c # b

\* The engine comes to its end and closes the server: no build waits for ever for
\* an answer, or for the lock that another call holds.
ServerCloses == <>~listening
=============================================================================
