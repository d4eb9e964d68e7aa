-------------------------------- MODULE TarDir --------------------------------
(***************************************************************************)
(* TarDir of pkg/container/container.go: the archive of a directory, which *)
(* is written file by file for a small one (TarDirSequential) and read by  *)
(* one goroutine per file for a large one (TarDirConcurrent), whose        *)
(* results come back in any order over a buffered channel.                 *)
(*                                                                         *)
(* Files are numbered in the order in which fs.WalkDir finds them.         *)
(***************************************************************************)
EXTENDS Integers, Sequences, FiniteSets

CONSTANTS
  MaxFiles,    \* bound: files in the directory
  Threshold,   \* above so many files the archive is made concurrently
  MaxWorkers   \* capacity of the semaphore

ASSUME TarAssumption == {MaxFiles, Threshold} \subseteq Nat /\ MaxWorkers \in Nat \ {0}

\* "bad": opening or reading it fails; "changed": it has grown since the walk
\* took its size, which fails where it is written into the archive.
Kind == {"data", "empty", "bad", "changed"}

VARIABLES
  kinds,       \* per file: its kind
  huge,        \* whether the total size is above 10 MB
  pc,          \* where TarDir is
  next,        \* the file its loop is at
  g,           \* per file: where its goroutine is
  token,       \* the goroutines that hold a slot of the semaphore
  resultChan,  \* the goroutines' results: [index, ok]
  chanClosed,  \* whether the closing goroutine has closed resultChan
  results,     \* per index: the file whose result is there, 0 for none
  archive,     \* the files written to the tar writer
  res          \* "none", "ok", "walk" or "file" for an error, "panic"

tarVars == <<kinds, huge, pc, next, g, token, resultChan, chanClosed, results, archive, res>>

File == DOMAIN kinds

TarInit ==
  /\ kinds \in UNION {[1..n -> Kind] : n \in 0..MaxFiles}
  /\ huge \in BOOLEAN
  /\ pc = "count" /\ next = 1
  /\ g = [i \in File |-> "none"]
  /\ token = {}
  /\ resultChan = << >> /\ chanClosed = FALSE
  /\ results = [i \in File |-> 0]
  /\ archive = << >>
  /\ res = "none"

Return(r) == pc' = "done" /\ res' = r

-----------------------------------------------------------------------------
\* Mutant: the threshold is counted one file too low.
CountOneLess ==
  /\ pc = "count"
  /\ pc' = IF Len(kinds) >= Threshold \/ huge THEN "list" ELSE "seq"
  /\ UNCHANGED <<kinds, huge, next, g, token, resultChan, chanClosed, results, archive, res>>

\* The first walk counts files and bytes and chooses how to go on.
Count ==
  /\ pc = "count"
  /\ pc' = IF Len(kinds) > Threshold \/ huge THEN "list" ELSE "seq"
  /\ UNCHANGED <<kinds, huge, next, g, token, resultChan, chanClosed, results, archive, res>>

\* A walk meets a directory it cannot read.
WalkFails ==
  /\ pc \in {"count", "list", "seq"}
  /\ Return("walk")
  /\ UNCHANGED <<kinds, huge, next, g, token, resultChan, chanClosed, results, archive>>

\* TarDirSequential: the callback for one file.
SeqFile ==
  /\ pc = "seq" /\ next \in File
  /\ \/ /\ kinds[next] \in {"bad", "changed"}
        /\ Return("file")
        /\ UNCHANGED <<next, archive>>
     \/ /\ kinds[next] \in {"data", "empty"}
        /\ archive' = Append(archive, next)
        /\ next' = next + 1
        /\ UNCHANGED <<pc, res>>
  /\ UNCHANGED <<kinds, huge, g, token, resultChan, chanClosed, results>>

SeqClose ==
  /\ pc = "seq" /\ next \notin File
  /\ Return("ok")
  /\ UNCHANGED <<kinds, huge, next, g, token, resultChan, chanClosed, results, archive>>

-----------------------------------------------------------------------------
(* TarDirConcurrent: the calling goroutine.                                *)

\* The second walk collects the files.
List ==
  /\ pc = "list"
  /\ pc' = "spawn"
  /\ UNCHANGED <<kinds, huge, next, g, token, resultChan, chanClosed, results, archive, res>>

Spawn ==
  /\ pc = "spawn" /\ next \in File
  /\ g' = [g EXCEPT ![next] = "start"]
  /\ next' = next + 1
  /\ UNCHANGED <<kinds, huge, pc, token, resultChan, chanClosed, results, archive, res>>

\* The closing goroutine is started and the results are awaited.
SpawnCloser ==
  /\ pc = "spawn" /\ next \notin File
  /\ pc' = "collect" /\ next' = 1
  /\ UNCHANGED <<kinds, huge, g, token, resultChan, chanClosed, results, archive, res>>

\* Mutant: results are kept in the order of their arrival.
StoreArriving(i) == [results EXCEPT ![Cardinality({k \in File : results[k] # 0}) + 1] = i]

Store(i) == [results EXCEPT ![i] = i]

\* A result: the first error ends TarDirConcurrent, whatever is still running.
Collect ==
  /\ pc = "collect" /\ resultChan # << >>
  /\ resultChan' = Tail(resultChan)
  /\ \/ /\ ~Head(resultChan).ok
        /\ Return("file")
        /\ UNCHANGED results
     \/ /\ Head(resultChan).ok
        /\ results' = Store(Head(resultChan).index)
        /\ UNCHANGED <<pc, res>>
  /\ UNCHANGED <<kinds, huge, next, g, token, chanClosed, archive>>

CollectEnd ==
  /\ pc = "collect" /\ resultChan = << >> /\ chanClosed
  /\ pc' = "write"
  /\ UNCHANGED <<kinds, huge, next, g, token, resultChan, chanClosed, results, archive, res>>

\* One entry of the archive; a result that is missing has no header.
Write ==
  /\ pc = "write" /\ next \in File
  /\ \/ /\ results[next] = 0
        /\ Return("panic")
        /\ UNCHANGED <<next, archive>>
     \/ /\ results[next] # 0 /\ kinds[results[next]] = "changed"
        /\ Return("file")
        /\ UNCHANGED <<next, archive>>
     \/ /\ results[next] # 0 /\ kinds[results[next]] # "changed"
        /\ archive' = Append(archive, results[next])
        /\ next' = next + 1
        /\ UNCHANGED <<pc, res>>
  /\ UNCHANGED <<kinds, huge, g, token, resultChan, chanClosed, results>>

CloseWriter ==
  /\ pc = "write" /\ next \notin File
  /\ Return("ok")
  /\ UNCHANGED <<kinds, huge, next, g, token, resultChan, chanClosed, results, archive>>

-----------------------------------------------------------------------------
(* The goroutines of the files.                                            *)

\* A slot of the semaphore if one is free; the goroutine goes on without one.
Acquire(i) ==
  /\ g[i] = "start"
  /\ g' = [g EXCEPT ![i] = "read"]
  /\ token' = IF Cardinality(token) < MaxWorkers THEN token \cup {i} ELSE token
  /\ UNCHANGED <<kinds, huge, pc, next, resultChan, chanClosed, results, archive, res>>

\* Mutant: the channel has room for one result.
CapacityOne == 1

\* The buffer of resultChan.
Capacity == Len(kinds)

\* The file is read and its result sent. An empty file leaves the result slice
\* nil, which counts as a failure to read it.
Send(i) ==
  /\ g[i] = "read" /\ Len(resultChan) < Capacity
  /\ g' = [g EXCEPT ![i] = "sent"]
  /\ resultChan' = Append(resultChan, [index |-> i, ok |-> kinds[i] \in {"data", "changed"}])
  /\ UNCHANGED <<kinds, huge, pc, next, token, chanClosed, results, archive, res>>

\* The deferred calls: the slot is given back and the WaitGroup told.
Exit(i) ==
  /\ g[i] = "sent"
  /\ g' = [g EXCEPT ![i] = "done"]
  /\ token' = token \ {i}
  /\ UNCHANGED <<kinds, huge, pc, next, resultChan, chanClosed, results, archive, res>>

Goroutine(i) == Acquire(i) \/ Send(i) \/ Exit(i)

\* Whether the closing goroutine exists: from the collection of results on.
Spawned == pc \notin {"count", "list", "seq", "spawn"} /\ \A i \in File : g[i] # "none"

\* wg.Wait and close(resultChan).
CloseChan ==
  /\ Spawned /\ ~chanClosed
  /\ \A i \in File : g[i] = "done"
  /\ chanClosed' = TRUE
  /\ UNCHANGED <<kinds, huge, pc, next, g, token, resultChan, results, archive, res>>

-----------------------------------------------------------------------------
Sequential == SeqFile \/ SeqClose
Concurrent == List \/ Spawn \/ SpawnCloser \/ Collect \/ CollectEnd \/ Write \/ CloseWriter
Caller == Count \/ WalkFails \/ Sequential \/ Concurrent

TarNext == Caller \/ CloseChan \/ \E i \in File : Goroutine(i)

TarSpec == TarInit /\ [][TarNext]_tarVars

\* Every goroutine is scheduled and reading a file ends.
TarFairSpec ==
  /\ TarSpec
  /\ WF_tarVars(Caller) /\ WF_tarVars(CloseChan)
  /\ \A i \in 1..MaxFiles : WF_tarVars(i \in File /\ Goroutine(i))

-----------------------------------------------------------------------------
TarTypeOK ==
  /\ kinds \in Seq(Kind) /\ huge \in BOOLEAN /\ chanClosed \in BOOLEAN
  /\ pc \in {"count", "seq", "list", "spawn", "collect", "write", "done"}
  /\ next \in 1..(Len(kinds) + 1)
  /\ g \in [File -> {"none", "start", "read", "sent", "done"}]
  /\ token \subseteq File /\ Cardinality(token) <= MaxWorkers
  /\ resultChan \in Seq([index : File, ok : BOOLEAN])
  /\ results \in [File -> File \cup {0}]
  /\ archive \in Seq(File)
  /\ res \in {"none", "ok", "walk", "file", "panic"}

\* Whatever order the goroutines finish in, an archive that is returned without
\* an error holds every file once, in the order of the walk, as the sequential
\* variant writes them, and none that could not be read; and the results are
\* complete when they are written (TarDirConcurrent).
ArchiveComplete ==
  /\ res # "panic"
  /\ res = "ok" => /\ archive = [i \in File |-> i]
                   /\ \A i \in File : kinds[i] \notin {"bad", "changed"}

\* TarDir returns, and no goroutine is left behind, also when the first error
\* makes it return while others are still reading: the channel has room for
\* every result.
NothingLeftBehind ==
  <>[](res # "none" /\ token = {} /\ \A i \in File : g[i] \in {"none", "done"})

\* TarDir fails on a file only where one cannot be read or has changed, or, as
\* soon as the size of the directory selects the concurrent variant, where one is
\* empty (TarDirConcurrent takes the nil content of an empty file for a failed
\* read; the sequential variant archives it).
FailureHasCause ==
  res = "file" =>
    \/ \E i \in File : kinds[i] \in {"bad", "changed"}
    \/ (Len(kinds) > Threshold \/ huge) /\ \E i \in File : kinds[i] = "empty"
=============================================================================
