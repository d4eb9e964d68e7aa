----------------------------- MODULE LogAggregator -----------------------------
(***************************************************************************)
(* The log aggregator of pkg/logger/terminal.go in "progress" format: the  *)
(* writers' channel, the batch processor with its timer, the channel of    *)
(* batches, the workers that file messages under their routine, the        *)
(* display loop, and Flush.                                                *)
(*                                                                         *)
(* A message is [r, n]: the n-th of routine r; one of them is its          *)
(* SuccessMessage or FailedMessage, sent by the step that waited for the   *)
(* container. The engine joins its steps before the root command calls     *)
(* Flush, but nobody joins the goroutine that streams a container's lines  *)
(* (streamContainerLogs): its last ones may come at any time, and one that *)
(* meets the closed channel is a panic, which ends the process.            *)
(***************************************************************************)
EXTENDS Integers, SequencesExt

CONSTANTS
  Routine,     \* the routine ids that write
  Failing,     \* the routines that end with FailedMessage
  Ending,      \* per routine: which message is its Success- or FailedMessage
  Worker,      \* the workers (processWorkers)
  MaxMsg,      \* bound: how many messages each routine writes
  ChanCap,     \* capacity of logChannel
  BatchSize,   \* batchSize
  ProcCap,     \* capacity of processChan
  MaxLogLines  \* maxLogLines

ASSUME LogAssumption ==
  /\ Failing \subseteq Routine
  /\ MaxMsg \in [Routine -> Nat \ {0}] /\ Ending \in [Routine -> Nat \ {0}]
  /\ \A r \in Routine : Ending[r] <= MaxMsg[r]
  /\ {ChanCap, BatchSize, ProcCap, MaxLogLines} \subseteq Nat \ {0}

VARIABLES
  sent,         \* per routine: how many messages it has written
  logChannel,   \* the writers' channel
  closed,       \* whether logChannel is closed
  shutdown,     \* whether the shutdown channel is closed
  batch,        \* the batch processor's current batch
  timer,        \* whether its timer is running
  bp,           \* where the batch processor is
  processChan,  \* the channel of batches; closed when bp = "closed"
  wpc,          \* per worker: where it is
  work,         \* per worker: what is left of its batch
  touched,      \* per worker: routineOrderMap, as far as it is not dealt with
  cur,          \* per worker: the routine it is about to append to routineOrder
  snap,         \* per worker: the routineOrder it read for that
  entries,      \* logMap: per routine, its lines and how it ended
  routineOrder, \* the order of display, which no lock protects
  display,      \* where the display loop is
  frame,        \* the routines of the frame the display renders
  flush,        \* where Flush is
  handled,      \* history: the messages the workers have filed
  process       \* whether the process runs, has panicked or has exited

logVars == <<sent, logChannel, closed>>
bpVars == <<batch, timer, bp>>
workerVars == <<wpc, work, touched, cur, snap, entries, routineOrder, handled>>
displayVars == <<display, frame>>
vars == <<logVars, shutdown, bpVars, processChan, workerVars, displayVars, flush,
          process>>

Message == UNION {[r : {r}, n : 1..MaxMsg[r]] : r \in Routine}

Init ==
  /\ sent = [r \in Routine |-> 0]
  /\ logChannel = << >> /\ closed = FALSE
  /\ shutdown = FALSE
  /\ batch = << >> /\ timer = FALSE /\ bp = "select"
  /\ processChan = << >>
  /\ wpc = [w \in Worker |-> "recv"]
  /\ work = [w \in Worker |-> << >>]
  /\ touched = [w \in Worker |-> {}]
  /\ cur = [w \in Worker |-> {}]
  /\ snap = [w \in Worker |-> << >>]
  /\ entries = [r \in Routine |-> [lines |-> << >>, end |-> "none"]]
  /\ routineOrder = << >>
  /\ display = "loop" /\ frame = {}
  /\ flush = "idle"
  /\ handled = {}
  /\ process = "up"

-----------------------------------------------------------------------------
\* logMessage: the channel blocks the writer when it is full.
LogMessage(r) ==
  /\ sent[r] < MaxMsg[r] /\ Len(logChannel) < ChanCap /\ ~closed
  /\ sent' = [sent EXCEPT ![r] = @ + 1]
  /\ logChannel' = Append(logChannel, [r |-> r, n |-> sent[r] + 1])
  /\ UNCHANGED <<closed, shutdown, bpVars, processChan, workerVars, displayVars, flush>>

-----------------------------------------------------------------------------
(* BatchProcessor.start: one select loop.                                  *)

\* Mutant: nothing starts the timer.
BpReceiveNoTimer ==
  /\ bp = "select" /\ logChannel # << >>
  /\ logChannel' = Tail(logChannel)
  /\ batch' = Append(batch, Head(logChannel))
  /\ bp' = IF Len(batch') >= BatchSize THEN "send" ELSE "select"
  /\ UNCHANGED <<sent, closed, shutdown, timer, processChan, workerVars, displayVars, flush>>

\* A message: the first of a batch starts the timer, which then runs as long as
\* the batch is neither full nor sent; a full batch is sent and the timer stopped.
BpReceive ==
  /\ bp = "select" /\ logChannel # << >>
  /\ logChannel' = Tail(logChannel)
  /\ batch' = Append(batch, Head(logChannel))
  /\ bp' = IF Len(batch') >= BatchSize THEN "send" ELSE "select"
  /\ timer' = (Len(batch') < BatchSize)
  /\ UNCHANGED <<sent, closed, shutdown, processChan, workerVars, displayVars, flush>>

BpTimeout ==
  /\ bp = "select" /\ timer
  /\ timer' = FALSE
  /\ bp' = IF batch = << >> THEN "select" ELSE "send"
  /\ UNCHANGED <<logVars, shutdown, batch, processChan, workerVars, displayVars, flush>>

\* The channel is closed and empty, or shutdown is signalled, whatever is still
\* in the channel: the rest of the batch is sent and the loop ends.
BpStop ==
  /\ bp = "select" /\ (shutdown \/ (closed /\ logChannel = << >>))
  /\ bp' = IF batch = << >> THEN "closed" ELSE "last"
  /\ UNCHANGED <<logVars, shutdown, batch, timer, processChan, workerVars, displayVars, flush>>

\* Mutant: the batch is sent and kept.
BpSendKeep ==
  /\ bp \in {"send", "last"} /\ Len(processChan) < ProcCap
  /\ processChan' = Append(processChan, batch)
  /\ bp' = IF bp = "send" THEN "select" ELSE "closed"
  /\ UNCHANGED <<logVars, shutdown, batch, timer, workerVars, displayVars, flush>>

\* processChan <- batch, which blocks while the channel is full.
BpSend ==
  /\ bp \in {"send", "last"} /\ Len(processChan) < ProcCap
  /\ processChan' = Append(processChan, batch)
  /\ batch' = << >>
  /\ bp' = IF bp = "send" THEN "select" ELSE "closed"
  /\ UNCHANGED <<logVars, shutdown, timer, workerVars, displayVars, flush>>

-----------------------------------------------------------------------------
(* The workers: processBatchWorker and processBatch.                       *)

TakeBatch(w) ==
  /\ wpc[w] = "recv" /\ processChan # << >>
  /\ work' = [work EXCEPT ![w] = Head(processChan)]
  /\ processChan' = Tail(processChan)
  /\ wpc' = [wpc EXCEPT ![w] = "batch"]
  /\ UNCHANGED <<logVars, shutdown, bpVars, touched, cur, snap, entries, routineOrder, handled,
                 displayVars, flush>>

WorkerExit(w) ==
  /\ wpc[w] = "recv" /\ processChan = << >> /\ bp = "closed"
  /\ wpc' = [wpc EXCEPT ![w] = "exit"]
  /\ UNCHANGED <<logVars, shutdown, bpVars, processChan, work, touched, cur, snap, entries,
                 routineOrder, handled, displayVars, flush>>

\* Mutant: room is made one line too late.
AddLineLate(lines, n) == Append(IF Len(lines) > MaxLogLines THEN Tail(lines) ELSE lines, n)

\* addMessage keeps the latest maxLogLines lines.
AddLine(lines, n) == Append(IF Len(lines) >= MaxLogLines THEN Tail(lines) ELSE lines, n)

\* One message: its line, and the end of its routine if it says so.
FileMessage(w) ==
  LET m == Head(work[w]) IN
  /\ wpc[w] = "batch" /\ work[w] # << >>
  /\ entries' = [entries EXCEPT ![m.r] =
       [lines |-> AddLine(@.lines, m.n),
        end |-> IF m.n # Ending[m.r] THEN @.end ELSE IF m.r \in Failing THEN "failed" ELSE "done"]]
  /\ work' = [work EXCEPT ![w] = Tail(@)]
  /\ touched' = [touched EXCEPT ![w] = @ \cup {m.r}]
  /\ handled' = handled \cup {m}
  /\ UNCHANGED <<logVars, shutdown, bpVars, processChan, wpc, cur, snap, routineOrder, displayVars, flush>>

\* After the batch, each routine of it is looked up in routineOrder ...
CheckOrder(w, r) ==
  /\ wpc[w] = "batch" /\ work[w] = << >> /\ r \in touched[w]
  /\ touched' = [touched EXCEPT ![w] = @ \ {r}]
  /\ IF r \in ToSet(routineOrder)
     THEN UNCHANGED <<wpc, cur>>
     ELSE wpc' = [wpc EXCEPT ![w] = "read"] /\ cur' = [cur EXCEPT ![w] = {r}]
  /\ UNCHANGED <<logVars, shutdown, bpVars, processChan, work, snap, entries, routineOrder, handled,
                 displayVars, flush>>

\* ... and appended if it is not there: a read and a write, with no lock.
ReadOrder(w) ==
  /\ wpc[w] = "read"
  /\ snap' = [snap EXCEPT ![w] = routineOrder]
  /\ wpc' = [wpc EXCEPT ![w] = "write"]
  /\ UNCHANGED <<logVars, shutdown, bpVars, processChan, work, touched, cur, entries, routineOrder,
                 handled, displayVars, flush>>

WriteOrder(w) ==
  /\ wpc[w] = "write"
  /\ \E r \in cur[w] : routineOrder' = Append(snap[w], r)
  /\ wpc' = [wpc EXCEPT ![w] = "batch"]
  /\ cur' = [cur EXCEPT ![w] = {}]
  /\ snap' = [snap EXCEPT ![w] = << >>]
  /\ UNCHANGED <<logVars, shutdown, bpVars, processChan, work, touched, entries, handled, displayVars, flush>>

BatchDone(w) ==
  /\ wpc[w] = "batch" /\ work[w] = << >> /\ touched[w] = {}
  /\ wpc' = [wpc EXCEPT ![w] = "recv"]
  /\ UNCHANGED <<logVars, shutdown, bpVars, processChan, work, touched, cur, snap, entries,
                 routineOrder, handled, displayVars, flush>>

-----------------------------------------------------------------------------
(* displayLoop and updateDisplay: the ended routines first, whose lines are *)
(* dropped when they succeeded, then the others.                            *)

FirstPass(next) ==
  /\ display = "loop"
  /\ frame' = {r \in ToSet(routineOrder) : entries[r].end # "none"}
  /\ entries' = [r \in Routine |-> IF r \in ToSet(routineOrder) /\ entries[r].end = "done"
                                   THEN [entries[r] EXCEPT !.lines = << >>] ELSE entries[r]]
  /\ display' = next
  /\ UNCHANGED <<logVars, shutdown, bpVars, processChan, wpc, work, touched, cur, snap,
                 routineOrder, handled, flush>>

Tick == FirstPass("second")

LastUpdate == shutdown /\ FirstPass("last")

\* Mutant: the display loop ends without telling Flush.
SecondPassSilent ==
  /\ display \in {"second", "last"}
  /\ frame' = frame \cup {r \in ToSet(routineOrder) : entries[r].end = "none"}
  /\ display' = IF display = "second" THEN "loop" ELSE "exit"
  /\ UNCHANGED <<logVars, shutdown, bpVars, processChan, workerVars, flush>>

\* The other routines; after the final update the loop announces the end.
SecondPass ==
  /\ display \in {"second", "last"}
  /\ frame' = frame \cup {r \in ToSet(routineOrder) : entries[r].end = "none"}
  /\ display' = IF display = "second" THEN "loop" ELSE "notify"
  /\ UNCHANGED <<logVars, shutdown, bpVars, processChan, workerVars, flush>>

-----------------------------------------------------------------------------
(* Flush.                                                                  *)

\* The root command flushes when the engine has joined every step: each routine
\* has had its ending, though its container's lines may still be on their way.
FlushShutdown ==
  /\ flush = "idle" /\ \A r \in Routine : sent[r] >= Ending[r]
  /\ shutdown' = TRUE
  /\ flush' = "close"
  /\ UNCHANGED <<logVars, bpVars, processChan, workerVars, displayVars>>

FlushClose ==
  /\ flush = "close"
  /\ closed' = TRUE
  /\ flush' = "wait"
  /\ UNCHANGED <<sent, logChannel, shutdown, bpVars, processChan, workerVars, displayVars>>

\* The display loop's send on flushDone meets Flush's receive.
FlushDone ==
  /\ flush = "wait" /\ display = "notify"
  /\ flush' = "done"
  /\ display' = "exit"
  /\ UNCHANGED <<logVars, shutdown, bpVars, processChan, workerVars, frame>>

-----------------------------------------------------------------------------
(* The process.                                                            *)

\* streamContainerLogs sends a line to the channel that Flush has closed, or is
\* still blocked on it: a panic in a goroutine, which ends the process.
LateLine ==
  /\ process = "up" /\ closed /\ \E r \in Routine : sent[r] < MaxMsg[r]
  /\ process' = "panicked"
  /\ UNCHANGED <<logVars, shutdown, bpVars, processChan, workerVars, displayVars, flush>>

\* os.Exit of a failing step or build at any time before Flush, or the end of the
\* command after it: neither waits for the workers.
EndOfProcess ==
  /\ process = "up" /\ flush \in {"idle", "done"}
  /\ process' = "exited"
  /\ UNCHANGED <<logVars, shutdown, bpVars, processChan, workerVars, displayVars, flush>>

-----------------------------------------------------------------------------
Up == process = "up" /\ UNCHANGED process

WriterStep == Up /\ \E r \in Routine : LogMessage(r)
BpStep == Up /\ (BpReceive \/ BpTimeout \/ BpStop \/ BpSend)
WorkerStep(w) ==
  /\ Up
  /\ \/ TakeBatch(w) \/ WorkerExit(w) \/ FileMessage(w) \/ ReadOrder(w) \/ WriteOrder(w) \/ BatchDone(w)
     \/ \E r \in Routine : CheckOrder(w, r)
FinalUpdate == Up /\ LastUpdate
Display == Up /\ SecondPass
FlushStep == Up /\ (FlushClose \/ FlushDone)

Next ==
  \/ WriterStep
  \/ BpStep
  \/ \E w \in Worker : WorkerStep(w)
  \/ (Up /\ Tick) \/ FinalUpdate \/ Display
  \/ (Up /\ FlushShutdown) \/ FlushStep
  \/ LateLine \/ EndOfProcess

Spec == Init /\ [][Next]_vars

\* While the process runs every goroutine is scheduled; a select with several
\* ready cases takes each of them in the end (Go chooses at random), so the final
\* update is not starved by the ticker. Nothing makes a writer write, the root
\* command flush or the process end.
FairSpec ==
  /\ Spec
  /\ WF_vars(BpStep) /\ WF_vars(Display) /\ WF_vars(FlushStep)
  /\ SF_vars(FinalUpdate)
  /\ \A w \in Worker : WF_vars(WorkerStep(w))

-----------------------------------------------------------------------------
TypeOK ==
  /\ sent \in [Routine -> Nat] /\ \A r \in Routine : sent[r] <= MaxMsg[r]
  /\ logChannel \in Seq(Message) /\ Len(logChannel) <= ChanCap
  /\ batch \in Seq(Message) /\ Len(batch) <= BatchSize
  /\ bp \in {"select", "send", "last", "closed"}
  /\ processChan \in Seq(Seq(Message)) /\ Len(processChan) <= ProcCap
  /\ {closed, shutdown, timer} \subseteq BOOLEAN
  /\ wpc \in [Worker -> {"recv", "batch", "read", "write", "exit"}]
  /\ work \in [Worker -> Seq(Message)]
  /\ touched \in [Worker -> SUBSET Routine] /\ cur \in [Worker -> SUBSET Routine]
  /\ snap \in [Worker -> Seq(Routine)] /\ routineOrder \in Seq(Routine)
  /\ entries \in [Routine -> [lines : Seq(Nat), end : {"none", "done", "failed"}]]
  /\ \A r \in Routine : Len(entries[r].lines) <= MaxLogLines
  /\ display \in {"loop", "second", "last", "notify", "exit"} /\ frame \subseteq Routine
  /\ flush \in {"idle", "close", "wait", "done"}
  /\ handled \subseteq Message
  /\ process \in {"up", "panicked", "exited"}

Written == {m \in Message : m.n <= sent[m.r]}

\* The places a message is in: a channel, the batch, a queued batch, a worker's
\* hands, or under its routine.
In(at, i, s, m) == {<<at, i, k>> : k \in {l \in DOMAIN s : s[l] = m}}
Places(m) ==
  In("channel", 0, logChannel, m) \cup In("batch", 0, batch, m)
    \cup (UNION {In("queue", i, processChan[i], m) : i \in DOMAIN processChan})
    \cup (UNION {In("worker", w, work[w], m) : w \in Worker})
    \cup (IF m \in handled THEN {<<"filed", 0, 0>>} ELSE {})

\* Every written message is in exactly one place. No order of full batches,
\* timeouts, shutdown and workers loses or doubles one: what is never filed is
\* still in the writers' channel.
Conserved ==
  \A m \in Message :
    IF m \in Written THEN \E p \in Places(m) : Places(m) = {p} ELSE Places(m) = {}

\* Until a shutdown or the end of the process, every message that is written is
\* filed, also the last ones of a batch that never fills up.
Delivered ==
  \A m \in Message : (m \in Written) ~> (m \in handled \/ shutdown \/ process = "exited")

\* Flush comes back, whatever the batch processor and the workers are doing and
\* wherever the shutdown meets them. Only a line that a container's stream still
\* had to send when the channel was closed can keep it from that, and ends the
\* process.
FlushReturns ==
  shutdown ~> (flush = "done" \/ (process = "panicked" /\ \E r \in Routine : Ending[r] <= sent[r] /\ sent[r] < MaxMsg[r]))

\* Flush waits for all messages to be processed, as its comment says.
FlushWaitsForAll == flush = "done" => Written \subseteq handled

\* A routine whose messages are filed is in the order of display once the workers
\* are idle: what the comment asks for ("this needs to be synchronized").
EveryRoutineShown ==
  (\A w \in Worker : wpc[w] \in {"recv", "exit"}) => {m.r : m \in handled} \subseteq ToSet(routineOrder)
=============================================================================
