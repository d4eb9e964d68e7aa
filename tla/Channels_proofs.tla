---------------------------- MODULE Channels_proofs ----------------------------
(***************************************************************************)
(* Proofs about the two components that hand work to goroutines over       *)
(* channels.                                                               *)
(*                                                                         *)
(* The log aggregator, for any routines, workers, capacities and batch     *)
(* sizes: the types, and that every written message is in exactly one      *)
(* place.  Five actions move messages (logMessage, the receive and the     *)
(* send of the batch processor, the receive of a worker, the filing); the  *)
(* argument compares where a message is with where it was.                 *)
(*                                                                         *)
(* TarDir, for any number of files and workers and any threshold: every    *)
(* archive that it returns is complete and in the order of the walk, and   *)
(* whenever it fails there is a cause for it.                              *)
(***************************************************************************)
EXTENDS LogAggregator, TarDir, TLAPS, SequenceTheorems, FiniteSetTheorems

------------------------------------------------------------------------------
(* The invariant *)

\* The batch has room while the batch processor waits for messages.
Room == bp = "select" => Len(batch) < BatchSize

\* A worker that waits for a batch, or has ended, holds none.
EmptyHanded == \A w \in Worker : wpc[w] \in {"recv", "exit"} => work[w] = << >>

\* Whether m is at the place <<a, i, k>>.
At(a, i, k, m) ==
  \/ a = "channel" /\ i = 0 /\ k \in 1..Len(logChannel) /\ logChannel[k] = m
  \/ a = "batch" /\ i = 0 /\ k \in 1..Len(batch) /\ batch[k] = m
  \/ a = "queue" /\ i \in 1..Len(processChan) /\ k \in 1..Len(processChan[i]) /\ processChan[i][k] = m
  \/ a = "worker" /\ i \in Worker /\ k \in 1..Len(work[i]) /\ work[i][k] = m
  \/ a = "filed" /\ i = 0 /\ k = 0 /\ m \in handled

\* A message is somewhere if it is written, and nowhere else.
Once(m) ==
  /\ m \in Written <=> \E a, i, k : At(a, i, k, m)
  /\ \A a, i, k, b, j, l : At(a, i, k, m) /\ At(b, j, l, m) => a = b /\ i = j /\ k = l

IInv == TypeOK /\ Room /\ EmptyHanded /\ \A m \in Message : Once(m)

------------------------------------------------------------------------------
(* What the channels and batches hold after a receive or a send *)

LEMMA HeadTail ==
  ASSUME NEW S, NEW q \in Seq(S), q # << >>
  PROVE  /\ Head(q) \in S /\ Head(q) = q[1] /\ Len(q) \in Nat \ {0}
         /\ Tail(q) \in Seq(S) /\ Len(Tail(q)) = Len(q) - 1
         /\ \A k \in 1..(Len(q) - 1) : Tail(q)[k] = q[k + 1]
<1>1. Len(q) \in Nat \ {0}
  BY EmptySeq
<1>2. Head(q) \in S /\ Tail(q) \in Seq(S) /\ Len(Tail(q)) = Len(q) - 1
  BY HeadTailProperties
<1>3. \A k \in 1..Len(Tail(q)) : Tail(q)[k] = q[k + 1]
  BY HeadTailProperties
<1> QED
  BY <1>1, <1>2, <1>3

LEMMA Appended ==
  ASSUME NEW S, NEW q \in Seq(S), NEW e \in S
  PROVE  /\ Append(q, e) \in Seq(S) /\ Len(Append(q, e)) = Len(q) + 1 /\ Len(q) \in Nat
         /\ \A k \in 1..(Len(q) + 1) : Append(q, e)[k] = IF k = Len(q) + 1 THEN e ELSE q[k]
OBVIOUS

\* What TypeOK says of the sequences.
LEMMA Sequences ==
  ASSUME TypeOK
  PROVE  /\ DOMAIN logChannel = 1..Len(logChannel) /\ DOMAIN batch = 1..Len(batch)
         /\ DOMAIN processChan = 1..Len(processChan)
         /\ \A i \in DOMAIN processChan : DOMAIN processChan[i] = 1..Len(processChan[i])
         /\ \A w \in Worker : DOMAIN work[w] = 1..Len(work[w])
BY LenProperties, ElementOfSeq DEF TypeOK

LEMMA FiveSets ==
  ASSUME NEW A, NEW B, NEW C, NEW D, NEW E, NEW p
  PROVE  p \in A \cup B \cup C \cup D \cup E <=> p \in A \/ p \in B \/ p \in C \/ p \in D \/ p \in E
OBVIOUS

\* The places of a message, as the model and as the proof states them.
LEMMA PlaceIsAt ==
  ASSUME TypeOK, NEW m \in Message
  PROVE  /\ \A p \in Places(m) : \E a, i, k : p = <<a, i, k>> /\ At(a, i, k, m)
         /\ \A a, i, k : At(a, i, k, m) => <<a, i, k>> \in Places(m)
<1> DEFINE C == In("channel", 0, logChannel, m)
           B == In("batch", 0, batch, m)
           Q == UNION {In("queue", i, processChan[i], m) : i \in DOMAIN processChan}
           W == UNION {In("worker", w, work[w], m) : w \in Worker}
           F == IF m \in handled THEN {<<"filed", 0, 0>>} ELSE {}
           InC(a, i, k) == a = "channel" /\ i = 0 /\ k \in 1..Len(logChannel) /\ logChannel[k] = m
           InB(a, i, k) == a = "batch" /\ i = 0 /\ k \in 1..Len(batch) /\ batch[k] = m
           InQ(a, i, k) == /\ a = "queue" /\ i \in 1..Len(processChan) /\ k \in 1..Len(processChan[i])
                           /\ processChan[i][k] = m
           InW(a, i, k) == a = "worker" /\ i \in Worker /\ k \in 1..Len(work[i]) /\ work[i][k] = m
           InF(a, i, k) == a = "filed" /\ i = 0 /\ k = 0 /\ m \in handled
<1>1. /\ \A p \in C : \E a, i, k : p = <<a, i, k>> /\ InC(a, i, k)
      /\ \A a, i, k : InC(a, i, k) => <<a, i, k>> \in C
  BY Sequences DEF In
<1>2. /\ \A p \in B : \E a, i, k : p = <<a, i, k>> /\ InB(a, i, k)
      /\ \A a, i, k : InB(a, i, k) => <<a, i, k>> \in B
  BY Sequences DEF In
<1>3. /\ \A p \in Q : \E a, i, k : p = <<a, i, k>> /\ InQ(a, i, k)
      /\ \A a, i, k : InQ(a, i, k) => <<a, i, k>> \in Q
  <2>1. ASSUME NEW p \in Q
        PROVE  \E a, i, k : p = <<a, i, k>> /\ InQ(a, i, k)
    <3>1. PICK i \in DOMAIN processChan : p \in In("queue", i, processChan[i], m)
      BY <2>1
    <3> QED
      BY <3>1, Sequences DEF In
  <2>2. ASSUME NEW a, NEW i, NEW k, InQ(a, i, k)
        PROVE  <<a, i, k>> \in Q
    <3>1. i \in DOMAIN processChan /\ <<a, i, k>> \in In("queue", i, processChan[i], m)
      BY <2>2, Sequences DEF In
    <3> QED
      BY <3>1
  <2> QED
    BY <2>1, <2>2
<1>4. /\ \A p \in W : \E a, i, k : p = <<a, i, k>> /\ InW(a, i, k)
      /\ \A a, i, k : InW(a, i, k) => <<a, i, k>> \in W
  <2>1. ASSUME NEW p \in W
        PROVE  \E a, i, k : p = <<a, i, k>> /\ InW(a, i, k)
    <3>1. PICK w \in Worker : p \in In("worker", w, work[w], m)
      BY <2>1
    <3> QED
      BY <3>1, Sequences DEF In
  <2>2. ASSUME NEW a, NEW i, NEW k, InW(a, i, k)
        PROVE  <<a, i, k>> \in W
    <3>1. i \in Worker /\ <<a, i, k>> \in In("worker", i, work[i], m)
      BY <2>2, Sequences DEF In
    <3> QED
      BY <3>1
  <2> QED
    BY <2>1, <2>2
<1>5. /\ \A p \in F : \E a, i, k : p = <<a, i, k>> /\ InF(a, i, k)
      /\ \A a, i, k : InF(a, i, k) => <<a, i, k>> \in F
  OBVIOUS
<1>6. \A a, i, k : At(a, i, k, m) <=> InC(a, i, k) \/ InB(a, i, k) \/ InQ(a, i, k) \/ InW(a, i, k) \/ InF(a, i, k)
  BY DEF At
<1>7. Places(m) = C \cup B \cup Q \cup W \cup F
  BY DEF Places
<1> HIDE DEF C, B, Q, W, F, InC, InB, InQ, InW, InF
<1>8. \A p : p \in Places(m) <=> p \in C \/ p \in B \/ p \in Q \/ p \in W \/ p \in F
  BY ONLY <1>7, FiveSets
<1> QED
  BY ONLY <1>1, <1>2, <1>3, <1>4, <1>5, <1>6, <1>8

LEMMA OnceConserves == TypeOK /\ (\A m \in Message : Once(m)) => Conserved
<1> SUFFICES ASSUME TypeOK, \A m \in Message : Once(m), NEW m \in Message
             PROVE  IF m \in Written THEN \E p \in Places(m) : Places(m) = {p} ELSE Places(m) = {}
  BY DEF Conserved
<1> DEFINE P == Places(m)
<1>1. /\ \A p \in P : \E a, i, k : p = <<a, i, k>> /\ At(a, i, k, m)
      /\ \A a, i, k : At(a, i, k, m) => <<a, i, k>> \in P
  BY PlaceIsAt
<1> HIDE DEF P
<1>2. \A p, q \in P : p = q
  BY <1>1 DEF Once
<1>3. m \in Written <=> P # {}
  BY <1>1 DEF Once
<1> QED
  BY <1>2, <1>3 DEF P

------------------------------------------------------------------------------
(* The moves *)

LEMMA Messages ==
  ASSUME NEW m
  PROVE  m \in Message <=> /\ m.r \in Routine /\ m.n \in 1..MaxMsg[m.r]
                           /\ m = [r |-> m.r, n |-> m.n]
BY DEF Message

LEMMA Kinds ==
  ASSUME NEW m, NEW a, NEW i, NEW k, At(a, i, k, m)
  PROVE  /\ a \in {"channel", "batch", "queue", "worker", "filed"}
         /\ a \in {"channel", "batch", "filed"} => i = 0
BY DEF At

\* Nothing moves.
LEMMA Still ==
  ASSUME UNCHANGED <<sent, logChannel, batch, processChan, work, handled>>, NEW m \in Message, Once(m)
  PROVE  Once(m)'
BY DEF Once, At, Written

\* logMessage: the message was nowhere, and is at the end of the channel.
LEMMA MoveLog ==
  ASSUME TypeOK, NEW r \in Routine, LogMessage(r), NEW m \in Message, Once(m)
  PROVE  Once(m)'
<1> DEFINE e == [r |-> r, n |-> sent[r] + 1]
           end == Len(logChannel) + 1
<1>1. e \in Message /\ e.r = r /\ e.n = sent[r] + 1 /\ sent[r] \in Nat
  <2>1. sent[r] \in Nat /\ sent[r] < MaxMsg[r] /\ MaxMsg[r] \in Nat
    BY LogAssumption DEF LogMessage, TypeOK
  <2>2. e.r = r /\ e.n = sent[r] + 1 /\ e = [r |-> e.r, n |-> e.n]
    OBVIOUS
  <2> QED
    BY <2>1, <2>2, Messages
<1>2. /\ logChannel' = Append(logChannel, e) /\ sent' = [sent EXCEPT ![r] = @ + 1]
      /\ UNCHANGED <<batch, processChan, work, handled>>
  BY DEF LogMessage, bpVars, workerVars
<1> HIDE DEF e
<1>3. m \in Written' <=> m \in Written \/ m = e
  <2>1. /\ m.r \in Routine /\ m.n \in Nat /\ m = [r |-> m.r, n |-> m.n]
        /\ e = [r |-> e.r, n |-> e.n]
    BY <1>1, Messages, LogAssumption
  <2>2. sent'[m.r] = IF m.r = r THEN sent[r] + 1 ELSE sent[m.r]
    BY <1>2, <2>1 DEF TypeOK
  <2>3. sent[m.r] \in Nat
    BY <2>1 DEF TypeOK
  <2>4. m = e <=> m.r = r /\ m.n = sent[r] + 1
    BY ONLY <1>1, <2>1
  <2> QED
    BY <1>1, <2>1, <2>2, <2>3, <2>4 DEF Written
<1>4. e \notin Written
  BY <1>1 DEF Written
<1>5. /\ Len(logChannel') = end /\ Len(logChannel) \in Nat
      /\ \A k \in 1..end : logChannel'[k] = IF k = end THEN e ELSE logChannel[k]
  BY <1>1, <1>2, Appended DEF TypeOK
<1>6. \A a, i, k : At(a, i, k, m)' <=> At(a, i, k, m) \/ (a = "channel" /\ i = 0 /\ k = end /\ m = e)
  BY <1>2, <1>5 DEF At
<1>7. ~At("channel", 0, end, m)
  BY <1>5 DEF At
<1> QED
  BY <1>3, <1>4, <1>6, <1>7 DEF Once

\* The batch processor's receive: from the head of the channel to the end of
\* the batch.
LEMMA MoveReceive ==
  ASSUME TypeOK, BpReceive, NEW m \in Message, Once(m)
  PROVE  Once(m)'
<1> DEFINE end == Len(batch) + 1
<1>1. /\ logChannel # << >> /\ logChannel' = Tail(logChannel)
      /\ batch' = Append(batch, Head(logChannel))
      /\ UNCHANGED <<sent, processChan, work, handled>>
  BY DEF BpReceive, workerVars
<1>2. /\ Head(logChannel) \in Message /\ Head(logChannel) = logChannel[1]
      /\ Len(logChannel) \in Nat \ {0} /\ Len(logChannel') = Len(logChannel) - 1
      /\ \A k \in 1..(Len(logChannel) - 1) : logChannel'[k] = logChannel[k + 1]
  BY <1>1, HeadTail DEF TypeOK
<1>3. /\ Len(batch') = end /\ Len(batch) \in Nat
      /\ \A k \in 1..end : batch'[k] = IF k = end THEN logChannel[1] ELSE batch[k]
  BY <1>1, <1>2, Appended DEF TypeOK
<1>4. m \in Written' <=> m \in Written
  BY <1>1 DEF Written
<1>5. \A k : At("channel", 0, k, m)' <=> k \in Nat \ {0} /\ At("channel", 0, k + 1, m)
  BY <1>2 DEF At
<1>6. \A k : At("batch", 0, k, m)' <=> \/ At("batch", 0, k, m) /\ k # end
                                       \/ k = end /\ At("channel", 0, 1, m)
  BY <1>2, <1>3 DEF At
<1>7. \A a, i, k : a \notin {"channel", "batch"} => (At(a, i, k, m)' <=> At(a, i, k, m))
  BY <1>1 DEF At
<1>8. /\ \A k : At("channel", 0, k, m) => k = 1 \/ (k - 1 \in Nat \ {0} /\ (k - 1) + 1 = k)
      /\ \A k : At("batch", 0, k, m) => k # end
  BY <1>2, <1>3 DEF At
<1>9. \A a, i, k : At(a, i, k, m)' /\ a \in {"channel", "batch"} => i = 0
  BY DEF At
<1>10. (\E a, i, k : At(a, i, k, m)') <=> \E a, i, k : At(a, i, k, m)
  BY ONLY <1>5, <1>6, <1>7, <1>8, <1>9, Kinds
<1>11. ASSUME NEW a, NEW i, NEW k, NEW b, NEW j, NEW l, At(a, i, k, m)', At(b, j, l, m)'
       PROVE  a = b /\ i = j /\ k = l
  BY <1>5, <1>6, <1>7, <1>8, <1>9, <1>11 DEF Once
<1> QED
  BY <1>4, <1>10, <1>11 DEF Once

\* The batch processor's send: the batch goes to the end of the queue.
LEMMA MoveSend ==
  ASSUME TypeOK, BpSend, NEW m \in Message, Once(m)
  PROVE  Once(m)'
<1> DEFINE end == Len(processChan) + 1
<1>1. /\ processChan' = Append(processChan, batch) /\ batch' = << >>
      /\ UNCHANGED <<sent, logChannel, work, handled>>
  BY DEF BpSend, logVars, workerVars
<1>2. /\ Len(processChan') = end /\ Len(processChan) \in Nat
      /\ \A i \in 1..end : processChan'[i] = IF i = end THEN batch ELSE processChan[i]
  BY <1>1, Appended DEF TypeOK
<1>3. Len(batch') = 0
  BY <1>1
<1>4. m \in Written' <=> m \in Written
  BY <1>1 DEF Written
<1>5. \A i, k : At("queue", i, k, m)' <=> \/ At("queue", i, k, m) /\ i # end
                                          \/ i = end /\ At("batch", 0, k, m)
  BY <1>2 DEF At
<1>6. \A i, k : ~At("batch", i, k, m)' /\ (At("queue", i, k, m) => i # end)
  BY <1>2, <1>3 DEF At
<1>7. \A a, i, k : a \notin {"queue", "batch"} => (At(a, i, k, m)' <=> At(a, i, k, m))
  BY <1>1 DEF At
<1>8. (\E a, i, k : At(a, i, k, m)') <=> \E a, i, k : At(a, i, k, m)
  BY ONLY <1>5, <1>6, <1>7, Kinds
<1>9. ASSUME NEW a, NEW i, NEW k, NEW b, NEW j, NEW l, At(a, i, k, m)', At(b, j, l, m)'
      PROVE  a = b /\ i = j /\ k = l
  BY <1>5, <1>6, <1>7, <1>9 DEF Once
<1> QED
  BY <1>4, <1>8, <1>9 DEF Once

\* A worker's receive: the first batch of the queue becomes its work.
LEMMA MoveTake ==
  ASSUME TypeOK, EmptyHanded, NEW w \in Worker, TakeBatch(w), NEW m \in Message, Once(m)
  PROVE  Once(m)'
<1>1. /\ processChan # << >> /\ processChan' = Tail(processChan)
      /\ work' = [work EXCEPT ![w] = Head(processChan)]
      /\ UNCHANGED <<sent, logChannel, batch, handled>>
  BY DEF TakeBatch, logVars, bpVars
<1>2. /\ Head(processChan) = processChan[1]
      /\ Len(processChan) \in Nat \ {0} /\ Len(processChan') = Len(processChan) - 1
      /\ \A i \in 1..(Len(processChan) - 1) : processChan'[i] = processChan[i + 1]
  BY <1>1, HeadTail DEF TypeOK
<1>3. /\ work'[w] = processChan[1] /\ \A v \in Worker \ {w} : work'[v] = work[v]
      /\ Len(work[w]) = 0
  BY <1>1, <1>2, EmptySeq DEF TakeBatch, EmptyHanded, TypeOK
<1>4. m \in Written' <=> m \in Written
  BY <1>1 DEF Written
<1>5. \A i, k : At("queue", i, k, m)' <=> i \in Nat \ {0} /\ At("queue", i + 1, k, m)
  BY <1>2 DEF At
<1>6. /\ \A i, k : i # w => (At("worker", i, k, m)' <=> At("worker", i, k, m))
      /\ \A k : At("worker", w, k, m)' <=> At("queue", 1, k, m)
      /\ \A k : ~At("worker", w, k, m)
  BY <1>2, <1>3 DEF At
<1>7. \A a, i, k : a \notin {"queue", "worker"} => (At(a, i, k, m)' <=> At(a, i, k, m))
  BY <1>1 DEF At
<1>8. \A i, k : At("queue", i, k, m) => i = 1 \/ (i - 1 \in Nat \ {0} /\ (i - 1) + 1 = i)
  BY <1>2 DEF At
<1>9. (\E a, i, k : At(a, i, k, m)') <=> \E a, i, k : At(a, i, k, m)
  BY ONLY <1>5, <1>6, <1>7, <1>8
<1>10. ASSUME NEW a, NEW i, NEW k, NEW b, NEW j, NEW l, At(a, i, k, m)', At(b, j, l, m)'
       PROVE  a = b /\ i = j /\ k = l
  BY <1>5, <1>6, <1>7, <1>8, <1>10 DEF Once
<1> QED
  BY <1>4, <1>9, <1>10 DEF Once

\* processBatch: the first message of the work is filed.
LEMMA MoveFile ==
  ASSUME TypeOK, NEW w \in Worker, FileMessage(w), NEW m \in Message, Once(m)
  PROVE  Once(m)'
<1>1. /\ work[w] # << >> /\ work' = [work EXCEPT ![w] = Tail(@)]
      /\ handled' = handled \cup {Head(work[w])}
      /\ UNCHANGED <<sent, logChannel, batch, processChan>>
  BY DEF FileMessage, logVars, bpVars
<1>2. /\ Head(work[w]) = work[w][1]
      /\ Len(work[w]) \in Nat \ {0} /\ Len(Tail(work[w])) = Len(work[w]) - 1
      /\ \A k \in 1..(Len(work[w]) - 1) : Tail(work[w])[k] = work[w][k + 1]
  BY <1>1, HeadTail DEF TypeOK
<1>3. work'[w] = Tail(work[w]) /\ \A v \in Worker \ {w} : work'[v] = work[v]
  BY <1>1 DEF TypeOK
<1>4. m \in Written' <=> m \in Written
  BY <1>1 DEF Written
<1>5. /\ \A i, k : i # w => (At("worker", i, k, m)' <=> At("worker", i, k, m))
      /\ \A k : At("worker", w, k, m)' <=> k \in Nat \ {0} /\ At("worker", w, k + 1, m)
  BY <1>2, <1>3 DEF At
<1>6. At("filed", 0, 0, m)' <=> At("filed", 0, 0, m) \/ At("worker", w, 1, m)
  BY <1>1, <1>2 DEF At
<1>7. \A a, i, k : a \notin {"filed", "worker"} => (At(a, i, k, m)' <=> At(a, i, k, m))
  BY <1>1 DEF At
<1>8. /\ \A k : At("worker", w, k, m) => k = 1 \/ (k - 1 \in Nat \ {0} /\ (k - 1) + 1 = k)
      /\ \A i, k : At("filed", i, k, m) => i = 0 /\ k = 0
      /\ \A i, k : At("filed", i, k, m)' => i = 0 /\ k = 0
  BY <1>2 DEF At
<1>9. (\E a, i, k : At(a, i, k, m)') <=> \E a, i, k : At(a, i, k, m)
  BY ONLY <1>5, <1>6, <1>7, <1>8
<1>10. ASSUME NEW a, NEW i, NEW k, NEW b, NEW j, NEW l, At(a, i, k, m)', At(b, j, l, m)'
       PROVE  a = b /\ i = j /\ k = l
  BY <1>5, <1>6, <1>7, <1>8, <1>10 DEF Once
<1> QED
  BY <1>4, <1>9, <1>10 DEF Once

------------------------------------------------------------------------------
(* The types *)

Typed == TypeOK /\ Room /\ EmptyHanded

LEMMA TypedLog ==
  ASSUME Typed, UNCHANGED process, NEW r \in Routine, LogMessage(r)
  PROVE  Typed'
<1> DEFINE e == [r |-> r, n |-> sent[r] + 1]
<1>1. sent[r] \in Nat /\ sent[r] < MaxMsg[r] /\ MaxMsg[r] \in Nat
  BY LogAssumption DEF LogMessage, Typed, TypeOK
<1>2. e \in Message
  <2>1. e.r = r /\ e.n = sent[r] + 1 /\ e = [r |-> e.r, n |-> e.n]
    OBVIOUS
  <2> QED
    BY <1>1, <2>1, Messages
<1>3. logChannel' = Append(logChannel, e)
  BY DEF LogMessage
<1> HIDE DEF e
<1>4. logChannel' \in Seq(Message) /\ Len(logChannel') = Len(logChannel) + 1 /\ Len(logChannel) \in Nat
  BY <1>2, <1>3, Appended DEF Typed, TypeOK
<1>5. Len(logChannel') <= ChanCap
  BY <1>4, LogAssumption DEF LogMessage
<1>6. sent' \in [Routine -> Nat] /\ \A q \in Routine : sent'[q] <= MaxMsg[q]
  BY <1>1 DEF LogMessage, Typed, TypeOK
<1> QED
  BY <1>4, <1>5, <1>6 DEF LogMessage, Typed, TypeOK, Room, EmptyHanded, bpVars, workerVars, displayVars

LEMMA TypedReceive ==
  ASSUME Typed, UNCHANGED process, BpReceive
  PROVE  Typed'
<1>1. /\ Head(logChannel) \in Message /\ Tail(logChannel) \in Seq(Message)
      /\ Len(Tail(logChannel)) = Len(logChannel) - 1 /\ Len(logChannel) \in Nat
  BY HeadTail DEF BpReceive, Typed, TypeOK
<1>2. batch' \in Seq(Message) /\ Len(batch') = Len(batch) + 1 /\ Len(batch) \in Nat
  BY <1>1, Appended DEF BpReceive, Typed, TypeOK
<1>3. Len(batch) < BatchSize /\ BatchSize \in Nat /\ ChanCap \in Nat
  BY LogAssumption DEF BpReceive, Typed, Room
<1>4. logChannel' \in Seq(Message) /\ Len(logChannel') <= ChanCap /\ Len(batch') <= BatchSize
  BY <1>1, <1>2, <1>3 DEF BpReceive, Typed, TypeOK
<1>5. bp' \in {"select", "send"} /\ (bp' = "select" => Len(batch') < BatchSize) /\ timer' \in BOOLEAN
  BY <1>2, <1>3 DEF BpReceive
<1> QED
  BY <1>2, <1>4, <1>5 DEF BpReceive, Typed, TypeOK, Room, EmptyHanded, workerVars, displayVars

LEMMA TypedSend ==
  ASSUME Typed, UNCHANGED process, BpSend
  PROVE  Typed'
<1>1. /\ processChan' \in Seq(Seq(Message)) /\ Len(processChan') = Len(processChan) + 1
      /\ Len(processChan) \in Nat
  BY Appended DEF BpSend, Typed, TypeOK
<1>2. Len(processChan') <= ProcCap
  BY <1>1, LogAssumption DEF BpSend
<1>3. batch' \in Seq(Message) /\ Len(batch') = 0 /\ 0 < BatchSize /\ 0 <= BatchSize
  BY EmptySeq, LogAssumption DEF BpSend
<1> QED
  BY <1>1, <1>2, <1>3 DEF BpSend, Typed, TypeOK, Room, EmptyHanded, logVars, workerVars, displayVars

LEMMA TypedTimer ==
  ASSUME Typed, UNCHANGED process, BpTimeout \/ BpStop
  PROVE  Typed'
<1>1. /\ timer' \in BOOLEAN /\ bp' \in {"select", "send", "last", "closed"}
      /\ bp' = "select" => bp = "select"
      /\ UNCHANGED <<logVars, shutdown, batch, processChan, workerVars, displayVars, flush>>
  BY DEF BpTimeout, BpStop, Typed, TypeOK
<1> QED
  BY <1>1 DEF Typed, TypeOK, Room, EmptyHanded, logVars, workerVars, displayVars

LEMMA TypedTake ==
  ASSUME Typed, UNCHANGED process, NEW w \in Worker, TakeBatch(w)
  PROVE  Typed'
<1>1. /\ Head(processChan) \in Seq(Message) /\ Tail(processChan) \in Seq(Seq(Message))
      /\ Len(Tail(processChan)) = Len(processChan) - 1 /\ Len(processChan) \in Nat
  BY HeadTail DEF TakeBatch, Typed, TypeOK
<1>2. Len(processChan') <= ProcCap
  BY <1>1, LogAssumption DEF TakeBatch, Typed, TypeOK
<1>3. work' \in [Worker -> Seq(Message)] /\ wpc' \in [Worker -> {"recv", "batch", "read", "write", "exit"}]
  BY <1>1 DEF TakeBatch, Typed, TypeOK
<1>4. EmptyHanded'
  BY DEF TakeBatch, Typed, TypeOK, EmptyHanded
<1> QED
  BY <1>1, <1>2, <1>3, <1>4 DEF TakeBatch, Typed, TypeOK, Room, logVars, bpVars, displayVars

\* addMessage never keeps more than maxLogLines lines.
LEMMA LinesBounded ==
  ASSUME NEW lines \in Seq(Nat), NEW n \in Nat, Len(lines) <= MaxLogLines
  PROVE  AddLine(lines, n) \in Seq(Nat) /\ Len(AddLine(lines, n)) <= MaxLogLines
<1>1. MaxLogLines \in Nat \ {0} /\ Len(lines) \in Nat
  BY LogAssumption, LenProperties
<1>2. CASE Len(lines) >= MaxLogLines
  <2>1. lines # << >>
    BY <1>1, <1>2, EmptySeq
  <2>2. Tail(lines) \in Seq(Nat) /\ Len(Tail(lines)) = Len(lines) - 1
    BY <2>1, HeadTail
  <2>3. Append(Tail(lines), n) \in Seq(Nat) /\ Len(Append(Tail(lines), n)) = Len(Tail(lines)) + 1
    BY <2>2, Appended
  <2> QED
    BY <1>1, <1>2, <2>2, <2>3 DEF AddLine
<1>3. CASE ~(Len(lines) >= MaxLogLines)
  <2>1. Append(lines, n) \in Seq(Nat) /\ Len(Append(lines, n)) = Len(lines) + 1
    BY Appended
  <2> QED
    BY <1>1, <1>3, <2>1 DEF AddLine
<1> QED
  BY <1>2, <1>3

LEMMA TypedFile ==
  ASSUME Typed, UNCHANGED process, NEW w \in Worker, FileMessage(w)
  PROVE  Typed'
<1> DEFINE m == Head(work[w])
           old == entries[m.r]
           end == IF m.n # Ending[m.r] THEN old.end ELSE IF m.r \in Failing THEN "failed" ELSE "done"
           new == [lines |-> AddLine(old.lines, m.n), end |-> end]
<1>1. m \in Message /\ Tail(work[w]) \in Seq(Message)
  BY HeadTail DEF FileMessage, Typed, TypeOK
<1>2. m.r \in Routine /\ m.n \in Nat
  BY <1>1, Messages, LogAssumption
<1>3. entries' = [entries EXCEPT ![m.r] = new]
  BY DEF FileMessage
<1>4. /\ old \in [lines : Seq(Nat), end : {"none", "done", "failed"}]
      /\ Len(old.lines) <= MaxLogLines
  BY <1>2 DEF Typed, TypeOK
<1>5. AddLine(old.lines, m.n) \in Seq(Nat) /\ Len(AddLine(old.lines, m.n)) <= MaxLogLines
  BY <1>2, <1>4, LinesBounded
<1>6. end \in {"none", "done", "failed"}
  BY <1>4
<1>7. new \in [lines : Seq(Nat), end : {"none", "done", "failed"}] /\ Len(new.lines) <= MaxLogLines
  BY <1>5, <1>6
<1>8. /\ work' \in [Worker -> Seq(Message)] /\ touched' \in [Worker -> SUBSET Routine]
      /\ handled' \subseteq Message
  BY <1>1, <1>2 DEF FileMessage, Typed, TypeOK
<1>9. EmptyHanded'
  BY DEF FileMessage, Typed, TypeOK, EmptyHanded
<1> HIDE DEF m, old, end, new
<1>10. /\ entries' \in [Routine -> [lines : Seq(Nat), end : {"none", "done", "failed"}]]
       /\ \A r \in Routine : Len(entries'[r].lines) <= MaxLogLines
  BY <1>2, <1>3, <1>7 DEF Typed, TypeOK
<1> QED
  BY <1>8, <1>9, <1>10 DEF FileMessage, Typed, TypeOK, Room, logVars, bpVars, displayVars

\* What a worker does besides receiving and filing concerns the order only.
LEMMA TypedOrder ==
  ASSUME Typed, UNCHANGED process, NEW w \in Worker,
         \/ WorkerExit(w) \/ ReadOrder(w) \/ WriteOrder(w) \/ BatchDone(w)
         \/ \E r \in Routine : CheckOrder(w, r)
  PROVE  Typed'
<1>1. /\ wpc' \in [Worker -> {"recv", "batch", "read", "write", "exit"}]
      /\ touched' \in [Worker -> SUBSET Routine] /\ cur' \in [Worker -> SUBSET Routine]
  <2>1. CASE WorkerExit(w) \/ ReadOrder(w) \/ BatchDone(w)
    BY <2>1 DEF WorkerExit, ReadOrder, BatchDone, Typed, TypeOK
  <2>2. CASE WriteOrder(w)
    BY <2>2 DEF WriteOrder, Typed, TypeOK
  <2>3. ASSUME NEW r \in Routine, CheckOrder(w, r)
        PROVE  /\ wpc' \in [Worker -> {"recv", "batch", "read", "write", "exit"}]
               /\ touched' \in [Worker -> SUBSET Routine] /\ cur' \in [Worker -> SUBSET Routine]
    <3>1. touched' \in [Worker -> SUBSET Routine]
      BY <2>3 DEF CheckOrder, Typed, TypeOK
    <3>2. \/ wpc' = wpc /\ cur' = cur
          \/ wpc' = [wpc EXCEPT ![w] = "read"] /\ cur' = [cur EXCEPT ![w] = {r}]
      BY <2>3 DEF CheckOrder
    <3>3. /\ wpc \in [Worker -> {"recv", "batch", "read", "write", "exit"}]
          /\ cur \in [Worker -> SUBSET Routine] /\ {r} \in SUBSET Routine
      BY <2>3 DEF Typed, TypeOK
    <3>4. wpc' \in [Worker -> {"recv", "batch", "read", "write", "exit"}]
      BY ONLY <3>2, <3>3
    <3>5. cur' \in [Worker -> SUBSET Routine]
      BY ONLY <3>2, <3>3
    <3> QED
      BY <3>1, <3>4, <3>5
  <2> QED
    BY <2>1, <2>2, <2>3
<1>2. snap' \in [Worker -> Seq(Routine)] /\ routineOrder' \in Seq(Routine)
  <2>1. CASE WriteOrder(w)
    <3>1. PICK r \in cur[w] : routineOrder' = Append(snap[w], r)
      BY <2>1 DEF WriteOrder
    <3>2. r \in Routine /\ snap[w] \in Seq(Routine)
      BY DEF Typed, TypeOK
    <3>3. Append(snap[w], r) \in Seq(Routine) /\ << >> \in Seq(Routine)
      BY <3>2, Appended, EmptySeq
    <3> QED
      BY <2>1, <3>1, <3>3 DEF WriteOrder, Typed, TypeOK
  <2>2. CASE ~WriteOrder(w)
    BY <2>2 DEF WorkerExit, ReadOrder, BatchDone, CheckOrder, Typed, TypeOK
  <2> QED
    BY <2>1, <2>2
<1>3. UNCHANGED <<logVars, shutdown, bpVars, processChan, work, entries, handled, displayVars, flush>>
  BY DEF WorkerExit, ReadOrder, WriteOrder, BatchDone, CheckOrder
<1>4. EmptyHanded'
  BY DEF WorkerExit, ReadOrder, WriteOrder, BatchDone, CheckOrder, Typed, TypeOK, EmptyHanded
<1> QED
  BY <1>1, <1>2, <1>3, <1>4 DEF Typed, TypeOK, Room, logVars, bpVars, displayVars

LEMMA TypedDisplay ==
  ASSUME Typed, UNCHANGED process, Tick \/ LastUpdate \/ SecondPass
  PROVE  Typed'
<1>1. ToSet(routineOrder) \subseteq Routine
  BY LenProperties, ElementOfSeq DEF ToSet, Typed, TypeOK
<1>2. display' \in {"loop", "second", "last", "notify", "exit"} /\ frame' \subseteq Routine
  BY <1>1 DEF Tick, LastUpdate, FirstPass, SecondPass, Typed, TypeOK
<1>3. /\ entries' \in [Routine -> [lines : Seq(Nat), end : {"none", "done", "failed"}]]
      /\ \A r \in Routine : Len(entries'[r].lines) <= MaxLogLines
  <2>1. CASE SecondPass
    BY <2>1 DEF SecondPass, Typed, TypeOK, workerVars
  <2>2. CASE ~SecondPass
    <3>1. entries' = [r \in Routine |-> IF r \in ToSet(routineOrder) /\ entries[r].end = "done"
                                         THEN [entries[r] EXCEPT !.lines = << >>] ELSE entries[r]]
      BY <2>2 DEF Tick, LastUpdate, FirstPass
    <3>2. << >> \in Seq(Nat) /\ Len(<< >>) = 0 /\ 0 <= MaxLogLines
      BY EmptySeq, LogAssumption
    <3>3. ASSUME NEW r \in Routine
          PROVE  /\ [entries[r] EXCEPT !.lines = << >>] \in [lines : Seq(Nat), end : {"none", "done", "failed"}]
                 /\ [entries[r] EXCEPT !.lines = << >>].lines = << >>
      BY <3>2 DEF Typed, TypeOK
    <3> QED
      BY <3>1, <3>2, <3>3 DEF Typed, TypeOK
  <2> QED
    BY <2>1, <2>2
<1>4. /\ UNCHANGED <<logVars, shutdown, bpVars, processChan, wpc, work, touched, cur, snap, routineOrder,
                     handled, flush>>
  BY DEF Tick, LastUpdate, FirstPass, SecondPass, workerVars
<1> QED
  BY <1>2, <1>3, <1>4 DEF Typed, TypeOK, Room, EmptyHanded, logVars, bpVars

LEMMA TypedFlush ==
  ASSUME Typed, UNCHANGED process,
         FlushShutdown \/ FlushClose \/ FlushDone \/ UNCHANGED vars
  PROVE  Typed'
<1>1. /\ shutdown' \in BOOLEAN /\ closed' \in BOOLEAN /\ flush' \in {"idle", "close", "wait", "done"}
      /\ display' \in {"loop", "second", "last", "notify", "exit"}
      /\ UNCHANGED <<sent, logChannel, bpVars, processChan, workerVars, frame>>
  BY DEF FlushShutdown, FlushClose, FlushDone, vars, logVars, displayVars, Typed, TypeOK
<1> QED
  BY <1>1 DEF Typed, TypeOK, Room, EmptyHanded, bpVars, workerVars

LEMMA EndStill ==
  ASSUME LateLine \/ EndOfProcess
  PROVE  UNCHANGED <<logVars, shutdown, bpVars, processChan, workerVars, displayVars, flush>>
BY Zenon DEF LateLine, EndOfProcess

LEMMA TypedEnd ==
  ASSUME Typed, LateLine \/ EndOfProcess
  PROVE  Typed'
<1>1. process' \in {"up", "panicked", "exited"}
  BY DEF LateLine, EndOfProcess
<1>2. UNCHANGED <<logVars, shutdown, bpVars, processChan, workerVars, displayVars, flush>>
  BY EndStill
<1> QED
  BY <1>1, <1>2 DEF Typed, TypeOK, Room, EmptyHanded, logVars, bpVars, workerVars, displayVars

------------------------------------------------------------------------------
(* The theorems *)

LEMMA InitInv == Init => IInv
<1> SUFFICES ASSUME Init PROVE IInv
  OBVIOUS
<1>1. \A S : << >> \in Seq(S) /\ Len(<< >>) = 0
  BY EmptySeq
<1>2. Typed
  <2>1. [lines |-> << >>, end |-> "none"] \in [lines : Seq(Nat), end : {"none", "done", "failed"}]
    BY <1>1
  <2>2. entries \in [Routine -> [lines : Seq(Nat), end : {"none", "done", "failed"}]]
    BY <2>1 DEF Init
  <2>3. \A r \in Routine : Len(entries[r].lines) <= MaxLogLines
    BY <1>1, LogAssumption DEF Init
  <2>4. /\ sent \in [Routine -> Nat] /\ \A r \in Routine : sent[r] <= MaxMsg[r]
        /\ Len(logChannel) <= ChanCap /\ Len(batch) <= BatchSize /\ Len(processChan) <= ProcCap
        /\ Len(batch) < BatchSize
    BY <1>1, LogAssumption DEF Init
  <2> QED
    BY <1>1, <2>2, <2>3, <2>4 DEF Init, Typed, TypeOK, Room, EmptyHanded
<1>3. ASSUME NEW m \in Message PROVE Once(m)
  <2>1. m \notin Written
    BY Messages DEF Init, Written
  <2>2. \A a, i, k : ~At(a, i, k, m)
    BY <1>1 DEF Init, At
  <2> QED
    BY <2>1, <2>2 DEF Once
<1> QED
  BY <1>2, <1>3 DEF IInv, Typed

LEMMA NextInv == IInv /\ [Next]_vars => IInv'
<1> SUFFICES ASSUME IInv, [Next]_vars PROVE IInv'
  OBVIOUS
<1> USE DEF IInv
<1>0. Typed
  BY DEF Typed
<1>1. ASSUME NEW r \in Routine, LogMessage(r), UNCHANGED process PROVE IInv'
  BY <1>0, <1>1, TypedLog, MoveLog DEF Typed, Message
<1>2. CASE BpReceive /\ UNCHANGED process
  BY <1>0, <1>2, TypedReceive, MoveReceive DEF Typed, Message
<1>3. CASE BpSend /\ UNCHANGED process
  BY <1>0, <1>3, TypedSend, MoveSend DEF Typed, Message
<1>4. ASSUME NEW w \in Worker, TakeBatch(w), UNCHANGED process PROVE IInv'
  BY <1>0, <1>4, TypedTake, MoveTake DEF Typed, Message
<1>5. ASSUME NEW w \in Worker, FileMessage(w), UNCHANGED process PROVE IInv'
  BY <1>0, <1>5, TypedFile, MoveFile DEF Typed, Message
<1>6. CASE (BpTimeout \/ BpStop) /\ UNCHANGED process
  <2>1. UNCHANGED <<sent, logChannel, batch, processChan, work, handled>>
    BY <1>6 DEF BpTimeout, BpStop, logVars, workerVars
  <2> QED
    BY <1>0, <1>6, <2>1, TypedTimer, Still DEF Typed, Message
<1>7. ASSUME UNCHANGED process, NEW w \in Worker,
             \/ WorkerExit(w) \/ ReadOrder(w) \/ WriteOrder(w) \/ BatchDone(w)
             \/ \E r \in Routine : CheckOrder(w, r)
      PROVE  IInv'
  <2>1. UNCHANGED <<sent, logChannel, batch, processChan, work, handled>>
    BY <1>7 DEF WorkerExit, ReadOrder, WriteOrder, BatchDone, CheckOrder, logVars, bpVars
  <2> QED
    BY <1>0, <1>7, <2>1, TypedOrder, Still DEF Typed, Message
<1>8. CASE (Tick \/ LastUpdate \/ SecondPass) /\ UNCHANGED process
  <2>1. UNCHANGED <<sent, logChannel, batch, processChan, work, handled>>
    BY <1>8 DEF Tick, LastUpdate, FirstPass, SecondPass, logVars, bpVars, workerVars
  <2> QED
    BY <1>0, <1>8, <2>1, TypedDisplay, Still DEF Typed, Message
<1>9. CASE (FlushShutdown \/ FlushClose \/ FlushDone \/ UNCHANGED vars) /\ UNCHANGED process
  <2>1. UNCHANGED <<sent, logChannel, batch, processChan, work, handled>>
    BY <1>9 DEF FlushShutdown, FlushClose, FlushDone, vars, logVars, bpVars, workerVars
  <2> QED
    BY <1>0, <1>9, <2>1, TypedFlush, Still DEF Typed, Message
<1>10. CASE LateLine \/ EndOfProcess
  <2>1. UNCHANGED <<sent, logChannel, batch, processChan, work, handled>>
    BY <1>10, EndStill DEF logVars, bpVars, workerVars
  <2> QED
    BY <1>0, <1>10, <2>1, TypedEnd, Still DEF Typed, Message
<1>11. UNCHANGED vars => UNCHANGED process
  BY DEF vars
<1>12. CASE WriterStep
  BY <1>1, <1>12 DEF WriterStep, Up
<1>13. CASE BpStep
  BY <1>2, <1>3, <1>6, <1>13 DEF BpStep, Up
<1>14. CASE \E w \in Worker : WorkerStep(w)
  BY <1>4, <1>5, <1>7, <1>14 DEF WorkerStep, Up
<1>15. CASE (Up /\ Tick) \/ FinalUpdate \/ Display
  BY <1>8, <1>15 DEF FinalUpdate, Display, Up
<1>16. CASE (Up /\ FlushShutdown) \/ FlushStep \/ UNCHANGED vars
  BY <1>9, <1>11, <1>16 DEF FlushStep, Up
<1> QED
  BY <1>10, <1>12, <1>13, <1>14, <1>15, <1>16 DEF Next

LEMMA Invariant == Spec => []IInv
BY InitInv, NextInv, PTL DEF Spec

\* Types, for any routines, workers, capacities and batch sizes: no channel is
\* over-filled and no batch too long, and a routine keeps maxLogLines lines at
\* most (addMessage).
THEOREM LogAggregatorTypes == Spec => []TypeOK
<1>1. IInv => TypeOK
  BY DEF IInv
<1> QED
  BY <1>1, Invariant, PTL

\* For any routines, workers, capacities and batch sizes, every written message
\* is in exactly one place: no interleaving of full batches, timeouts, shutdown
\* and workers loses or doubles one on its way from the channel to its routine.
THEOREM MessagesAreConserved == Spec => []Conserved
<1>1. IInv => Conserved
  BY OnceConserves DEF IInv
<1> QED
  BY <1>1, Invariant, PTL

------------------------------------------------------------------------------
(* The archive: its invariant                                              *)

Types ==
  /\ kinds \in Seq(Kind)
  /\ pc \in {"count", "seq", "list", "spawn", "collect", "write", "done"}
  /\ next \in Nat \ {0}
  /\ g \in [File -> {"none", "start", "read", "sent", "done"}]
  /\ resultChan \in Seq([index : File, ok : BOOLEAN])
  /\ results \in [File -> Nat]
  /\ archive \in Seq(Nat)
  /\ res \in {"none", "ok", "walk", "file", "panic"}

Readable(i) == kinds[i] \in {"data", "changed"}

\* A result in the channel without an error is of a file that could be read.
ChanReadable == \A k \in 1..Len(resultChan) : resultChan[k].ok => Readable(resultChan[k].index)

\* A result is stored at the index of its own file.
StoredOwn == \A i \in File : results[i] = 0 \/ (results[i] = i /\ Readable(i))

\* A result that was sent is stored, or in the channel as long as it is read.
Accounted ==
  pc # "done" => \A i \in File : g[i] \in {"sent", "done"} =>
                   results[i] = i \/ \E k \in 1..Len(resultChan) : resultChan[k].index = i

\* The channel is closed after every goroutine has ended.
ClosedLast ==
  chanClosed => /\ pc \in {"collect", "write", "done"}
            /\ \A i \in File : g[i] = "done"

\* The archive is written when every result is there.
AllStored == pc = "write" => \A i \in File : results[i] = i

\* The archive holds the files below next.
Prefix ==
  /\ pc \in {"seq", "write"} =>
       /\ Len(archive) = next - 1
       /\ \A k \in 1..(next - 1) : archive[k] = k /\ kinds[k] \in {"data", "empty"}
  /\ pc \in {"count", "list", "spawn", "collect"} => archive = << >>
  /\ pc \in {"count", "list", "collect"} => next = 1
  /\ pc \in {"seq", "write"} => next <= Len(kinds) + 1

Running == pc # "done" => res = "none"

TarIInv ==
  /\ Types /\ ChanReadable /\ StoredOwn /\ Accounted /\ ClosedLast /\ AllStored
  /\ Prefix /\ Running /\ ArchiveComplete

-----------------------------------------------------------------------------
LEMMA FileFacts ==
  ASSUME Types
  PROVE  File = 1..Len(kinds) /\ Len(kinds) \in Nat
PROOF
BY LenProperties DEF Types, File

\* Init.
LEMMA TarInitInv == TarInit => TarIInv
PROOF
<1> SUFFICES ASSUME TarInit PROVE TarIInv OBVIOUS
<1>1. kinds \in Seq(Kind)
  <2>1. PICK n \in 0..MaxFiles : kinds \in [1..n -> Kind] BY DEF TarInit
  <2> QED BY <2>1, SeqDef, TarAssumption
<1>2. Types
  <2>1. resultChan \in Seq([index : File, ok : BOOLEAN]) /\ archive \in Seq(Nat)
    BY EmptySeq DEF TarInit
  <2> QED BY <1>1, <2>1 DEF TarInit, Types
<1>3. Len(kinds) \in Nat BY <1>2, FileFacts
<1>4. ChanReadable /\ StoredOwn /\ Accounted /\ ClosedLast /\ AllStored /\ Running /\ ArchiveComplete
  BY DEF TarInit, ChanReadable, StoredOwn, Accounted, ClosedLast, AllStored, Running, ArchiveComplete
<1>5. Prefix BY <1>3 DEF TarInit, Prefix
<1> QED BY <1>2, <1>4, <1>5 DEF TarIInv

-----------------------------------------------------------------------------
\* The steps of the caller that touch neither results nor archive.
LEMMA PlainStep ==
  ASSUME TarIInv, Count \/ WalkFails \/ List \/ Spawn \/ SpawnCloser
  PROVE  TarIInv'
PROOF
<1>0. File = 1..Len(kinds) /\ Len(kinds) \in Nat BY FileFacts DEF TarIInv
<1>u. UNCHANGED <<kinds, resultChan, chanClosed, results, archive>>
  BY DEF Count, WalkFails, List, Spawn, SpawnCloser
<1>f. File' = File BY <1>u DEF File
<1>g. g' = g \/ (Spawn /\ g' = [g EXCEPT ![next] = "start"])
  BY DEF Count, WalkFails, List, Spawn, SpawnCloser
<1>1. Types'
  <2>1. next' \in Nat \ {0} BY <1>0 DEF TarIInv, Types, Count, WalkFails, List, Spawn, SpawnCloser
  <2>2. g' \in [File -> {"none", "start", "read", "sent", "done"}]
    BY <1>g DEF TarIInv, Types, Spawn
  <2>3. /\ pc' \in {"count", "seq", "list", "spawn", "collect", "write", "done"}
        /\ res' \in {"none", "ok", "walk", "file", "panic"}
    BY DEF TarIInv, Types, Count, WalkFails, List, Spawn, SpawnCloser, Return
  <2> QED BY <1>u, <1>f, <2>1, <2>2, <2>3 DEF TarIInv, Types
<1>2. ChanReadable' BY <1>u DEF TarIInv, ChanReadable, Readable
<1>3. StoredOwn' BY <1>u, <1>f DEF TarIInv, StoredOwn, Readable
<1>4. Accounted'
  <2>1. pc' # "done" => pc # "done" BY DEF Count, WalkFails, List, Spawn, SpawnCloser, Return
  <2>2. \A i \in File : g'[i] \in {"sent", "done"} => g[i] \in {"sent", "done"}
    BY <1>g DEF TarIInv, Types
  <2> QED BY <1>u, <1>f, <2>1, <2>2 DEF TarIInv, Accounted
<1>5. ClosedLast'
  <2> SUFFICES ASSUME chanClosed PROVE ClosedLast' BY <1>u DEF ClosedLast
  <2>1. WalkFails => FALSE BY DEF TarIInv, ClosedLast, WalkFails
  <2>2. Count \/ List \/ Spawn \/ SpawnCloser => FALSE
    BY DEF TarIInv, ClosedLast, Count, List, Spawn, SpawnCloser
  <2> QED BY <2>1, <2>2
<1>6. AllStored' BY <1>u DEF AllStored, Count, WalkFails, List, Spawn, SpawnCloser, Return
<1>7. Prefix'
  <2>1. pc' \in {"list", "spawn", "collect"} \/ pc' = "done" \/ (pc' = "seq" /\ pc = "count" /\ next' = next)
    BY DEF Count, WalkFails, List, Spawn, SpawnCloser, Return
  <2>2. pc' # "done" => archive = << >>
    BY DEF TarIInv, Prefix, Count, WalkFails, List, Spawn, SpawnCloser, Return
  <2>3. pc' \in {"seq", "list", "collect"} => next' = 1
    BY DEF TarIInv, Prefix, Count, WalkFails, List, Spawn, SpawnCloser, Return
  <2>4. pc' = "seq" => Prefix' BY <1>0, <1>u, <2>2, <2>3 DEF Prefix
  <2>5. pc' \in {"list", "spawn", "collect", "done"} => Prefix' BY <1>u, <2>2, <2>3 DEF Prefix
  <2> QED BY <2>1, <2>4, <2>5
<1>8. Running' BY DEF TarIInv, Running, Count, WalkFails, List, Spawn, SpawnCloser, Return
<1>9. ArchiveComplete'
  BY DEF TarIInv, Running, ArchiveComplete, Count, WalkFails, List, Spawn, SpawnCloser, Return
<1> QED BY <1>1, <1>2, <1>3, <1>4, <1>5, <1>6, <1>7, <1>8, <1>9 DEF TarIInv

\* A file is added to the archive, in either variant.
LEMMA EntryStep ==
  ASSUME TarIInv, SeqFile \/ Write
  PROVE  TarIInv'
PROOF
<1>0. File = 1..Len(kinds) /\ Len(kinds) \in Nat BY FileFacts DEF TarIInv
<1>u. UNCHANGED <<kinds, g, resultChan, chanClosed, results>> BY DEF SeqFile, Write
<1>f. File' = File BY <1>u DEF File
<1>p. pc \in {"seq", "write"} /\ next \in File BY DEF SeqFile, Write
<1>1. \/ /\ pc' = "done" /\ res' = "file" /\ UNCHANGED <<next, archive>>
      \/ /\ archive' = Append(archive, next) /\ next' = next + 1 /\ UNCHANGED <<pc, res>>
         /\ kinds[next] \in {"data", "empty"}
  <2>1. CASE SeqFile BY <2>1 DEF SeqFile, Return
  <2>2. CASE Write
    <3>1. results[next] = next /\ next # 0 /\ Readable(next)
      BY <2>2, <1>p DEF TarIInv, AllStored, StoredOwn, Write, Types
    <3> QED BY <2>2, <3>1 DEF Write, Return, Readable
  <2> QED BY <2>1, <2>2
<1>2. Types'
  <2>1. next \in Nat BY DEF TarIInv, Types
  <2>2. archive' \in Seq(Nat) /\ next' \in Nat \ {0}
    <3>1. archive \in Seq(Nat) /\ next \in Nat \ {0} BY DEF TarIInv, Types
    <3>2. CASE UNCHANGED <<next, archive>> BY <3>1, <3>2
    <3>3. CASE archive' = Append(archive, next) /\ next' = next + 1
      BY <3>1, <3>3, <2>1, AppendProperties
    <3> QED BY <1>1, <3>2, <3>3
  <2>3. pc' \in {pc, "done"} /\ res' \in {res, "file"} BY <1>1
  <2> QED BY <1>u, <1>f, <2>2, <2>3 DEF TarIInv, Types
<1>3. ChanReadable' BY <1>u DEF TarIInv, ChanReadable, Readable
<1>4. StoredOwn' BY <1>u, <1>f DEF TarIInv, StoredOwn, Readable
<1>5. Accounted' BY <1>1, <1>u, <1>f DEF TarIInv, Accounted
<1>6. ClosedLast' BY <1>1, <1>u, <1>f DEF TarIInv, ClosedLast
<1>7. AllStored' BY <1>1, <1>u, <1>f DEF TarIInv, AllStored
<1>8. Prefix'
  <2>1. CASE pc' = "done" BY <2>1 DEF Prefix
  <2>2. CASE pc' # "done"
    <3>1. /\ archive' = Append(archive, next) /\ next' = next + 1 /\ pc' = pc
          /\ kinds[next] \in {"data", "empty"}
      BY <1>1, <2>2
    <3>2. /\ Len(archive) = next - 1 /\ archive \in Seq(Nat) /\ next \in Nat
          /\ \A k \in 1..(next - 1) : archive[k] = k /\ kinds[k] \in {"data", "empty"}
      BY <1>p DEF TarIInv, Prefix, Types
    <3>3. /\ Len(archive') = next
          /\ archive'[next] = next
          /\ \A k \in 1..(next - 1) : archive'[k] = archive[k]
      BY <3>1, <3>2, AppendProperties
    <3>4. \A k \in 1..next : archive'[k] = k /\ kinds[k] \in {"data", "empty"}
      <4> TAKE k \in 1..next
      <4>1. k \in 1..(next - 1) \/ k = next BY <3>2
      <4> QED BY <4>1, <3>1, <3>2, <3>3
    <3>5. next' - 1 = next /\ next' <= Len(kinds) + 1 BY <1>0, <1>p, <3>1, <3>2
    <3> QED BY <1>p, <1>u, <3>1, <3>3, <3>4, <3>5 DEF Prefix
  <2> QED BY <2>1, <2>2
<1>9. Running' BY <1>1, <1>p DEF TarIInv, Running
<1>10. ArchiveComplete' BY <1>1, <1>p DEF TarIInv, Running, ArchiveComplete
<1> QED BY <1>2, <1>3, <1>4, <1>5, <1>6, <1>7, <1>8, <1>9, <1>10 DEF TarIInv

\* The archive is closed and returned, in either variant.
LEMMA CloseStep ==
  ASSUME TarIInv, SeqClose \/ CloseWriter
  PROVE  TarIInv'
PROOF
<1>0. File = 1..Len(kinds) /\ Len(kinds) \in Nat BY FileFacts DEF TarIInv
<1>u. UNCHANGED <<kinds, next, g, resultChan, chanClosed, results, archive>> BY DEF SeqClose, CloseWriter
<1>f. File' = File BY <1>u DEF File
<1>p. pc \in {"seq", "write"} /\ next \notin File /\ pc' = "done" /\ res' = "ok"
  BY DEF SeqClose, CloseWriter, Return
<1>1. Types' BY <1>u, <1>f, <1>p DEF TarIInv, Types
<1>2. ChanReadable' /\ StoredOwn' BY <1>u, <1>f DEF TarIInv, ChanReadable, StoredOwn, Readable
<1>3. Accounted' /\ AllStored' /\ Prefix' /\ Running' BY <1>p DEF Accounted, AllStored, Prefix, Running
<1>4. ClosedLast' BY <1>u, <1>f, <1>p DEF TarIInv, ClosedLast
<1>5. ArchiveComplete'
  <2>1. next = Len(kinds) + 1
    <3>1. next \in Nat \ {0} /\ next <= Len(kinds) + 1 BY <1>p DEF TarIInv, Types, Prefix
    <3> QED BY <3>1, <1>0, <1>p
  <2>2. /\ Len(archive) = next - 1 /\ archive \in Seq(Nat)
        /\ \A k \in 1..(next - 1) : archive[k] = k /\ kinds[k] \in {"data", "empty"}
    BY <1>p DEF TarIInv, Types, Prefix
  <2>3. \A k \in File : archive[k] = k /\ kinds[k] \in {"data", "empty"}
    BY <1>0, <2>1, <2>2
  <2>4. archive = [k \in 1..Len(archive) |-> archive[k]] BY <2>2, LenProperties
  <2>5. 1..Len(archive) = File BY <1>0, <2>1, <2>2
  <2>6. archive = [k \in File |-> k] BY <2>3, <2>4, <2>5
  <2> QED BY <1>u, <1>f, <1>p, <2>3, <2>6 DEF ArchiveComplete
<1> QED BY <1>1, <1>2, <1>3, <1>4, <1>5 DEF TarIInv

\* A result is received: stored if it is good, the end of TarDir if not.
LEMMA CollectStep ==
  ASSUME TarIInv, Collect
  PROVE  TarIInv'
PROOF
<1>0. File = 1..Len(kinds) /\ Len(kinds) \in Nat BY FileFacts DEF TarIInv
<1>u. UNCHANGED <<kinds, next, g, chanClosed, archive>> /\ pc = "collect" /\ resultChan # << >>
  BY DEF Collect
<1>f. File' = File BY <1>u DEF File
<1> DEFINE R == [index : File, ok : BOOLEAN]
<1> DEFINE r == Head(resultChan)
<1>c. resultChan \in Seq(R) BY DEF TarIInv, Types
<1>t. /\ resultChan' \in Seq(R) /\ r \in R /\ r = resultChan[1] /\ Len(resultChan) \in Nat \ {0}
      /\ Len(resultChan') = Len(resultChan) - 1
      /\ \A k \in 1..Len(resultChan') : resultChan'[k] = resultChan[k + 1]
  <2>1. resultChan' = Tail(resultChan) BY DEF Collect
  <2>2. Len(resultChan) \in Nat /\ Len(resultChan) # 0 BY <1>c, <1>u, EmptySeq, LenProperties
  <2> HIDE DEF R
  <2> QED BY <2>1, <2>2, <1>c, <1>u, HeadTailProperties, ElementOfSeq
<1>s. \/ pc' = "done" /\ res' = "file" /\ results' = results
      \/ r.ok /\ results' = [results EXCEPT ![r.index] = r.index] /\ UNCHANGED <<pc, res>>
  BY DEF Collect, Return, Store
<1>i. r.index \in File BY <1>t
<1>1. Types'
  <2>1. results' \in [File -> Nat]
    <3>1. results \in [File -> Nat] BY DEF TarIInv, Types
    <3>2. r.index \in Nat BY <1>i, <1>0
    <3>3. results' = results \/ results' = [results EXCEPT ![r.index] = r.index] BY <1>s
    <3> QED BY ONLY <3>1, <3>2, <3>3
  <2>2. pc' \in {pc, "done"} /\ res' \in {res, "file"} BY <1>s
  <2> QED BY <1>u, <1>f, <1>t, <2>1, <2>2 DEF TarIInv, Types
<1>2. ChanReadable'
  <2>1. \A k \in 1..Len(resultChan') : k + 1 \in 1..Len(resultChan) BY <1>t
  <2> QED BY <1>t, <1>u, <2>1 DEF TarIInv, ChanReadable, Readable
<1>3. StoredOwn'
  <2>1. CASE results' = results BY <2>1, <1>u, <1>f DEF TarIInv, StoredOwn, Readable
  <2>2. CASE r.ok /\ results' = [results EXCEPT ![r.index] = r.index]
    <3>1. 1 \in 1..Len(resultChan) BY <1>t
    <3>2. Readable(r.index) BY <3>1, <2>2, <1>t DEF TarIInv, ChanReadable
    <3>3. \A i \in File : results'[i] = IF i = r.index THEN i ELSE results[i]
      BY <2>2, <1>i DEF TarIInv, Types
    <3> QED BY <3>2, <3>3, <1>u, <1>f DEF TarIInv, StoredOwn, Readable
  <2> QED BY <1>s, <2>1, <2>2
<1>4. Accounted'
  <2>1. CASE pc' = "done" BY <2>1 DEF Accounted
  <2>2. CASE results' = [results EXCEPT ![r.index] = r.index]
    <3> SUFFICES ASSUME NEW i \in File, g[i] \in {"sent", "done"}
                 PROVE  results'[i] = i \/ \E k \in 1..Len(resultChan') : resultChan'[k].index = i
      BY <1>u, <1>f DEF Accounted
    <3>1. results[i] = i \/ \E k \in 1..Len(resultChan) : resultChan[k].index = i
      BY <1>u DEF TarIInv, Accounted
    <3>2. results'[i] = IF i = r.index THEN i ELSE results[i] BY <2>2, <1>i DEF TarIInv, Types
    <3>3. CASE results[i] = i \/ i = r.index BY <3>2, <3>3
    <3>4. CASE i # r.index /\ results[i] # i
      <4>1. PICK k \in 1..Len(resultChan) : resultChan[k].index = i BY <3>1, <3>4
      <4>2. k # 1 BY <4>1, <3>4, <1>t
      <4>3. k - 1 \in 1..Len(resultChan') /\ (k - 1) + 1 = k BY <4>2, <1>t
      <4> QED BY <4>1, <4>3, <1>t
    <3> QED BY <3>3, <3>4
  <2> QED BY <1>s, <2>1, <2>2
<1>5. ClosedLast' BY <1>s, <1>u, <1>f DEF TarIInv, ClosedLast
<1>6. AllStored' BY <1>s, <1>u DEF AllStored
<1>7. Prefix' BY <1>s, <1>u DEF TarIInv, Prefix
<1>8. Running' BY <1>s, <1>u DEF TarIInv, Running
<1>9. ArchiveComplete' BY <1>s, <1>u DEF TarIInv, Running, ArchiveComplete
<1> QED BY <1>1, <1>2, <1>3, <1>4, <1>5, <1>6, <1>7, <1>8, <1>9 DEF TarIInv

\* The channel is closed and empty.
LEMMA CollectEndStep ==
  ASSUME TarIInv, CollectEnd
  PROVE  TarIInv'
PROOF
<1>0. File = 1..Len(kinds) /\ Len(kinds) \in Nat BY FileFacts DEF TarIInv
<1>u. UNCHANGED <<kinds, next, g, resultChan, chanClosed, results, archive, res>> BY DEF CollectEnd
<1>f. File' = File BY <1>u DEF File
<1>p. pc = "collect" /\ resultChan = << >> /\ chanClosed /\ pc' = "write" BY DEF CollectEnd
<1>1. Types' BY <1>u, <1>f, <1>p DEF TarIInv, Types
<1>2. ChanReadable' /\ StoredOwn' BY <1>u, <1>f DEF TarIInv, ChanReadable, StoredOwn, Readable
<1>3. \A i \in File : results[i] = i
  <2>1. \A i \in File : g[i] \in {"sent", "done"} BY <1>p DEF TarIInv, ClosedLast
  <2>2. Len(resultChan) = 0 BY <1>p, EmptySeq
  <2>3. ~ \E k \in 1..Len(resultChan) : TRUE BY <2>2
  <2> QED BY <2>1, <2>3, <1>p DEF TarIInv, Accounted
<1>4. Accounted' /\ AllStored' BY <1>3, <1>u, <1>f DEF Accounted, AllStored
<1>5. ClosedLast' BY <1>u, <1>f, <1>p DEF TarIInv, ClosedLast
<1>6. Prefix'
  <2>1. next = 1 /\ archive = << >> BY <1>p DEF TarIInv, Prefix
  <2>2. Len(archive) = 0 BY <2>1, EmptySeq
  <2> QED BY <1>0, <1>u, <1>p, <2>1, <2>2 DEF Prefix
<1>7. Running' /\ ArchiveComplete' BY <1>u, <1>p DEF TarIInv, Running, ArchiveComplete
<1> QED BY <1>1, <1>2, <1>4, <1>5, <1>6, <1>7 DEF TarIInv

-----------------------------------------------------------------------------
\* A goroutine sends its result.
LEMMA SendStep ==
  ASSUME TarIInv, NEW i \in File, Send(i)
  PROVE  TarIInv'
PROOF
<1>0. File = 1..Len(kinds) /\ Len(kinds) \in Nat BY FileFacts DEF TarIInv
<1>u. UNCHANGED <<kinds, pc, next, chanClosed, results, archive, res>> BY DEF Send
<1>f. File' = File BY <1>u DEF File
<1> DEFINE R == [index : File, ok : BOOLEAN]
<1> DEFINE r == [index |-> i, ok |-> kinds[i] \in {"data", "changed"}]
<1>c. resultChan \in Seq(R) BY DEF TarIInv, Types
<1>r. r \in R /\ r.index = i /\ (r.ok => Readable(i))
  <2>1. (kinds[i] \in {"data", "changed"}) \in BOOLEAN OBVIOUS
  <2>2. r \in R BY <2>1
  <2>3. r.ok = (kinds[i] \in {"data", "changed"}) OBVIOUS
  <2> QED BY <2>2, <2>3 DEF Readable
<1>t. /\ resultChan' \in Seq(R) /\ Len(resultChan) \in Nat
      /\ Len(resultChan') = Len(resultChan) + 1
      /\ resultChan'[Len(resultChan) + 1] = r
      /\ \A k \in 1..Len(resultChan) : resultChan'[k] = resultChan[k]
  <2>1. resultChan' = Append(resultChan, r) BY DEF Send
  <2>2. r \in R BY <1>r
  <2> HIDE DEF R, r
  <2> QED BY <2>1, <2>2, <1>c, AppendProperties, LenProperties
<1>g. g' = [g EXCEPT ![i] = "sent"] /\ g[i] = "read" BY DEF Send
<1>d. ~chanClosed BY <1>g DEF TarIInv, ClosedLast
<1> HIDE DEF r
<1>1. Types'
  <2>1. g' \in [File -> {"none", "start", "read", "sent", "done"}] BY <1>g DEF TarIInv, Types
  <2> QED BY <1>u, <1>f, <1>t, <2>1 DEF TarIInv, Types
<1>2. ChanReadable'
  <2> SUFFICES ASSUME NEW k \in 1..Len(resultChan'), resultChan'[k].ok
               PROVE  Readable(resultChan'[k].index)
    BY <1>u DEF ChanReadable, Readable
  <2>1. k = Len(resultChan) + 1 \/ k \in 1..Len(resultChan) BY <1>t
  <2> QED BY <2>1, <1>t, <1>r DEF TarIInv, ChanReadable
<1>3. StoredOwn' BY <1>u, <1>f DEF TarIInv, StoredOwn, Readable
<1>4. Accounted'
  <2> SUFFICES ASSUME pc # "done", NEW j \in File, g'[j] \in {"sent", "done"}
               PROVE  results[j] = j \/ \E k \in 1..Len(resultChan') : resultChan'[k].index = j
    BY <1>u, <1>f DEF Accounted
  <2>1. CASE j = i
    <3>1. Len(resultChan) + 1 \in 1..Len(resultChan') BY <1>t
    <3> QED BY <3>1, <2>1, <1>t, <1>r
  <2>2. CASE j # i
    <3>1. g[j] \in {"sent", "done"} BY <2>2, <1>g DEF TarIInv, Types
    <3>2. results[j] = j \/ \E k \in 1..Len(resultChan) : resultChan[k].index = j
      BY <3>1 DEF TarIInv, Accounted
    <3>3. \A k \in 1..Len(resultChan) : k \in 1..Len(resultChan') BY <1>t
    <3> QED BY <3>2, <3>3, <1>t
  <2> QED BY <2>1, <2>2
<1>5. ClosedLast' BY <1>d, <1>u DEF ClosedLast
<1>6. AllStored' /\ Prefix' /\ Running' /\ ArchiveComplete'
  BY <1>u, <1>f DEF TarIInv, AllStored, Prefix, Running, ArchiveComplete
<1> QED BY <1>1, <1>2, <1>3, <1>4, <1>5, <1>6 DEF TarIInv

\* The other steps of the goroutines, and the closing one.
LEMMA QuietStep ==
  ASSUME TarIInv, CloseChan \/ \E i \in File : Acquire(i) \/ Exit(i)
  PROVE  TarIInv'
PROOF
<1>u. UNCHANGED <<kinds, pc, next, resultChan, results, archive, res>> BY DEF CloseChan, Acquire, Exit
<1>f. File' = File BY <1>u DEF File
<1>g. \/ g' = g /\ Spawned /\ \A i \in File : g[i] = "done"
      \/ chanClosed' = chanClosed /\ \E i \in File : g[i] = "start" /\ g' = [g EXCEPT ![i] = "read"]
      \/ chanClosed' = chanClosed /\ \E i \in File : g[i] = "sent" /\ g' = [g EXCEPT ![i] = "done"]
  BY DEF CloseChan, Acquire, Exit
<1>1. Types'
  <2>1. g' \in [File -> {"none", "start", "read", "sent", "done"}] BY <1>g DEF TarIInv, Types
  <2> QED BY <1>u, <1>f, <2>1 DEF TarIInv, Types
<1>2. ChanReadable' /\ StoredOwn' BY <1>u, <1>f DEF TarIInv, ChanReadable, StoredOwn, Readable
<1>3. Accounted'
  <2>1. \A i \in File : g'[i] \in {"sent", "done"} => g[i] \in {"sent", "done"}
    BY <1>g DEF TarIInv, Types
  <2> QED BY <2>1, <1>u, <1>f DEF TarIInv, Accounted
<1>4. ClosedLast'
  <2>1. CASE g' = g /\ Spawned /\ \A i \in File : g[i] = "done"
    <3>1. pc \in {"collect", "write", "done"} BY <2>1 DEF TarIInv, Types, Spawned
    <3> QED BY <3>1, <2>1, <1>u, <1>f DEF ClosedLast
  <2>2. CASE chanClosed' = chanClosed /\ \E i \in File : g[i] # "done"
    BY <2>2 DEF TarIInv, ClosedLast
  <2> QED BY <1>g, <2>1, <2>2
<1>5. AllStored' /\ Prefix' /\ Running' /\ ArchiveComplete'
  BY <1>u, <1>f DEF TarIInv, AllStored, Prefix, Running, ArchiveComplete
<1> QED BY <1>1, <1>2, <1>3, <1>4, <1>5 DEF TarIInv

\* A step that changes nothing.
LEMMA TarStutter == ASSUME TarIInv, UNCHANGED tarVars PROVE TarIInv'
PROOF
<1>u. UNCHANGED <<kinds, pc, next, g, resultChan, chanClosed, results, archive, res>> BY DEF tarVars
<1>f. File' = File BY <1>u DEF File
<1>1. Types' BY <1>u, <1>f DEF TarIInv, Types
<1>2. ChanReadable' BY <1>u DEF TarIInv, ChanReadable, Readable
<1>3. StoredOwn' BY <1>u, <1>f DEF TarIInv, StoredOwn, Readable
<1>4. Accounted' BY <1>u, <1>f DEF TarIInv, Accounted
<1>5. ClosedLast' /\ AllStored' BY <1>u, <1>f DEF TarIInv, ClosedLast, AllStored
<1>6. Prefix' /\ Running' /\ ArchiveComplete'
  BY <1>u, <1>f DEF TarIInv, Prefix, Running, ArchiveComplete
<1> QED BY <1>1, <1>2, <1>3, <1>4, <1>5, <1>6 DEF TarIInv

LEMMA TarNextInv == ASSUME TarIInv, [TarNext]_tarVars PROVE TarIInv'
PROOF
<1>1. CASE Caller
  BY <1>1, PlainStep, EntryStep, CloseStep, CollectStep, CollectEndStep
     DEF Caller, Sequential, Concurrent
<1>2. CASE CloseChan BY <1>2, QuietStep
<1>3. CASE \E i \in File : Goroutine(i)
  <2>1. PICK i \in File : Goroutine(i) BY <1>3
  <2>2. CASE Send(i) BY <2>2, SendStep
  <2>3. CASE Acquire(i) \/ Exit(i) BY <2>3, QuietStep
  <2> QED BY <2>1, <2>2, <2>3 DEF Goroutine
<1>4. CASE UNCHANGED tarVars BY <1>4, TarStutter
<1> QED BY <1>1, <1>2, <1>3, <1>4 DEF TarNext

LEMMA TarInv == TarSpec => []TarIInv
PROOF
<1>1. TarIInv /\ [TarNext]_tarVars => TarIInv' BY TarNextInv
<1> QED BY <1>1, TarInitInv, PTL DEF TarSpec

\* TarDir: whatever order the goroutines finish in, an archive returned without
\* an error holds every file once, in the order of the walk.
THEOREM ArchiveIsComplete == TarSpec => []ArchiveComplete
PROOF
<1>1. TarIInv => ArchiveComplete BY DEF TarIInv
<1> QED BY <1>1, TarInv, PTL

-----------------------------------------------------------------------------
(* The semaphore and the remaining types.                                  *)

\* The semaphore never has more holders than slots, although a goroutine that
\* finds it full goes on without one.
Slots == token \subseteq File /\ IsFiniteSet(token) /\ Cardinality(token) <= MaxWorkers

LEMMA SlotsNext == ASSUME TarIInv, Slots, [TarNext]_tarVars PROVE Slots'
PROOF
<1>f. kinds' = kinds /\ File' = File
  <2>1. kinds' = kinds
    BY DEF TarNext, Caller, Count, WalkFails, Sequential, SeqFile, SeqClose, Concurrent, List, Spawn,
           SpawnCloser, Collect, CollectEnd, Write, CloseWriter, CloseChan, Goroutine, Acquire, Send, Exit, tarVars
  <2> QED BY <2>1 DEF File
<1>1. CASE Caller \/ CloseChan \/ UNCHANGED tarVars
  <2>1. token' = token
    BY <1>1 DEF Caller, Count, WalkFails, Sequential, SeqFile, SeqClose, Concurrent, List, Spawn,
                SpawnCloser, Collect, CollectEnd, Write, CloseWriter, CloseChan, tarVars
  <2> QED BY <2>1, <1>f DEF Slots
<1>2. ASSUME NEW i \in File, Goroutine(i) PROVE Slots'
  <2>0. MaxWorkers \in Nat /\ Cardinality(token) \in Nat
    BY TarAssumption, FS_CardinalityType DEF Slots
  <2>1. \/ token' = token
        \/ token' = token \cup {i} /\ Cardinality(token) < MaxWorkers
        \/ token' = token \ {i}
    BY <1>2 DEF Goroutine, Acquire, Send, Exit
  <2>2. CASE token' = token BY <2>2, <1>f DEF Slots
  <2>3. CASE token' = token \cup {i} /\ Cardinality(token) < MaxWorkers
    <3>1. /\ IsFiniteSet(token \cup {i})
          /\ Cardinality(token \cup {i}) = IF i \in token THEN Cardinality(token) ELSE Cardinality(token) + 1
      BY FS_AddElement DEF Slots
    <3>2. Cardinality(token \cup {i}) <= MaxWorkers
      BY ONLY <2>0, <2>3, <3>1
    <3> QED BY <2>3, <3>1, <3>2, <1>f DEF Slots
  <2>4. CASE token' = token \ {i}
    <3>1. /\ IsFiniteSet(token \ {i})
          /\ Cardinality(token \ {i}) = IF i \in token THEN Cardinality(token) - 1 ELSE Cardinality(token)
      BY FS_RemoveElement DEF Slots
    <3>2. Cardinality(token) <= MaxWorkers BY DEF Slots
    <3>3. Cardinality(token \ {i}) <= MaxWorkers
      BY ONLY <2>0, <3>1, <3>2
    <3> QED BY <2>4, <3>1, <3>3, <1>f DEF Slots
  <2> QED BY <2>1, <2>2, <2>3, <2>4
<1> QED BY <1>1, <1>2 DEF TarNext

\* The archive holds files only, and the loop stays within them.
Bounds ==
  /\ archive \in Seq(File)
  /\ next <= Len(kinds) + 1
  /\ huge \in BOOLEAN /\ chanClosed \in BOOLEAN

LEMMA BoundsNext == ASSUME TarIInv, Bounds, [TarNext]_tarVars PROVE Bounds'
PROOF
<1>0. /\ File = 1..Len(kinds) /\ Len(kinds) \in Nat /\ next \in Nat
      /\ archive \in Seq(File) /\ next <= Len(kinds) + 1
  BY FileFacts DEF TarIInv, Types, Bounds
<1>f. kinds' = kinds /\ File' = File /\ huge' = huge
  <2>1. kinds' = kinds /\ huge' = huge
    BY DEF TarNext, Caller, Count, WalkFails, Sequential, SeqFile, SeqClose, Concurrent, List, Spawn,
           SpawnCloser, Collect, CollectEnd, Write, CloseWriter, CloseChan, Goroutine, Acquire, Send, Exit, tarVars
  <2> QED BY <2>1 DEF File
<1>1. chanClosed' = chanClosed \/ chanClosed' = TRUE
  BY DEF TarNext, Caller, Count, WalkFails, Sequential, SeqFile, SeqClose, Concurrent, List, Spawn,
         SpawnCloser, Collect, CollectEnd, Write, CloseWriter, CloseChan, Goroutine, Acquire, Send, Exit, tarVars
<1>2. \/ next' = next /\ archive' = archive
      \/ next' = 1 /\ archive' = archive
      \/ next \in File /\ next' = next + 1 /\ archive' = archive
      \/ next \in File /\ next' = next + 1 /\ \E x \in File : archive' = Append(archive, x)
  <2>1. CASE Write
    <3>1. results[next] # 0 => results[next] \in File
      BY <2>1 DEF Write, TarIInv, StoredOwn
    <3> QED BY <2>1, <3>1 DEF Write
  <2>2. CASE SeqFile BY <2>2 DEF SeqFile
  <2>3. CASE Spawn \/ SpawnCloser BY <2>3 DEF Spawn, SpawnCloser
  <2>4. CASE Count \/ WalkFails \/ SeqClose \/ List \/ Collect \/ CollectEnd \/ CloseWriter
    BY <2>4 DEF Count, WalkFails, SeqClose, List, Collect, CollectEnd, CloseWriter
  <2>5. CASE CloseChan \/ \E i \in File : Goroutine(i)
    BY <2>5 DEF CloseChan, Goroutine, Acquire, Send, Exit
  <2>6. CASE UNCHANGED tarVars BY <2>6 DEF tarVars
  <2> QED BY <2>1, <2>2, <2>3, <2>4, <2>5, <2>6 DEF TarNext, Caller, Sequential, Concurrent
<1>3. archive' \in Seq(File)
  <2>1. \A x \in File : Append(archive, x) \in Seq(File) BY <1>0, AppendProperties
  <2> QED BY ONLY <1>0, <1>2, <2>1
<1>4. next' <= Len(kinds) + 1 BY ONLY <1>0, <1>2
<1>5. huge' \in BOOLEAN /\ chanClosed' \in BOOLEAN BY <1>f, <1>1, Zenon DEF Bounds
<1> QED BY <1>3, <1>4, <1>5, <1>f, Zenon DEF Bounds

\* Types, with the capacity of the semaphore: TarDirConcurrent stores results
\* and writes entries of files only, and never holds more slots than there are.
THEOREM TarDirTypes == TarSpec => []TarTypeOK
PROOF
<1>1. TarInit => Slots /\ Bounds
  <2> SUFFICES ASSUME TarInit PROVE Slots /\ Bounds OBVIOUS
  <2>1. Slots BY FS_EmptySet, TarAssumption DEF TarInit, Slots
  <2>2. Len(kinds) \in Nat BY TarInitInv, FileFacts DEF TarIInv
  <2>3. archive \in Seq(File) /\ next <= Len(kinds) + 1 BY <2>2, EmptySeq DEF TarInit
  <2>4. huge \in BOOLEAN /\ chanClosed \in BOOLEAN BY Zenon DEF TarInit
  <2> QED BY <2>1, <2>3, <2>4, Zenon DEF Bounds
<1>2. TarIInv /\ Slots /\ Bounds /\ [TarNext]_tarVars => Slots' /\ Bounds' BY SlotsNext, BoundsNext
<1>3. TarIInv /\ Slots /\ Bounds => TarTypeOK
  <2> SUFFICES ASSUME TarIInv, Slots, Bounds PROVE TarTypeOK OBVIOUS
  <2>1. results \in [File -> File \cup {0}] BY DEF TarIInv, Types, StoredOwn
  <2>2. next \in 1..(Len(kinds) + 1)
    BY FileFacts DEF TarIInv, Types, Bounds
  <2>3. /\ kinds \in Seq(Kind) /\ pc \in {"count", "seq", "list", "spawn", "collect", "write", "done"}
        /\ g \in [File -> {"none", "start", "read", "sent", "done"}]
        /\ resultChan \in Seq([index : File, ok : BOOLEAN])
        /\ res \in {"none", "ok", "walk", "file", "panic"}
    BY DEF TarIInv, Types
  <2>4. /\ huge \in BOOLEAN /\ chanClosed \in BOOLEAN /\ archive \in Seq(File)
        /\ token \subseteq File /\ Cardinality(token) <= MaxWorkers
    BY Zenon DEF Bounds, Slots
  <2> QED BY <2>1, <2>2, <2>3, <2>4, Zenon DEF TarTypeOK
<1> QED BY <1>1, <1>2, <1>3, TarInv, PTL DEF TarSpec

-----------------------------------------------------------------------------
(* Why TarDir fails.                                                       *)

Large == Len(kinds) > Threshold \/ huge

\* The concurrent variant runs for large directories only, and a result with an
\* error is of a file that is bad or empty.
Cause ==
  /\ pc \in {"list", "spawn", "collect", "write"} => Large
  /\ \A k \in 1..Len(resultChan) :
       ~resultChan[k].ok => kinds[resultChan[k].index] \in {"bad", "empty"} /\ resultChan[k].index \in File
  /\ FailureHasCause

LEMMA CauseNext == ASSUME TarIInv, Cause, [TarNext]_tarVars PROVE Cause'
PROOF
<1>f. kinds' = kinds /\ File' = File /\ Large' = Large
  <2>1. kinds' = kinds /\ huge' = huge
    BY DEF TarNext, Caller, Count, WalkFails, Sequential, SeqFile, SeqClose, Concurrent, List, Spawn,
           SpawnCloser, Collect, CollectEnd, Write, CloseWriter, CloseChan, Goroutine, Acquire, Send, Exit, tarVars
  <2> QED BY <2>1 DEF File, Large
<1>t. resultChan \in Seq([index : File, ok : BOOLEAN]) BY DEF TarIInv, Types
<1>c. FailureHasCause' <=>
        (res' = "file" => (\E i \in File : kinds[i] \in {"bad", "changed"})
                          \/ (Large /\ \E i \in File : kinds[i] = "empty"))
  BY <1>f DEF FailureHasCause, Large
<1>1. CASE Count
  BY <1>1, <1>f, <1>c DEF Count, Cause, Large, FailureHasCause
<1>2. CASE WalkFails \/ SeqClose \/ List \/ Spawn \/ SpawnCloser \/ CollectEnd \/ CloseWriter
  BY <1>2, <1>f, <1>c DEF WalkFails, SeqClose, List, Spawn, SpawnCloser, CollectEnd, CloseWriter, Return,
                          Cause, Large, FailureHasCause
<1>3. CASE SeqFile
  BY <1>3, <1>f, <1>c DEF SeqFile, Return, Cause, Large, FailureHasCause
<1>4. CASE Write
  <2>1. results[next] # 0 => results[next] \in File BY <1>4 DEF Write, TarIInv, StoredOwn
  <2> QED BY <1>4, <2>1, <1>f, <1>c DEF Write, Return, Cause, Large, FailureHasCause
<1>5. CASE Collect
  <2>1. /\ resultChan # << >> /\ resultChan' = Tail(resultChan) /\ pc = "collect"
        /\ \/ pc' = "done" /\ res' = "file" /\ ~Head(resultChan).ok
           \/ UNCHANGED <<pc, res>>
    BY <1>5 DEF Collect, Return
  <2>2. /\ Len(resultChan) \in Nat \ {0} /\ Len(Tail(resultChan)) = Len(resultChan) - 1
        /\ \A k \in 1..Len(Tail(resultChan)) : Tail(resultChan)[k] = resultChan[k + 1]
    BY <1>t, <2>1, HeadTailProperties, LenProperties, EmptySeq
  <2>3. Head(resultChan) = resultChan[1] BY <1>t, <2>1
  <2>4. \A k \in 1..Len(resultChan') :
          ~resultChan'[k].ok => kinds[resultChan'[k].index] \in {"bad", "empty"} /\ resultChan'[k].index \in File
    <3>1. \A k \in 1..Len(resultChan') : k + 1 \in 1..Len(resultChan) /\ resultChan'[k] = resultChan[k + 1]
      BY ONLY <2>1, <2>2
    <3> QED BY <3>1 DEF Cause
  <2>5. Large /\ (~Head(resultChan).ok => \E i \in File : kinds[i] \in {"bad", "empty"})
    BY <2>1, <2>2, <2>3 DEF Cause
  <2>6. FailureHasCause'
    BY <1>c, <2>1, <2>5 DEF Cause, FailureHasCause, Large
  <2> QED BY <1>f, <2>1, <2>4, <2>5, <2>6 DEF Cause
<1>6. ASSUME NEW i \in File, Send(i) PROVE Cause'
  <2>1. /\ UNCHANGED <<pc, res>>
        /\ resultChan' = Append(resultChan, [index |-> i, ok |-> kinds[i] \in {"data", "changed"}])
    BY <1>6 DEF Send
  <2>2. /\ [index |-> i, ok |-> kinds[i] \in {"data", "changed"}] \in [index : File, ok : BOOLEAN]
        /\ kinds[i] \in Kind
    BY FileFacts, ElementOfSeq DEF TarIInv, Types
  <2>3. /\ Len(resultChan') = Len(resultChan) + 1 /\ Len(resultChan) \in Nat
        /\ \A k \in 1..Len(resultChan) : resultChan'[k] = resultChan[k]
        /\ resultChan'[Len(resultChan) + 1] = [index |-> i, ok |-> kinds[i] \in {"data", "changed"}]
    BY <1>t, <2>1, <2>2, AppendProperties, LenProperties
  <2>4. ASSUME NEW k \in 1..Len(resultChan'), ~resultChan'[k].ok
        PROVE  kinds[resultChan'[k].index] \in {"bad", "empty"} /\ resultChan'[k].index \in File
    <3>1. k \in 1..Len(resultChan) \/ k = Len(resultChan) + 1 BY ONLY <2>3, <2>4
    <3>2. CASE k \in 1..Len(resultChan) BY <2>3, <2>4, <3>2 DEF Cause
    <3>3. CASE k = Len(resultChan) + 1
      <4> DEFINE read == kinds[i] \in {"data", "changed"}
      <4>b. resultChan'[k] = [index |-> i, ok |-> read] BY ONLY <2>3, <3>3
      <4>c. read \in BOOLEAN OBVIOUS
      <4> HIDE DEF read
      <4>d. resultChan'[k].index = i /\ (resultChan'[k].ok = read) BY ONLY <4>b, <4>c
      <4>e. ~read BY ONLY <2>4, <4>d
      <4>1. resultChan'[k].index = i /\ ~(kinds[i] \in {"data", "changed"}) BY <4>d, <4>e DEF read
      <4> QED BY <4>1, <2>2 DEF Kind
    <3> QED BY <3>1, <3>2, <3>3
  <2>5. FailureHasCause' BY <1>c, <2>1 DEF Cause, FailureHasCause, Large
  <2> QED BY <1>f, <2>1, <2>4, <2>5 DEF Cause
<1>7. CASE CloseChan \/ (\E i \in File : Acquire(i) \/ Exit(i)) \/ UNCHANGED tarVars
  <2>1. UNCHANGED <<pc, resultChan, res>> BY <1>7 DEF CloseChan, Acquire, Exit, tarVars
  <2> QED BY <2>1, <1>f, <1>c DEF Cause, FailureHasCause, Large
<1> QED
  BY <1>1, <1>2, <1>3, <1>4, <1>5, <1>6, <1>7 DEF TarNext, Caller, Sequential, Concurrent, Goroutine

\* TarDir reports a file error only for a file that cannot be archived; empty
\* files count as such for large directories alone (TarDirConcurrent).
THEOREM FailuresHaveCauses == TarSpec => []FailureHasCause
PROOF
<1>1. TarInit => Cause
  <2> SUFFICES ASSUME TarInit PROVE Cause OBVIOUS
  <2>1. Len(resultChan) = 0 /\ pc = "count" /\ res = "none" BY EmptySeq DEF TarInit
  <2> QED BY <2>1 DEF Cause, FailureHasCause
<1>2. TarIInv /\ Cause /\ [TarNext]_tarVars => Cause' BY CauseNext
<1>3. Cause => FailureHasCause BY DEF Cause
<1> QED BY <1>1, <1>2, <1>3, TarInv, PTL DEF TarSpec
==============================================================================
