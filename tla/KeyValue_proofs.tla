---------------------------- MODULE KeyValue_proofs ----------------------------
(***************************************************************************)
(* Proofs about the key value server, for any builds, groups and ages: the *)
(* types, the discipline of the lock, which keeps the map from being used  *)
(* by two calls of which one writes, whose token a build reads and why it  *)
(* may read none.  The argument about tokens follows what a build has yet  *)
(* to call: its posts come before its read, its group's peers begin only   *)
(* after every earlier group is done, and nothing is read once the engine  *)
(* has ended.                                                              *)
(***************************************************************************)
EXTENDS KeyValue, TLAPS, SequenceTheorems

------------------------------------------------------------------------------
(* The invariant *)

Call == [do : {"post", "get", "mem"}, key : Key, value : Build \cup {None, Empty}]

\* The calls a build has left: before it begins there are none, and only a
\* build with tokens has any to post.
Calls ==
  /\ calls \in [Build -> Seq(Call)]
  /\ \A b \in Build :
    /\ b \notin begun => ~Busy(b)
    /\ \A i \in 1..Len(calls[b]) :
         IF calls[b][i].do = "post"
         THEN b \in obtained /\ calls[b][i].value \in Build \cup {Empty}
         ELSE calls[b][i].value = None

\* A call under way is one of a busy build and of an engine that runs; the
\* handler lets no empty body in.
UnderWay ==
  \A b \in Build :
    /\ at[b] # "idle" => Busy(b) /\ listening
    /\ at[b] \in {"admitted", "locked"} => Current(b).value # Empty

\* mu is held by the calls between lock and unlock, and no others; a writer
\* holds it alone.
Locked ==
  /\ \A b \in Build : b \in readers <=> at[b] = "locked" /\ Current(b).do # "post"
  /\ \A b \in Build : b \in writers <=> at[b] = "locked" /\ Current(b).do = "post"
  /\ \A b \in writers : writers = {b} /\ readers = {}

IInv == TypeOK /\ Calls /\ UnderWay /\ Locked

------------------------------------------------------------------------------
(* What becomes of the calls *)

\* The calls without the first are calls.
LEMMA TailFacts ==
  ASSUME NEW S, NEW q \in Seq(S), q # <<>>
  PROVE  /\ Head(q) \in S /\ Head(q) = q[1] /\ 1 \in 1..Len(q)
         /\ Tail(q) \in Seq(S)
         /\ \A i \in 1..Len(Tail(q)) : i + 1 \in 1..Len(q) /\ Tail(q)[i] = q[i + 1]
<1>1. Len(q) \in Nat /\ Len(q) # 0
  BY LenProperties, EmptySeq
<1>2. Head(q) \in S /\ Tail(q) \in Seq(S) /\ Len(Tail(q)) = Len(q) - 1
  BY HeadTailProperties
<1>3. Head(q) = q[1] /\ \A i \in 1..Len(Tail(q)) : Tail(q)[i] = q[i + 1]
  BY HeadTailProperties
<1> QED
  BY <1>1, <1>2, <1>3

\* The elements of a concatenation are those of its parts.
LEMMA ConcatElements ==
  ASSUME NEW S, NEW s \in Seq(S), NEW t \in Seq(S)
  PROVE  /\ s \o t \in Seq(S)
         /\ \A i \in 1..Len(s \o t) :
              (\E j \in 1..Len(s) : (s \o t)[i] = s[j]) \/ (\E j \in 1..Len(t) : (s \o t)[i] = t[j])
<1>1. Len(s) \in Nat /\ Len(t) \in Nat
  BY LenProperties
<1>2. s \o t \in Seq(S) /\ Len(s \o t) = Len(s) + Len(t)
  BY ConcatProperties
<1>3. ASSUME NEW i \in 1..(Len(s) + Len(t))
      PROVE  (\E j \in 1..Len(s) : (s \o t)[i] = s[j]) \/ (\E j \in 1..Len(t) : (s \o t)[i] = t[j])
  <2>1. (s \o t)[i] = IF i <= Len(s) THEN s[i] ELSE t[i - Len(s)]
    BY ConcatProperties
  <2>2. CASE i <= Len(s)
    BY <1>1, <2>1, <2>2
  <2>3. CASE ~(i <= Len(s))
    <3>1. i - Len(s) \in 1..Len(t)
      BY <1>1, <2>3
    <3> QED
      BY <2>1, <2>3, <3>1
  <2> QED
    BY <2>2, <2>3
<1> QED
  BY <1>2, <1>3

\* What a build begins with: its posts, if it was given tokens, and two reads.
LEMMA BeginFacts ==
  ASSUME NEW b \in Build,
         NEW posts \in { <<>>,
                         <<Post("idtoken", b), Post("accesstoken", b)>>,
                         <<Post("idtoken", Empty), Post("accesstoken", b)>> }
  PROVE  /\ posts \o <<Get, Mem>> \in Seq(Call)
         /\ \A i \in 1..Len(posts \o <<Get, Mem>>) :
              IF (posts \o <<Get, Mem>>)[i].do = "post"
              THEN posts # <<>> /\ (posts \o <<Get, Mem>>)[i].value \in Build \cup {Empty}
              ELSE (posts \o <<Get, Mem>>)[i].value = None
<1> DEFINE reads == <<Get, Mem>>
<1> DEFINE Posts == \A j \in 1..Len(posts) :
                     posts # <<>> /\ posts[j].do = "post" /\ posts[j].value \in Build \cup {Empty}
<1>1. Get \in Call /\ Mem \in Call /\ \A r \in {Get, Mem} : r.do # "post" /\ r.value = None
  BY DEF Get, Mem, Call, Key
<1>2. reads \in Seq(Call) /\ \A j \in 1..Len(reads) : reads[j].do # "post" /\ reads[j].value = None
  BY <1>1
<1>3. \A key \in Key, v \in {b, Empty} :
        Post(key, v) \in Call /\ Post(key, v).do = "post" /\ Post(key, v).value \in Build \cup {Empty}
  BY DEF Post, Call
<1>4. "idtoken" \in Key /\ "accesstoken" \in Key
  BY DEF Key
<1>5. posts \in Seq(Call) /\ Posts
  <2>1. CASE posts = <<>>
    BY <2>1
  <2>2. ASSUME NEW v \in {b, Empty}, posts = <<Post("idtoken", v), Post("accesstoken", b)>>
        PROVE  posts \in Seq(Call) /\ Posts
    BY <1>3, <1>4, <2>2
  <2> QED
    BY <2>1, <2>2
<1> HIDE DEF reads
<1>6. /\ posts \o reads \in Seq(Call)
      /\ \A i \in 1..Len(posts \o reads) :
           \/ \E j \in 1..Len(posts) : (posts \o reads)[i] = posts[j]
           \/ \E j \in 1..Len(reads) : (posts \o reads)[i] = reads[j]
  BY ONLY <1>2, <1>5, ConcatElements
<1>7. /\ posts \o reads \in Seq(Call)
      /\ \A i \in 1..Len(posts \o reads) :
           IF (posts \o reads)[i].do = "post"
           THEN posts # <<>> /\ (posts \o reads)[i].value \in Build \cup {Empty}
           ELSE (posts \o reads)[i].value = None
  BY ONLY <1>2, <1>5, <1>6
<1> QED
  BY <1>7 DEF reads

LEMMA InitInv == Init => IInv
<1>1. SUFFICES ASSUME Init PROVE IInv
  OBVIOUS
<1>2. TypeOK
  BY <1>1 DEF Init, TypeOK, None
<1>3. Calls
  <2>1. calls = [b \in Build |-> <<>>] /\ <<>> \in Seq(Call) /\ Len(<<>>) = 0
    BY <1>1, EmptySeq DEF Init
  <2> QED
    BY <2>1 DEF Calls, Busy
<1>4. UnderWay /\ Locked
  BY <1>1 DEF Init, UnderWay, Locked
<1> QED
  BY <1>2, <1>3, <1>4 DEF IInv

------------------------------------------------------------------------------
(* Every step, one after the other *)

\* A call that is over leaves the others of its build, and all of the other
\* builds, as they were.
LEMMA CallsAfterAnswer ==
  ASSUME Calls, at \in [Build -> {"idle", "sent", "admitted", "locked"}],
         NEW b \in Build, Busy(b), Answered(b), begun' = begun, obtained' = obtained
  PROVE  /\ Calls'
         /\ b \in begun
         /\ at'[b] = "idle"
         /\ \A c \in Build \ {b} : at'[c] = at[c] /\ calls'[c] = calls[c]
<1>1. calls[b] \in Seq(Call) /\ calls[b] # <<>> /\ b \in begun
  BY DEF Calls, Busy
<1>2. /\ Tail(calls[b]) \in Seq(Call)
      /\ \A i \in 1..Len(Tail(calls[b])) : i + 1 \in 1..Len(calls[b]) /\ Tail(calls[b])[i] = calls[b][i + 1]
  BY <1>1, TailFacts
<1>3. at'[b] = "idle" /\ \A c \in Build \ {b} : at'[c] = at[c]
  BY DEF Answered
<1>4. calls' = [calls EXCEPT ![b] = Tail(calls[b])]
  BY DEF Answered
<1>5. calls'[b] = Tail(calls[b]) /\ \A c \in Build \ {b} : calls'[c] = calls[c]
  BY <1>4 DEF Calls
<1>6. calls' \in [Build -> Seq(Call)]
  BY <1>2, <1>4 DEF Calls
<1>7. ASSUME NEW c \in Build
      PROVE  /\ c \notin begun' => ~Busy(c)'
             /\ \A i \in 1..Len(calls'[c]) :
                  IF calls'[c][i].do = "post"
                  THEN c \in obtained' /\ calls'[c][i].value \in Build \cup {Empty}
                  ELSE calls'[c][i].value = None
  <2>1. CASE c = b
    <3> DEFINE q == calls[b]
               t == Tail(q)
               Fits(r) == IF r.do = "post" THEN b \in obtained /\ r.value \in Build \cup {Empty} ELSE r.value = None
    <3>1. \A i \in 1..Len(q) : Fits(q[i])
      BY DEF Calls
    <3>2. \A i \in 1..Len(t) : i + 1 \in 1..Len(q) /\ t[i] = q[i + 1]
      BY <1>2
    <3> HIDE DEF q, t
    <3>3. \A i \in 1..Len(t) : Fits(t[i])
      BY <3>1, <3>2
    <3> QED
      BY <1>1, <1>5, <2>1, <3>3 DEF q, t
  <2>2. CASE c # b
    BY <1>5, <2>2 DEF Calls, Busy
  <2> QED
    BY <2>1, <2>2
<1>8. Calls'
  BY <1>6, <1>7 DEF Calls
<1> QED
  BY <1>1, <1>3, <1>5, <1>8

\* The call a busy build has under way.
LEMMA CurrentFacts ==
  ASSUME Calls, NEW b \in Build, Busy(b)
  PROVE  /\ b \in begun
         /\ Current(b) \in Call
         /\ IF Current(b).do = "post"
            THEN b \in obtained /\ Current(b).value \in Build \cup {Empty}
            ELSE Current(b).value = None
<1>1. calls[b] \in Seq(Call) /\ calls[b] # <<>> /\ b \in begun
  BY DEF Calls, Busy
<1>2. Head(calls[b]) \in Call /\ Head(calls[b]) = calls[b][1] /\ 1 \in 1..Len(calls[b])
  BY <1>1, TailFacts
<1> QED
  BY <1>1, <1>2 DEF Calls, Current

\* A request is on its way.
LEMMA SendStep == ASSUME IInv, NEW b \in Build, Send(b) PROVE IInv'
<1>1. TypeOK'
  BY DEF Send, IInv, mu, TypeOK
<1>2. Calls'
  BY DEF Send, IInv, mu, TypeOK, Calls, Busy
<1>3. UnderWay'
  <2>1. Busy(b) /\ listening' = TRUE /\ calls' = calls /\ at \in [Build -> {"idle", "sent", "admitted", "locked"}]
    BY DEF Send, IInv, TypeOK
  <2>2. at'[b] = "admitted" => Current(b).value = None
    BY <2>1, CurrentFacts DEF Send, IInv
  <2>3. at'[b] # "locked" /\ \A c \in Build \ {b} : at'[c] = at[c]
    BY <2>1 DEF Send
  <2> QED
    BY <2>1, <2>2, <2>3 DEF IInv, UnderWay, Busy, Current, None, Empty
<1>4. Locked'
  BY DEF Send, IInv, mu, TypeOK, UnderWay, Locked, Busy, Current
<1> QED
  BY <1>1, <1>2, <1>3, <1>4 DEF IInv

\* A reader enters: there is no writer.
LEMMA RLockStep == ASSUME IInv, NEW b \in Build, RLock(b) PROVE IInv'
<1>1. TypeOK'
  BY DEF RLock, IInv, mu, TypeOK
<1>2. Calls'
  BY DEF RLock, IInv, mu, TypeOK, Calls, Busy
<1>3. UnderWay'
  BY DEF RLock, IInv, mu, TypeOK, UnderWay, Busy, Current
<1>4. Locked'
  BY DEF RLock, IInv, mu, TypeOK, UnderWay, Locked, Busy, Current
<1> QED
  BY <1>1, <1>2, <1>3, <1>4 DEF IInv

\* The writer enters: there is nobody.
LEMMA LockStep == ASSUME IInv, NEW b \in Build, Lock(b) PROVE IInv'
<1>1. TypeOK'
  BY DEF Lock, IInv, mu, TypeOK
<1>2. Calls'
  BY DEF Lock, IInv, mu, TypeOK, Calls, Busy
<1>3. UnderWay'
  BY DEF Lock, IInv, mu, TypeOK, UnderWay, Busy, Current
<1>4. Locked'
  BY DEF Lock, IInv, mu, TypeOK, UnderWay, Locked, Busy, Current
<1> QED
  BY <1>1, <1>2, <1>3, <1>4 DEF IInv

\* A call without an answer.
LEMMA LoseStep == ASSUME IInv, NEW b \in Build, Lose(b) PROVE IInv'
<1> USE DEF IInv
<1>a. /\ Busy(b) /\ Answered(b) /\ begun' = begun /\ obtained' = obtained /\ listening' = listening
      /\ at \in [Build -> {"idle", "sent", "admitted", "locked"}] /\ at[b] # "locked"
      /\ readers' = readers /\ writers' = writers
  BY DEF Lose, TypeOK, UnderWay, Locked, mu
<1>b. /\ Calls' /\ b \in begun /\ at'[b] = "idle"
      /\ \A c \in Build \ {b} : at'[c] = at[c] /\ calls'[c] = calls[c]
  BY <1>a, CallsAfterAnswer
<1>1. TypeOK'
  <2>1. at' \in [Build -> {"idle", "sent", "admitted", "locked"}]
    BY <1>a DEF Answered
  <2> QED
    BY <2>1 DEF Lose, TypeOK, mu
<1>2. Calls'
  BY <1>b
<1>3. UnderWay'
  BY <1>a, <1>b DEF UnderWay, Busy, Current
<1>4. Locked'
  BY <1>a, <1>b DEF Locked, Busy, Current
<1> QED
  BY <1>1, <1>2, <1>3, <1>4 DEF IInv

\* A reader leaves with what the store has.
LEMMA GetValStep == ASSUME IInv, NEW b \in Build, GetVal(b) PROVE IInv'
<1> USE DEF IInv
<1>a. /\ Busy(b) /\ Answered(b) /\ begun' = begun /\ obtained' = obtained /\ listening' = listening
      /\ at \in [Build -> {"idle", "sent", "admitted", "locked"}]
      /\ at[b] = "locked" /\ Current(b).do # "post" /\ readers' = readers \ {b} /\ writers' = writers
  BY DEF GetVal, TypeOK, UnderWay, Locked, mu
<1>b. /\ Calls' /\ b \in begun /\ at'[b] = "idle"
      /\ \A c \in Build \ {b} : at'[c] = at[c] /\ calls'[c] = calls[c]
  BY <1>a, CallsAfterAnswer
<1>1. TypeOK'
  <2>1. at' \in [Build -> {"idle", "sent", "admitted", "locked"}]
    BY <1>a DEF Answered
  <2>2. store["accesstoken"] \in Build \cup {None}
    BY DEF TypeOK, Key
  <2>3. read' \in [Build -> [get : Build \cup {None}, mem : Build \cup {None}]]
    BY <2>2 DEF GetVal, TypeOK
  <2> QED
    BY <2>1, <2>3 DEF GetVal, TypeOK
<1>2. Calls'
  BY <1>b
<1>3. UnderWay'
  BY <1>a, <1>b DEF UnderWay, Busy, Current
<1>4. Locked'
  BY <1>a, <1>b DEF Locked, Busy, Current
<1> QED
  BY <1>1, <1>2, <1>3, <1>4 DEF IInv

\* The writer leaves; the value is that of a build.
LEMMA SetValStep == ASSUME IInv, NEW b \in Build, SetVal(b) PROVE IInv'
<1> USE DEF IInv
<1>a. /\ Busy(b) /\ Answered(b) /\ begun' = begun /\ obtained' = obtained /\ listening' = listening
      /\ at \in [Build -> {"idle", "sent", "admitted", "locked"}]
      /\ at[b] = "locked" /\ Current(b).do = "post"
      /\ readers' = readers \ {b} /\ writers' = writers \ {b}
  BY DEF SetVal, TypeOK, UnderWay, Locked, mu
<1>b. /\ Calls' /\ b \in begun /\ at'[b] = "idle"
      /\ \A c \in Build \ {b} : at'[c] = at[c] /\ calls'[c] = calls[c]
  BY <1>a, CallsAfterAnswer
<1>1. TypeOK'
  <2>1. at' \in [Build -> {"idle", "sent", "admitted", "locked"}]
    BY <1>a DEF Answered
  <2>2. Current(b) \in Call /\ b \in obtained /\ Current(b).value \in Build
    BY <1>a, CurrentFacts DEF UnderWay
  <2>3. Current(b).key \in Key
    BY <2>2 DEF Call
  <2>4. store' \in [Key -> Build \cup {None}]
    BY <2>2, <2>3 DEF SetVal, TypeOK
  <2>5. kept' \subseteq obtained
    BY <2>2 DEF SetVal, TypeOK
  <2> QED
    BY <2>1, <2>4, <2>5 DEF SetVal, TypeOK
<1>2. Calls'
  BY <1>b
<1>3. UnderWay'
  BY <1>a, <1>b DEF UnderWay, Busy, Current
<1>4. Locked'
  BY <1>a, <1>b DEF Locked, Busy, Current
<1> QED
  BY <1>1, <1>2, <1>3, <1>4 DEF IInv

\* A call is refused, or let in with a body that is not empty.
LEMMA AdmitStep == ASSUME IInv, NEW b \in Build, Admit(b) PROVE IInv'
<1> USE DEF IInv
<1>1. /\ Busy(b) /\ at[b] = "sent" /\ at \in [Build -> {"idle", "sent", "admitted", "locked"}]
      /\ UNCHANGED <<begun, obtained, listening, store, kept, read, lost, clock, readers, writers>>
  BY DEF Admit, TypeOK, UnderWay, mu
<1>2. b \in begun
  BY <1>1, CurrentFacts
<1>3. failed' \subseteq begun'
  BY <1>1, <1>2 DEF Admit, TypeOK
<1>4. CASE Answered(b)
  <2>1. /\ Calls' /\ at'[b] = "idle"
        /\ \A c \in Build \ {b} : at'[c] = at[c] /\ calls'[c] = calls[c]
    BY <1>1, <1>4, CallsAfterAnswer
  <2>2. at' \in [Build -> {"idle", "sent", "admitted", "locked"}]
    BY <1>1, <1>4 DEF Answered
  <2>3. TypeOK'
    BY <1>1, <1>3, <2>2 DEF TypeOK
  <2>4. UnderWay'
    BY <1>1, <2>1 DEF UnderWay, Busy, Current
  <2>5. Locked'
    BY <1>1, <2>1 DEF Locked, Busy, Current
  <2> QED
    BY <2>1, <2>3, <2>4, <2>5
<1>5. CASE ~Answered(b)
  <2>1. /\ Current(b).value # Empty /\ calls' = calls
        /\ at' = [at EXCEPT ![b] = "admitted"] /\ failed' = failed
    BY <1>5 DEF Admit
  <2>2. TypeOK'
    BY <1>1, <2>1 DEF TypeOK
  <2>3. Calls'
    BY <1>1, <2>1 DEF Calls, Busy
  <2>4. UnderWay'
    BY <1>1, <2>1 DEF UnderWay, Busy, Current
  <2>5. Locked'
    BY <1>1, <2>1 DEF Locked, Current
  <2> QED
    BY <2>2, <2>3, <2>4, <2>5
<1> QED
  BY <1>4, <1>5

\* A build begins: it has no call under way.
LEMMA BeginStep == ASSUME IInv, NEW b \in Build, Begin(b) PROVE IInv'
<1> USE DEF IInv
<1>1. PICK posts \in { <<>>,
                       <<Post("idtoken", b), Post("accesstoken", b)>>,
                       <<Post("idtoken", Empty), Post("accesstoken", b)>> } :
        /\ calls' = [calls EXCEPT ![b] = posts \o <<Get, Mem>>]
        /\ obtained' = IF posts = <<>> THEN obtained ELSE obtained \cup {b}
  BY DEF Begin
<1>2. /\ b \notin begun /\ begun' = begun \cup {b}
      /\ UNCHANGED <<clock, listening, store, readers, writers, at, kept, read, failed, lost>>
  BY DEF Begin, mu
<1>3. at[b] = "idle" /\ at \in [Build -> {"idle", "sent", "admitted", "locked"}]
  BY <1>2 DEF TypeOK, Calls, UnderWay
<1> DEFINE q == posts \o <<Get, Mem>>
<1>4. /\ q \in Seq(Call)
      /\ \A i \in 1..Len(q) :
           IF q[i].do = "post" THEN posts # <<>> /\ q[i].value \in Build \cup {Empty}
           ELSE q[i].value = None
  BY BeginFacts
<1>5. posts # <<>> => b \in obtained'
  BY <1>1
<1>6. obtained \subseteq obtained' /\ obtained' \subseteq begun'
  BY <1>1, <1>2 DEF TypeOK
<1>7. calls' = [calls EXCEPT ![b] = q]
  BY <1>1
<1> HIDE DEF q
<1>8. calls'[b] = q /\ \A c \in Build \ {b} : calls'[c] = calls[c]
  BY <1>7 DEF Calls
<1>9. TypeOK'
  BY <1>2, <1>6 DEF TypeOK
<1>10. Calls'
  <2>1. calls' \in [Build -> Seq(Call)]
    BY <1>4, <1>7 DEF Calls
  <2>2. \A i \in 1..Len(q) :
           IF q[i].do = "post" THEN b \in obtained' /\ q[i].value \in Build \cup {Empty}
           ELSE q[i].value = None
    BY <1>4, <1>5
  <2>3. ASSUME NEW c \in Build
        PROVE  /\ c \notin begun' => ~Busy(c)'
               /\ \A i \in 1..Len(calls'[c]) :
                    IF calls'[c][i].do = "post"
                    THEN c \in obtained' /\ calls'[c][i].value \in Build \cup {Empty}
                    ELSE calls'[c][i].value = None
    <3>1. CASE c = b
      BY <1>2, <1>8, <2>2, <3>1
    <3>2. CASE c # b
      BY <1>2, <1>6, <1>8, <3>2 DEF Calls, Busy
    <3> QED
      BY <3>1, <3>2
  <2> QED
    BY <2>1, <2>3 DEF Calls
<1>11. UnderWay'
  BY <1>2, <1>3, <1>8 DEF UnderWay, Busy, Current
<1>12. Locked'
  BY <1>2, <1>3, <1>8 DEF Locked, Current
<1> QED
  BY <1>9, <1>10, <1>11, <1>12

\* The clock disturbs nothing, nor does the listener that is closed when every
\* build is done.
LEMMA FrameStep ==
  ASSUME IInv, clock' \in Nat, listening' \in BOOLEAN,
         listening' = listening \/ \A b \in Build : Done(b),
         UNCHANGED <<store, readers, writers, calls, at, begun, obtained, kept, read, failed, lost>>
  PROVE  IInv'
<1>1. TypeOK'
  BY DEF IInv, TypeOK
<1>2. Calls'
  BY DEF IInv, Calls, Busy
<1>3. Locked'
  BY DEF IInv, Locked, Current
<1>4. UnderWay'
  BY DEF IInv, UnderWay, Done, Busy, Current
<1> QED
  BY <1>1, <1>2, <1>3, <1>4 DEF IInv

\* The engine exits: no call is under way any more, and nobody holds the lock.
LEMMA FailStep == ASSUME IInv, NEW b \in Build, ExecuteBuildFails(b) PROVE IInv'
<1>1. \A c \in Build : at'[c] = "idle"
  BY DEF ExecuteBuildFails
<1>2. TypeOK'
  BY DEF ExecuteBuildFails, IInv, TypeOK
<1>3. Calls'
  BY DEF ExecuteBuildFails, IInv, Calls, Busy
<1>4. UnderWay'
  BY <1>1 DEF UnderWay
<1>5. Locked'
  BY <1>1 DEF ExecuteBuildFails, Locked
<1> QED
  BY <1>2, <1>3, <1>4, <1>5 DEF IInv

LEMMA Invariant == Spec => []IInv
<1>1. IInv /\ [Next]_vars => IInv'
  <2>1. SUFFICES ASSUME IInv, [Next]_vars PROVE IInv'
    OBVIOUS
  <2>2. CASE UNCHANGED vars
    BY <2>1, <2>2, FrameStep DEF vars, mu, IInv, TypeOK
  <2>3. ASSUME NEW b \in Build, Client(b) \/ Handler(b) PROVE IInv'
    BY <2>1, <2>3, BeginStep, SendStep, LoseStep, AdmitStep, RLockStep, GetValStep, LockStep, SetValStep
       DEF Client, Handler
  <2>4. CASE StopServer
    BY <2>1, <2>4, FrameStep DEF StopServer, mu, IInv, TypeOK
  <2>5. CASE Tick
    BY <2>1, <2>5, FrameStep DEF Tick, mu, IInv, TypeOK
  <2>6. ASSUME NEW b \in Build, ExecuteBuildFails(b) PROVE IInv'
    BY <2>1, <2>6, FailStep
  <2> QED
    BY <2>1, <2>2, <2>3, <2>4, <2>5, <2>6 DEF Next
<1> QED
  BY InitInv, <1>1, PTL DEF Spec

------------------------------------------------------------------------------
(* The properties *)

\* Every value has its type: in particular no empty value is ever stored.
THEOREM KeyValueTypes == Spec => []TypeOK
<1>1. IInv => TypeOK
  BY DEF IInv
<1> QED
  BY <1>1, Invariant, PTL

\* Of two calls that use the map at once none writes.
THEOREM MapIsNotRaced == Spec => []MapNotRaced
<1>1. IInv => MapNotRaced
  <2>1. SUFFICES ASSUME IInv, NEW b \in Build, NEW c \in Build,
                        at[b] = "locked", at[c] = "locked", b # c
                 PROVE  Current(b).do # "post" /\ Current(c).do # "post"
    BY DEF MapNotRaced
  <2>2. ASSUME NEW d \in Build, NEW e \in Build, at[d] = "locked", at[e] = "locked", d # e,
               Current(d).do = "post"
        PROVE  FALSE
    <3>1. d \in writers /\ writers = {d} /\ readers = {}
      BY <2>1, <2>2 DEF IInv, Locked
    <3>2. e \in readers \/ e \in writers
      BY <2>1, <2>2 DEF IInv, Locked
    <3> QED
      BY <2>2, <3>1, <3>2
  <2> QED
    BY <2>1, <2>2
<1> QED
  BY <1>1, Invariant, PTL

------------------------------------------------------------------------------
(* Whose token a build gets.                                                 *)

\* The calls of a build are a rest of its posts, its GET and its read by "mem:",
\* so that their number says which of them comes next.
Reads == {<<>>, <<Mem>>, <<Get, Mem>>}
Rest(b) ==
  Reads \cup {<<Post("accesstoken", b), Get, Mem>>}
        \cup {<<Post("idtoken", v), Post("accesstoken", b), Get, Mem>> : v \in {b, Empty}}
Left(b) == Len(calls[b])

\* The builds of the earlier groups are done before a build begins.
Ordered == \A b \in begun, c \in Build : Group[c] < Group[b] => Done(c)

\* While a build whose token was stored is not done, the store has the token of
\* a build of its group; what the reads got before stays what they got.  A read
\* that the end of the engine cut off is that of a build that is never done.
CutOff(b) == Left(b) = 1 /\ ~listening
Own(b) ==
  /\ b \in kept => Left(b) <= 2
  /\ b \in kept /\ Left(b) # 0 => Peer(b, store["accesstoken"])
  /\ b \in kept /\ Left(b) < 2 =>
       \/ Peer(b, read[b].get)
       \/ read[b].get = None /\ (b \in failed \/ lost > 0 \/ CutOff(b))
  /\ b \in kept /\ Left(b) = 0 => Peer(b, read[b].mem)

\* A token that is not in the store although its post is over is accounted for,
\* and with it a read that got none.
Reason == lost > 0 \/ clock > MaxAge
Accounted(b) ==
  /\ b \in obtained /\ Left(b) <= 2 => Reason \/ ~listening \/ store["accesstoken"] # None
  /\ b \notin begun \/ Left(b) >= 2 => read[b].get = None
  /\ b \in begun /\ Left(b) < 2 /\ read[b].get = None =>
       Reason \/ CutOff(b) \/ \A c \in obtained : Group[c] >= Group[b] /\ c # b

TInv ==
  /\ Ordered
  /\ \A b \in Build :
       /\ calls[b] \in Rest(b)
       /\ at[b] = "sent" => Left(b) >= 2
       /\ Own(b) /\ Accounted(b)

\* The call a number stands for.
LEMMA RestFacts ==
  ASSUME NEW b \in Build, NEW q \in Rest(b)
  PROVE  /\ Len(q) \in 0..4
         /\ q = <<>> <=> Len(q) = 0
         /\ Len(q) = 4 => Head(q).do = "post" /\ Head(q).key = "idtoken"
         /\ Len(q) = 3 => Head(q) = Post("accesstoken", b)
         /\ Len(q) = 2 => Head(q) = Get
         /\ Len(q) = 1 => Head(q) = Mem
         /\ Len(q) # 0 => Tail(q) \in Rest(b) /\ Len(Tail(q)) = Len(q) - 1
<1>1. CASE q = <<>>
  BY <1>1
<1>2. CASE q = <<Mem>>
  <2>1. Tail(q) = <<>>
    BY <1>2
  <2> QED
    BY <1>2, <2>1 DEF Rest, Reads
<1>3. CASE q = <<Get, Mem>>
  <2>1. Tail(q) = <<Mem>>
    BY <1>3
  <2> QED
    BY <1>3, <2>1 DEF Rest, Reads
<1>4. CASE q = <<Post("accesstoken", b), Get, Mem>>
  <2>1. Tail(q) = <<Get, Mem>>
    BY <1>4
  <2> QED
    BY <1>4, <2>1 DEF Rest, Reads
<1>5. ASSUME NEW v, q = <<Post("idtoken", v), Post("accesstoken", b), Get, Mem>>
      PROVE  /\ Len(q) = 4 /\ q # <<>> /\ Head(q).do = "post" /\ Head(q).key = "idtoken"
             /\ Tail(q) \in Rest(b) /\ Len(Tail(q)) = 3
  <2>1. Tail(q) = <<Post("accesstoken", b), Get, Mem>>
    BY <1>5
  <2>2. Head(q) = Post("idtoken", v)
    BY <1>5
  <2> QED
    BY <1>5, <2>1, <2>2 DEF Rest, Post
<1>6. PICK v \in {b, Empty} :
        \/ q \in Reads \/ q = <<Post("accesstoken", b), Get, Mem>>
        \/ q = <<Post("idtoken", v), Post("accesstoken", b), Get, Mem>>
  BY DEF Rest
<1>7. CASE q \in Reads
  BY <1>1, <1>2, <1>3, <1>7 DEF Reads
<1>8. CASE q = <<Post("idtoken", v), Post("accesstoken", b), Get, Mem>>
  BY <1>5, <1>8
<1> QED
  BY <1>4, <1>6, <1>7, <1>8

\* What an answer, of whatever kind, does to the number of calls.
LEMMA LeftAfterAnswer ==
  ASSUME IInv, TInv, NEW b \in Build, Busy(b), Answered(b)
  PROVE  /\ Left(b) \in 1..4 /\ Left(b)' = Left(b) - 1 /\ calls'[b] \in Rest(b) /\ at'[b] = "idle"
         /\ \A c \in Build \ {b} : calls'[c] = calls[c] /\ Left(c)' = Left(c) /\ at'[c] = at[c]
<1>1. calls[b] \in Rest(b) /\ calls[b] # <<>>
  BY DEF TInv, Busy
<1>2. /\ Len(calls[b]) \in 1..4
      /\ Tail(calls[b]) \in Rest(b) /\ Len(Tail(calls[b])) = Len(calls[b]) - 1
  BY <1>1, RestFacts
<1>3. /\ calls'[b] = Tail(calls[b]) /\ at'[b] = "idle"
      /\ \A c \in Build \ {b} : calls'[c] = calls[c] /\ at'[c] = at[c]
  BY DEF Answered, IInv, TypeOK, Calls
<1> QED
  BY <1>2, <1>3 DEF Left

\* Which call is the current one.
LEMMA CurrentCall ==
  ASSUME TInv, NEW b \in Build
  PROVE  /\ Left(b) \in 0..4 /\ (Busy(b) <=> Left(b) # 0)
         /\ Left(b) = 4 => Current(b).do = "post" /\ Current(b).key = "idtoken"
         /\ Left(b) = 3 => Current(b).do = "post" /\ Current(b).key = "accesstoken" /\ Current(b).value = b
         /\ Left(b) = 2 => Current(b).do = "get" /\ Current(b).value = None
         /\ Left(b) = 1 => Current(b).do = "mem"
<1>1. calls[b] \in Rest(b)
  BY DEF TInv
<1> QED
  BY <1>1, RestFacts DEF Left, Busy, Current, Post, Get, Mem

\* A begun build whose group precedes that of another begun one is done, so that
\* whoever has a call left is of the last group that has begun.
LEMMA BusyIsLast ==
  ASSUME TInv, NEW b \in begun, NEW c \in Build, Group[c] < Group[b]
  PROVE  c \in begun /\ Left(c) = 0
  BY CurrentCall DEF TInv, Ordered, Done

\* A call that ends leaves the builds ordered.
LEMMA OrderedAfterAnswer ==
  ASSUME IInv, TInv, NEW b \in Build, Busy(b), Answered(b), begun' = begun
  PROVE  Ordered'
<1>1. b \in begun /\ \A c \in Build \ {b} : calls'[c] = calls[c]
  BY LeftAfterAnswer, CurrentFacts DEF IInv
<1> QED
  BY <1>1 DEF TInv, Ordered, Done, Busy

\* A call of b that ends without touching the store: what has to be known of b.
LEMMA EndedStep ==
  ASSUME IInv, TInv, NEW b \in Build, Busy(b), Answered(b),
         UNCHANGED <<clock, listening, store, begun, obtained, kept>>,
         lost' \in Nat, lost' >= lost, failed \subseteq failed',
         \A c \in Build \ {b} : read'[c] = read[c],
         Own(b)', Accounted(b)'
  PROVE  TInv'
<1>1. /\ calls'[b] \in Rest(b) /\ at'[b] = "idle"
      /\ \A c \in Build \ {b} : calls'[c] = calls[c] /\ Left(c)' = Left(c) /\ at'[c] = at[c]
  BY LeftAfterAnswer
<1>2. lost \in Nat
  BY DEF IInv, TypeOK
<1>3. ASSUME NEW c \in Build \ {b}
      PROVE  /\ calls'[c] \in Rest(c) /\ (at'[c] = "sent" => Left(c)' >= 2)
             /\ Own(c)' /\ Accounted(c)'
  BY <1>1, <1>2 DEF TInv, Own, Accounted, Reason, Peer, CutOff
<1>4. Ordered'
  BY OrderedAfterAnswer
<1>5. ASSUME NEW c \in Build
      PROVE  /\ calls'[c] \in Rest(c)' /\ (at'[c] = "sent" => Left(c)' >= 2)
             /\ Own(c)' /\ Accounted(c)'
  <2>1. Rest(c)' = Rest(c)
    BY DEF Rest, Reads, Post, Get, Mem
  <2> QED
    BY <1>1, <1>3, <2>1
<1> QED
  BY <1>4, <1>5 DEF TInv

\* A step that neither ends nor begins a call; it may end the engine.
LEMMA KeptStep ==
  ASSUME IInv, TInv, clock' \in Nat, clock' >= clock, listening' => listening,
         UNCHANGED <<store, calls, begun, obtained, kept, read, failed, lost>>,
         \A b \in Build : at'[b] = at[b] \/ at'[b] # "sent" \/ Left(b) >= 2
  PROVE  TInv'
<1>1. Ordered'
  BY DEF TInv, Ordered, Done, Busy
<1>2. ASSUME NEW b \in Build
      PROVE  /\ calls'[b] \in Rest(b)' /\ (at'[b] = "sent" => Left(b)' >= 2)
             /\ Own(b)' /\ Accounted(b)'
  <2>1. Rest(b)' = Rest(b) /\ Left(b)' = Left(b)
    BY DEF Rest, Reads, Post, Get, Mem, Left
  <2>2. calls'[b] \in Rest(b)' /\ (at'[b] = "sent" => Left(b)' >= 2) /\ Own(b)'
    BY <2>1 DEF TInv, Own, Peer, CutOff
  <2>3. Reason => Reason'
    BY KeyValueAssumption DEF Reason, IInv, TypeOK
  <2>4. Accounted(b)'
    BY <2>1, <2>3 DEF TInv, Accounted, CutOff
  <2> QED
    BY <2>2, <2>4
<1> QED
  BY <1>1, <1>2 DEF TInv

LEMMA TokenSend == ASSUME IInv, TInv, NEW b \in Build, Send(b) PROVE TInv'
<1>1. Left(b) \in 0..4 /\ Left(b) # 0 /\ (Left(b) = 1 => Current(b).do = "mem")
  BY CurrentCall DEF Send
<1>2. at'[b] = "sent" => Left(b) >= 2
  BY <1>1 DEF Send, IInv, TypeOK
<1>3. \A c \in Build \ {b} : at'[c] = at[c]
  BY DEF Send, IInv, TypeOK
<1>4. UNCHANGED <<clock, listening, store, calls, begun, obtained, kept, read, failed, lost>> /\ clock \in Nat
  BY DEF Send, IInv, TypeOK
<1> QED
  BY <1>2, <1>3, <1>4, KeptStep

LEMMA TokenLock == ASSUME IInv, TInv, NEW b \in Build, Lock(b) \/ RLock(b) PROVE TInv'
<1>1. \A c \in Build : at'[c] = at[c] \/ at'[c] # "sent"
  BY DEF Lock, RLock, IInv, TypeOK
<1>2. UNCHANGED <<clock, listening, store, calls, begun, obtained, kept, read, failed, lost>> /\ clock \in Nat
  BY DEF Lock, RLock, IInv, TypeOK
<1> QED
  BY <1>1, <1>2, KeptStep

\* A call without an answer: the call that was lost explains what is missing
\* from then on, or the engine has ended and there is no later read.
LEMMA TokenLose == ASSUME IInv, TInv, NEW b \in Build, Lose(b) PROVE TInv'
<1>1. Busy(b) /\ Answered(b) /\ UNCHANGED <<clock, listening, store, begun, obtained, kept, read, failed>>
  BY DEF Lose
<1>2. lost \in Nat /\ lost' \in Nat /\ lost' >= lost /\ (~listening \/ lost' > 0)
  BY DEF Lose, IInv, TypeOK
<1>3. Left(b) \in 2..4 /\ Left(b)' = Left(b) - 1
  BY <1>1, CurrentCall, LeftAfterAnswer DEF Lose
<1>4. Own(b)'
  BY <1>1, <1>2, <1>3 DEF TInv, Own, Accounted, Peer, CutOff
<1>5. Accounted(b)'
  BY <1>1, <1>2, <1>3 DEF TInv, Accounted, Reason, CutOff
<1> QED
  BY <1>1, <1>2, <1>4, <1>5, EndedStep

\* A call is refused: for its age, which is a reason, or for an empty id token.
LEMMA TokenAdmit == ASSUME IInv, TInv, NEW b \in Build, Admit(b) PROVE TInv'
<1>1. /\ Busy(b) /\ at[b] = "sent" /\ Left(b) >= 2
      /\ UNCHANGED <<clock, listening, store, begun, obtained, kept, read, lost>> /\ listening
  BY DEF Admit, IInv, UnderWay, TInv
<1>2. lost' \in Nat /\ lost' >= lost /\ clock' \in Nat /\ clock' >= clock
  BY <1>1 DEF IInv, TypeOK
<1>3. CASE ~ValidateToken
  <2>1. Answered(b) /\ failed' = failed \cup {b}
    BY <1>3 DEF Admit
  <2>2. Left(b) \in 2..4 /\ Left(b)' = Left(b) - 1
    BY <1>1, <2>1, LeftAfterAnswer
  <2>3. Reason'
    BY <1>1, <1>3 DEF ValidateToken, Reason
  <2>4. b \in failed' /\ failed \subseteq failed'
    BY <2>1
  <2>5. Own(b)'
    BY <1>1, <2>2, <2>4 DEF TInv, Own, Accounted, Peer, CutOff
  <2>6. Accounted(b)'
    BY <1>1, <2>2, <2>3 DEF TInv, Accounted, CutOff
  <2> QED
    BY <1>1, <1>2, <2>1, <2>4, <2>5, <2>6, EndedStep
<1>4. CASE ValidateToken /\ Current(b).value = Empty
  <2>1. Answered(b) /\ failed' = failed
    BY <1>4 DEF Admit
  <2>2. Left(b) = 4
    BY <1>1, <1>4, CurrentCall, KeyValueAssumption DEF None, Empty
  <2>3. Left(b)' = 3
    BY <1>1, <2>1, <2>2, LeftAfterAnswer
  <2>4. b \notin kept
    BY <2>2 DEF TInv, Own, CutOff
  <2>5. Own(b)'
    BY <1>1, <2>3, <2>4 DEF Own, CutOff
  <2>6. Accounted(b)'
    BY <1>1, <2>2, <2>3 DEF TInv, Accounted, CutOff
  <2> QED
    BY <1>1, <1>2, <2>1, <2>5, <2>6, EndedStep
<1>5. CASE ValidateToken /\ Current(b).value # Empty
  <2>1. at' = [at EXCEPT ![b] = "admitted"] /\ UNCHANGED <<calls, failed>>
    BY <1>5 DEF Admit
  <2>2. \A c \in Build : at'[c] = at[c] \/ at'[c] # "sent"
    BY <2>1 DEF IInv, TypeOK
  <2> QED
    BY <1>1, <1>2, <2>1, <2>2, KeptStep
<1> QED
  BY <1>3, <1>4, <1>5

\* A read gets what the store has: the token of a build of its group if its own
\* was stored, and none only with a reason or if no earlier group had any.
LEMMA TokenGet == ASSUME IInv, TInv, NEW b \in Build, GetVal(b) PROVE TInv'
<1>1. /\ Busy(b) /\ Answered(b) /\ b \in begun
      /\ UNCHANGED <<clock, listening, store, begun, obtained, kept, failed, lost>> /\ listening
  BY CurrentFacts DEF GetVal, IInv, UnderWay
<1>2. Left(b) \in 1..2 /\ Left(b)' = Left(b) - 1
  BY <1>1, CurrentCall, LeftAfterAnswer DEF GetVal
<1>3. lost' \in Nat /\ lost' >= lost /\ \A c \in Build \ {b} : read'[c] = read[c]
  BY <1>1 DEF GetVal, IInv, TypeOK
<1>4. read[b] \in [get : Build \cup {None}, mem : Build \cup {None}]
  BY DEF IInv, TypeOK
<1>5. b \in kept => Peer(b, store["accesstoken"])
  BY <1>2 DEF TInv, Own, CutOff
<1>6. CASE Left(b) = 2
  <2>1. read'[b].get = store["accesstoken"]
    BY <1>4, <1>6, CurrentCall DEF GetVal, IInv, TypeOK
  <2>2. Left(b)' = 1
    BY <1>2, <1>6
  <2>3. Own(b)'
    BY <1>1, <1>5, <2>1, <2>2 DEF Own, Peer, CutOff
  <2>4. ASSUME store["accesstoken"] = None, ~Reason, NEW c \in obtained
        PROVE  Group[c] >= Group[b] /\ c # b
    <3>1. c \in Build /\ Group[c] \in Nat /\ Group[b] \in Nat
      BY KeyValueAssumption DEF IInv, TypeOK
    <3>2. ~(Left(c) <= 2)
      BY <1>1, <2>4, <3>1 DEF TInv, Accounted, CutOff
    <3>3. c # b
      BY <1>6, <3>2
    <3>4. ~(Group[c] < Group[b])
      BY <1>1, <3>1, <3>2, BusyIsLast
    <3> QED
      BY <3>1, <3>3, <3>4
  <2>5. Reason' = Reason
    BY <1>1 DEF Reason
  <2>6. Accounted(b)'
    BY <1>1, <1>6, <2>1, <2>2, <2>4, <2>5 DEF TInv, Accounted, CutOff
  <2> QED
    BY <1>1, <1>3, <2>3, <2>6, EndedStep
<1>7. CASE Left(b) = 1
  <2>1. read'[b].get = read[b].get /\ read'[b].mem = store["accesstoken"]
    BY <1>4, <1>7, CurrentCall DEF GetVal, IInv, TypeOK
  <2>2. Left(b)' = 0
    BY <1>2, <1>7
  <2>3. Own(b)'
    BY <1>1, <1>5, <1>7, <2>1, <2>2 DEF TInv, Own, Peer, CutOff
  <2>4. Reason' = Reason
    BY <1>1 DEF Reason
  <2>5. Accounted(b)'
    BY <1>1, <1>7, <2>1, <2>2, <2>4 DEF TInv, Accounted, CutOff
  <2> QED
    BY <1>1, <1>3, <2>3, <2>5, EndedStep
<1> QED
  BY <1>2, <1>6, <1>7

\* A token is stored: whoever still has a read to do is of the same group.
LEMMA TokenSet == ASSUME IInv, TInv, NEW b \in Build, SetVal(b) PROVE TInv'
<1>1. /\ Busy(b) /\ Answered(b) /\ b \in begun
      /\ UNCHANGED <<clock, listening, begun, obtained, read, failed, lost>> /\ listening
  BY CurrentFacts DEF SetVal, IInv, UnderWay
<1>2. /\ Left(b) \in 3..4 /\ Left(b)' = Left(b) - 1
      /\ calls'[b] \in Rest(b) /\ at'[b] = "idle"
      /\ \A c \in Build \ {b} : calls'[c] = calls[c] /\ Left(c)' = Left(c) /\ at'[c] = at[c]
  BY <1>1, CurrentCall, LeftAfterAnswer DEF SetVal
<1>3. b \notin kept
  BY <1>2 DEF TInv, Own, CutOff
<1>4. \/ Left(b) = 4 /\ kept' = kept /\ store'["accesstoken"] = store["accesstoken"]
      \/ Left(b) = 3 /\ kept' = kept \cup {b} /\ store'["accesstoken"] = b
  BY <1>2, CurrentCall DEF SetVal, IInv, TypeOK, Key
<1>5. Peer(b, b) /\ Peer(b, b)'
  BY KeyValueAssumption DEF Peer
<1>6. ASSUME NEW c \in Build \ {b}, c \in kept, Left(c) # 0
      PROVE  Group[c] = Group[b]
  <2>1. c \in begun /\ Group[c] \in Nat /\ Group[b] \in Nat
    BY <1>6, KeyValueAssumption DEF IInv, TypeOK
  <2>2. ~(Group[c] < Group[b]) /\ ~(Group[b] < Group[c])
    BY <1>1, <1>2, <1>6, <2>1, BusyIsLast
  <2> QED
    BY <2>1, <2>2
<1>7. Reason' = Reason
  BY <1>1 DEF Reason
<1>8. ASSUME NEW c \in Build
      PROVE  Own(c)' /\ Accounted(c)' /\ calls'[c] \in Rest(c)' /\ (at'[c] = "sent" => Left(c)' >= 2)
  <2>0. Rest(c)' = Rest(c)
    BY DEF Rest, Reads, Post, Get, Mem
  <2>1. CASE c = b
    <3>1. Own(b)'
      BY <1>1, <1>2, <1>3, <1>4, <1>5 DEF Own, CutOff
    <3>2. Accounted(b)'
      BY <1>1, <1>2, <1>4, <1>7, KeyValueAssumption DEF TInv, Accounted, CutOff
    <3> QED
      BY <1>2, <2>0, <2>1, <3>1, <3>2
  <2>2. CASE c # b
    <3>1. (c \in kept' <=> c \in kept) /\ Left(c)' = Left(c)
      BY <1>2, <1>4, <2>2
    <3>2. c \in kept /\ Left(c) # 0 => Peer(c, store'["accesstoken"])
      BY <1>4, <1>6, <2>2 DEF TInv, Own, Peer, CutOff
    <3>3. Own(c)'
      BY <1>1, <3>1, <3>2 DEF TInv, Own, Peer, CutOff
    <3>4. store["accesstoken"] # None => store'["accesstoken"] # None
      BY <1>4, KeyValueAssumption
    <3>5. Accounted(c)'
      BY <1>1, <1>7, <3>1, <3>4 DEF TInv, Accounted, CutOff
    <3> QED
      BY <1>2, <2>0, <2>2, <3>3, <3>5 DEF TInv
  <2> QED
    BY <2>1, <2>2
<1>9. Ordered'
  BY <1>1, OrderedAfterAnswer
<1> QED
  BY <1>8, <1>9 DEF TInv

LEMMA TwoAndTwo ==
  ASSUME NEW u, NEW v, NEW x, NEW y
  PROVE  <<u, v>> \o <<x, y>> = <<u, v, x, y>> /\ Len(<<u, v>> \o <<x, y>>) = 4
<1> DEFINE S == {u, v, x, y}
           s == <<u, v>>
           t == <<x, y>>
           w == <<u, v, x, y>>
<1>1. /\ s \in Seq(S) /\ Len(s) = 2 /\ s[1] = u /\ s[2] = v
      /\ t \in Seq(S) /\ Len(t) = 2 /\ t[1] = x /\ t[2] = y
      /\ w \in Seq(S) /\ Len(w) = 4 /\ w[1] = u /\ w[2] = v /\ w[3] = x /\ w[4] = y
  OBVIOUS
<1> HIDE DEF S, s, t, w
<1>2. s \o t \in Seq(S) /\ Len(s \o t) = Len(s) + Len(t)
  BY ONLY <1>1, ConcatProperties
<1>3. \A i \in 1..(Len(s) + Len(t)) : (s \o t)[i] = IF i <= Len(s) THEN s[i] ELSE t[i - Len(s)]
  BY ONLY <1>1, ConcatProperties
<1>4. Len(s \o t) = Len(w) /\ \A i \in 1..Len(w) : (s \o t)[i] = w[i]
  <2> DEFINE r == s \o t
  <2> HIDE DEF r
  <2>1. Len(r) = 4 /\ \A i \in 1..4 : r[i] = IF i <= 2 THEN s[i] ELSE t[i - 2]
    BY <1>1, <1>2, <1>3 DEF r
  <2>2. r[1] = w[1] /\ r[2] = w[2]
    BY <1>1, <2>1
  <2>3. r[3] = w[3]
    BY <1>1, <2>1
  <2>4. r[4] = w[4]
    BY <1>1, <2>1
  <2>5. \A i \in 1..4 : i = 1 \/ i = 2 \/ i = 3 \/ i = 4
    OBVIOUS
  <2>6. Len(r) = Len(w) /\ \A i \in 1..Len(w) : r[i] = w[i]
    BY ONLY <1>1, <2>1, <2>2, <2>3, <2>4, <2>5
  <2> QED
    BY <2>6 DEF r
<1>5. s \o t = w
  BY <1>1, <1>2, <1>4, SeqEqual
<1> QED
  BY <1>1, <1>2, <1>5 DEF s, t, w

\* A build begins: the earlier groups are done, so that their reads are over.
LEMMA TokenBegin == ASSUME IInv, TInv, NEW b \in Build, Begin(b) PROVE TInv'
<1>1. PICK posts \in { <<>>,
                       <<Post("idtoken", b), Post("accesstoken", b)>>,
                       <<Post("idtoken", Empty), Post("accesstoken", b)>> } :
        /\ calls' = [calls EXCEPT ![b] = posts \o <<Get, Mem>>]
        /\ obtained' = IF posts = <<>> THEN obtained ELSE obtained \cup {b}
  BY DEF Begin
<1>2. /\ b \notin begun /\ begun' = begun \cup {b}
      /\ \A c \in Build : Group[c] < Group[b] => Done(c)
      /\ UNCHANGED <<clock, listening, store, at, kept, read, failed, lost>>
  BY DEF Begin
<1>3. posts \o <<Get, Mem>> \in Rest(b) /\ Len(posts \o <<Get, Mem>>) = IF posts = <<>> THEN 2 ELSE 4
  <2>1. CASE posts = <<>>
    <3>1. posts \o <<Get, Mem>> = <<Get, Mem>>
      BY <2>1
    <3> QED
      BY <2>1, <3>1 DEF Rest, Reads
  <2>2. ASSUME NEW v \in {b, Empty}, posts = <<Post("idtoken", v), Post("accesstoken", b)>>
        PROVE  posts \o <<Get, Mem>> \in Rest(b) /\ Len(posts \o <<Get, Mem>>) = 4 /\ posts # <<>>
    <3>1. /\ posts \o <<Get, Mem>> = <<Post("idtoken", v), Post("accesstoken", b), Get, Mem>>
          /\ Len(posts \o <<Get, Mem>>) = 4
      <4> DEFINE i == Post("idtoken", v)
                 a == Post("accesstoken", b)
                 g == Get
                 m == Mem
      <4>1. posts = <<i, a>>
        BY <2>2
      <4> HIDE DEF i, a, g, m
      <4>2. <<i, a>> \o <<g, m>> = <<i, a, g, m>> /\ Len(<<i, a>> \o <<g, m>>) = 4
        BY ONLY TwoAndTwo, SMT
      <4>3. posts \o <<g, m>> = <<i, a, g, m>> /\ Len(posts \o <<g, m>>) = 4
        BY ONLY <4>1, <4>2, Zenon
      <4> QED
        BY <4>3 DEF i, a, g, m
    <3>2. posts \o <<Get, Mem>> \in Rest(b)
      BY <3>1 DEF Rest
    <3>3. posts # <<>>
      BY <2>2
    <3> QED
      BY <3>1, <3>2, <3>3
  <2> QED
    BY <2>1, <2>2
<1>4. /\ calls'[b] \in Rest(b) /\ Left(b)' \in {2, 4} /\ (posts # <<>> => Left(b)' = 4)
      /\ \A c \in Build \ {b} : calls'[c] = calls[c] /\ Left(c)' = Left(c)
  <2> DEFINE q == posts \o <<Get, Mem>>
  <2>1. calls' = [calls EXCEPT ![b] = q] /\ q \in Rest(b) /\ Len(q) = IF posts = <<>> THEN 2 ELSE 4
    BY <1>1, <1>3
  <2> HIDE DEF q
  <2> QED
    BY <2>1 DEF IInv, Calls, Left
<1>5. obtained \subseteq obtained' /\ obtained' \subseteq obtained \cup {b} /\ b \notin kept /\ b \notin obtained
  BY <1>1, <1>2 DEF IInv, TypeOK
<1>6. at[b] = "idle"
  BY <1>2 DEF IInv, TypeOK, Calls, UnderWay
<1>7. Reason' = Reason
  BY <1>2 DEF Reason
<1>8. Ordered'
  BY <1>2, <1>4 DEF TInv, Ordered, Done, Busy
<1>9. ASSUME NEW c \in Build
      PROVE  Own(c)' /\ Accounted(c)' /\ calls'[c] \in Rest(c)' /\ (at'[c] = "sent" => Left(c)' >= 2)
  <2>0. Rest(c)' = Rest(c)
    BY DEF Rest, Reads, Post, Get, Mem
  <2>1. CASE c = b
    <3>2. Own(b)'
      BY <1>2, <1>5 DEF Own, CutOff
    <3>3. Accounted(b)'
      BY <1>1, <1>2, <1>4, <1>5 DEF TInv, Accounted, CutOff
    <3> QED
      BY <1>2, <1>4, <1>6, <2>0, <2>1, <3>2, <3>3
  <2>2. CASE c # b
    <3>1. Left(c)' = Left(c) /\ (c \in obtained' <=> c \in obtained) /\ (c \in begun' <=> c \in begun)
      BY <1>2, <1>4, <1>5, <2>2
    <3>2. Own(c)'
      BY <1>2, <3>1 DEF TInv, Own, Peer, CutOff
    <3>3. c \in begun => Group[b] >= Group[c] /\ b # c
      BY <1>2, <2>2, KeyValueAssumption DEF TInv, Ordered, Done
    <3>4. Accounted(c)'
      BY <1>2, <1>5, <1>7, <3>1, <3>3 DEF TInv, Accounted, CutOff
    <3> QED
      BY <1>2, <1>4, <2>0, <2>2, <3>1, <3>2, <3>4 DEF TInv
  <2> QED
    BY <2>1, <2>2
<1> QED
  BY <1>8, <1>9 DEF TInv

LEMMA InitToken == Init => TInv
<1>1. SUFFICES ASSUME Init PROVE TInv
  OBVIOUS
<1>2. Ordered
  BY <1>1 DEF Init, Ordered
<1>3. ASSUME NEW b \in Build
      PROVE  calls[b] \in Rest(b) /\ (at[b] = "sent" => Left(b) >= 2) /\ Own(b) /\ Accounted(b)
  BY <1>1 DEF Init, Rest, Reads, Own, Accounted, CutOff
<1> QED
  BY <1>2, <1>3 DEF TInv

LEMMA TokenInvariant == Spec => []TInv
<1>1. IInv /\ TInv /\ [Next]_vars => TInv'
  <2>1. SUFFICES ASSUME IInv, TInv, [Next]_vars PROVE TInv'
    OBVIOUS
  <2>2. CASE UNCHANGED vars \/ Tick \/ StopServer
    <3>1. /\ clock' \in Nat /\ clock' >= clock /\ (listening' => listening)
          /\ UNCHANGED <<store, calls, at, begun, obtained, kept, read, failed, lost>>
      BY <2>1, <2>2 DEF vars, Tick, StopServer, IInv, TypeOK
    <3> QED
      BY <2>1, <3>1, KeptStep
  <2>3. ASSUME NEW b \in Build, Client(b) \/ Handler(b) PROVE TInv'
    BY <2>1, <2>3, TokenBegin, TokenSend, TokenLose, TokenAdmit, TokenLock, TokenGet, TokenSet
       DEF Client, Handler
  <2>4. ASSUME NEW b \in Build, ExecuteBuildFails(b) PROVE TInv'
    <3>1. /\ \A c \in Build : at'[c] = "idle"
          /\ clock' \in Nat /\ clock' >= clock /\ (listening' => listening)
          /\ UNCHANGED <<store, calls, begun, obtained, kept, read, failed, lost>>
      BY <2>1, <2>4 DEF ExecuteBuildFails, IInv, TypeOK
    <3> QED
      BY <2>1, <3>1, KeptStep
  <2> QED
    BY <2>1, <2>2, <2>3, <2>4 DEF Next
<1> QED
  BY InitToken, Invariant, <1>1, PTL DEF Spec

\* For any builds and groups, a build whose token was stored gets its own or
\* that of a build of its group.
THEOREM TokensStayInTheGroup == Spec => []OwnTokenRead
<1>1. TInv => OwnTokenRead
  BY CurrentCall DEF TInv, Own, OwnTokenRead, Done, CutOff
<1> QED
  BY <1>1, TokenInvariant, PTL

\* For any builds and groups, a build that gets no token is explained by a lost
\* call, an expired bearer token, or groups that were given none.
THEOREM MissingTokensExplained == Spec => []EmptyExplained
<1>1. TInv => EmptyExplained
  BY CurrentCall DEF TInv, Accounted, Reason, EmptyExplained, Done, CutOff
<1> QED
  BY <1>1, TokenInvariant, PTL
================================================================================
