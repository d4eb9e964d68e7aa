------------------------------ MODULE Sonar_proofs ------------------------------
(***************************************************************************)
(* Proofs about the shared SonarQube server, for any number of builds, of  *)
(* failing calls and of runs.  The argument is that of a lock: a build in  *)
(* the critical section is the only holder, so what it has read of the     *)
(* server (no metadata, a changed password) stays true until it acts.      *)
(***************************************************************************)
EXTENDS Sonar, TLAPS

------------------------------------------------------------------------------
(* The invariant *)

\* A build between Lock and Unlock holds the lock, alone; only the builds of
\* the local environment ask for it.
Exclusive ==
  \A b \in Build :
    /\ pc[b] \in Leading => holder = {b}
    /\ pc[b] \in Leading \cup {"wait"} => env = "local"

\* What the build in the critical section knows of the server.
Knows ==
  \A b \in Build :
    /\ pc[b] \in {"password", "generate", "save"} => ~metadata
    /\ pc[b] = "generate" => ~password
    /\ pc[b] = "save" => issued

\* The file holds a token that the server has issued.
MetadataIssued == metadata => issued

IInv ==
  /\ TypeOK /\ Exclusive /\ Knows /\ MetadataIssued
  /\ ScansWithItsToken /\ LostOnlyByCrash /\ ExitExplained

LEMMA InitInv == Init => IInv
<1>1. SUFFICES ASSUME Init PROVE IInv
  OBVIOUS
<1>2. TypeOK
  <2>1. pc \in [Build -> Places] /\ token \in [Build -> {"local", "env"}]
    BY <1>1 DEF Init, Places
  <2>2. /\ runtime \in Runtimes /\ env \in Envs /\ state = "none" /\ exited = "no"
        /\ password \in BOOLEAN /\ issued \in BOOLEAN /\ metadata \in BOOLEAN
    BY <1>1 DEF Init
  <2>3. holder = {} /\ run = 1 /\ faults = 0
    BY <1>1 DEF Init
  <2> QED
    BY <2>1, <2>2, <2>3 DEF TypeOK
<1>3. Exclusive /\ Knows /\ MetadataIssued
  BY <1>1 DEF Init, Exclusive, Knows, MetadataIssued, Leading
<1>4. ScansWithItsToken /\ LostOnlyByCrash /\ ExitExplained
  BY <1>1 DEF Init, ScansWithItsToken, LostOnlyByCrash, Lost, ExitExplained
<1> QED
  BY <1>2, <1>3, <1>4 DEF IInv

------------------------------------------------------------------------------
(* Every step, one after the other *)

\* Types.
LEMMA TypeStep == TypeOK /\ [Next]_vars => TypeOK'
<1>1. SUFFICES ASSUME TypeOK, [Next]_vars PROVE TypeOK'
  OBVIOUS
<1> USE <1>1 DEF TypeOK, Stays, server
<1>2. CASE UNCHANGED vars
  BY <1>2 DEF vars
<1>3. ASSUME NEW b \in Build, Step(b) \/ Fails(b) PROVE TypeOK'
  <2> USE DEF Goes, Exits, Places, Leading
  <2>1. CASE Begin(b)
    BY <2>1 DEF Begin
  <2>2. CASE TryLock(b)
    BY <2>2 DEF TryLock
  <2>3. CASE Lock(b)
    BY <2>3 DEF Lock
  <2>4. CASE Unlock(b)
    BY <2>4 DEF Unlock
  <2>5. CASE Fails(b)
    BY <2>5 DEF Fails, Fault
  <2>6. CASE Pull(b)
    BY <2>6 DEF Pull
  <2>7. CASE Create(b)
    BY <2>7 DEF Create
  <2>8. CASE Start(b)
    BY <2>8 DEF Start
  <2>9. CASE Ready(b)
    BY <2>9 DEF Ready
  <2>10. CASE ReadMetadata(b)
    BY <2>10 DEF ReadMetadata
  <2>11. CASE ChangePassword(b)
    BY <2>11 DEF ChangePassword
  <2>12. CASE GenerateToken(b)
    BY <2>12 DEF GenerateToken
  <2>13. CASE SaveMetadata(b)
    BY <2>13 DEF SaveMetadata
  <2>14. CASE Analyze(b)
    BY <2>14 DEF Analyze
  <2> QED
    BY <1>3, <2>1, <2>2, <2>3, <2>4, <2>5, <2>6, <2>7, <2>8, <2>9, <2>10, <2>11, <2>12,
       <2>13, <2>14 DEF Step, Setup, Election
<1>4. CASE Boots
  BY <1>4 DEF Boots
<1>5. CASE Kill
  BY <1>5 DEF Kill
<1>6. CASE Rerun
  BY <1>6 DEF Rerun, Places
<1> QED
  BY <1>1, <1>2, <1>3, <1>4, <1>5, <1>6 DEF Next

\* The lock: TryLock and Lock find it free, Unlock gives it back.
LEMMA ExclusiveStep == IInv /\ [Next]_vars => Exclusive'
<1>1. SUFFICES ASSUME IInv, [Next]_vars PROVE Exclusive'
  OBVIOUS
<1> USE <1>1 DEF IInv, TypeOK, Stays, server, Exclusive
<1>2. CASE UNCHANGED vars
  BY <1>2 DEF vars
<1>3. ASSUME NEW b \in Build, Step(b) \/ Fails(b) PROVE Exclusive'
  <2> USE DEF Goes, Exits, Leading
  <2>1. CASE Begin(b)
    BY <2>1 DEF Begin
  <2>2. CASE TryLock(b)
    BY <2>2 DEF TryLock
  <2>3. CASE Lock(b)
    <3>1. holder = {} /\ holder' = {b} /\ pc[b] = "wait" /\ pc' = [pc EXCEPT ![b] = "pull"] /\ env' = env
      BY <2>3 DEF Lock
    <3>2. \A c \in Build : pc[c] \notin Leading
      BY <3>1
    <3>3. env = "local"
      BY <3>1
    <3>4. pc \in [Build -> Places]
      OBVIOUS
    <3> QED
      BY <3>1, <3>2, <3>3, <3>4
  <2>4. CASE Unlock(b)
    <3>1. holder = {b} /\ pc[b] = "leave" /\ pc' = [pc EXCEPT ![b] = "scan"] /\ env' = env
      BY <2>4 DEF Unlock
    <3>2. \A c \in Build : pc'[c] \notin Leading
      BY <3>1
    <3>3. pc'[b] = "scan" /\ \A c \in Build \ {b} : pc'[c] = pc[c]
      BY <3>1
    <3> QED
      BY <3>1, <3>2, <3>3
  <2>5. CASE Fails(b)
    BY <2>5 DEF Fails, Fault
  <2>6. CASE Pull(b)
    BY <2>6 DEF Pull
  <2>7. CASE Create(b)
    BY <2>7 DEF Create
  <2>8. CASE Start(b)
    BY <2>8 DEF Start
  <2>9. CASE Ready(b)
    BY <2>9 DEF Ready
  <2>10. CASE ReadMetadata(b)
    BY <2>10 DEF ReadMetadata
  <2>11. CASE ChangePassword(b)
    BY <2>11 DEF ChangePassword
  <2>12. CASE GenerateToken(b)
    BY <2>12 DEF GenerateToken
  <2>13. CASE SaveMetadata(b)
    BY <2>13 DEF SaveMetadata
  <2>14. CASE Analyze(b)
    BY <2>14 DEF Analyze
  <2> QED
    BY <1>3, <2>1, <2>2, <2>3, <2>4, <2>5, <2>6, <2>7, <2>8, <2>9, <2>10, <2>11, <2>12,
       <2>13, <2>14 DEF Step, Setup, Election
<1>4. CASE Boots
  BY <1>4 DEF Boots
<1>5. CASE Kill
  BY <1>5 DEF Kill
<1>6. CASE Rerun
  BY <1>6 DEF Rerun, Leading
<1> QED
  BY <1>1, <1>2, <1>3, <1>4, <1>5, <1>6 DEF Next

\* What a build has seen of the server: only the holder changes it.
LEMMA KnowsStep == IInv /\ [Next]_vars => Knows'
<1>1. SUFFICES ASSUME IInv, [Next]_vars PROVE Knows'
  OBVIOUS
<1> USE <1>1 DEF IInv, TypeOK, Stays, server, Exclusive, Knows
<1>2. CASE UNCHANGED vars
  BY <1>2 DEF vars
<1>3. ASSUME NEW b \in Build, Step(b) \/ Fails(b) PROVE Knows'
  <2> USE DEF Goes, Exits, Leading
  <2>1. CASE Begin(b)
    BY <2>1 DEF Begin
  <2>2. CASE TryLock(b)
    BY <2>2 DEF TryLock
  <2>3. CASE Lock(b)
    BY <2>3 DEF Lock
  <2>4. CASE Unlock(b)
    BY <2>4 DEF Unlock
  <2>5. CASE Fails(b)
    BY <2>5 DEF Fails, Fault
  <2>6. CASE Pull(b)
    BY <2>6 DEF Pull
  <2>7. CASE Create(b)
    BY <2>7 DEF Create
  <2>8. CASE Start(b)
    BY <2>8 DEF Start
  <2>9. CASE Ready(b)
    BY <2>9 DEF Ready
  <2>10. CASE ReadMetadata(b)
    BY <2>10 DEF ReadMetadata
  <2>11. CASE ChangePassword(b)
    BY <2>11 DEF ChangePassword
  <2>12. CASE GenerateToken(b)
    BY <2>12 DEF GenerateToken
  <2>13. CASE SaveMetadata(b)
    BY <2>13 DEF SaveMetadata
  <2>14. CASE Analyze(b)
    BY <2>14 DEF Analyze
  <2> QED
    BY <1>3, <2>1, <2>2, <2>3, <2>4, <2>5, <2>6, <2>7, <2>8, <2>9, <2>10, <2>11, <2>12,
       <2>13, <2>14 DEF Step, Setup, Election
<1>4. CASE Boots
  BY <1>4 DEF Boots
<1>5. CASE Kill
  BY <1>5 DEF Kill
<1>6. CASE Rerun
  BY <1>6 DEF Rerun, Leading
<1> QED
  BY <1>1, <1>2, <1>3, <1>4, <1>5, <1>6 DEF Next

\* The token and its file.
LEMMA ScansStep == IInv /\ [Next]_vars => (MetadataIssued /\ ScansWithItsToken)'
<1>1. SUFFICES ASSUME IInv, [Next]_vars PROVE (MetadataIssued /\ ScansWithItsToken)'
  OBVIOUS
<1> USE <1>1 DEF IInv, TypeOK, Stays, server, Exclusive, Knows, MetadataIssued, ScansWithItsToken
<1>2. CASE UNCHANGED vars
  BY <1>2 DEF vars
<1>3. ASSUME NEW b \in Build, Step(b) \/ Fails(b) PROVE (MetadataIssued /\ ScansWithItsToken)'
  <2> USE DEF Goes, Exits, Leading
  <2>1. CASE Begin(b)
    BY <2>1 DEF Begin
  <2>2. CASE TryLock(b)
    BY <2>2 DEF TryLock
  <2>3. CASE Lock(b)
    BY <2>3 DEF Lock
  <2>4. CASE Unlock(b)
    BY <2>4 DEF Unlock
  <2>5. CASE Fails(b)
    BY <2>5 DEF Fails, Fault
  <2>6. CASE Pull(b)
    BY <2>6 DEF Pull
  <2>7. CASE Create(b)
    BY <2>7 DEF Create
  <2>8. CASE Start(b)
    BY <2>8 DEF Start
  <2>9. CASE Ready(b)
    BY <2>9 DEF Ready
  <2>10. CASE ReadMetadata(b)
    BY <2>10 DEF ReadMetadata
  <2>11. CASE ChangePassword(b)
    BY <2>11 DEF ChangePassword
  <2>12. CASE GenerateToken(b)
    BY <2>12 DEF GenerateToken
  <2>13. CASE SaveMetadata(b)
    BY <2>13 DEF SaveMetadata
  <2>14. CASE Analyze(b)
    BY <2>14 DEF Analyze
  <2> QED
    BY <1>3, <2>1, <2>2, <2>3, <2>4, <2>5, <2>6, <2>7, <2>8, <2>9, <2>10, <2>11, <2>12,
       <2>13, <2>14 DEF Step, Setup, Election
<1>4. CASE Boots
  BY <1>4 DEF Boots
<1>5. CASE Kill
  BY <1>5 DEF Kill
<1>6. CASE Rerun
  BY <1>6 DEF Rerun, Leading
<1> QED
  BY <1>1, <1>2, <1>3, <1>4, <1>5, <1>6 DEF Next

\* A token outside the file has a holder who saves it.
LEMMA LostStep == IInv /\ [Next]_vars => LostOnlyByCrash'
<1>1. SUFFICES ASSUME IInv, [Next]_vars PROVE LostOnlyByCrash'
  OBVIOUS
<1> USE <1>1 DEF IInv, TypeOK, Stays, server, Exclusive, Knows, MetadataIssued, LostOnlyByCrash, Lost
<1>2. CASE UNCHANGED vars
  BY <1>2 DEF vars
<1>3. ASSUME NEW b \in Build, Step(b) \/ Fails(b) PROVE LostOnlyByCrash'
  <2> USE DEF Goes, Exits, Leading
  <2>1. CASE Begin(b)
    BY <2>1 DEF Begin
  <2>2. CASE TryLock(b)
    BY <2>2 DEF TryLock
  <2>3. CASE Lock(b)
    BY <2>3 DEF Lock
  <2>4. CASE Unlock(b)
    BY <2>4 DEF Unlock
  <2>5. CASE Fails(b)
    BY <2>5 DEF Fails, Fault
  <2>6. CASE Pull(b)
    BY <2>6 DEF Pull
  <2>7. CASE Create(b)
    BY <2>7 DEF Create
  <2>8. CASE Start(b)
    BY <2>8 DEF Start
  <2>9. CASE Ready(b)
    BY <2>9 DEF Ready
  <2>10. CASE ReadMetadata(b)
    BY <2>10 DEF ReadMetadata
  <2>11. CASE ChangePassword(b)
    BY <2>11 DEF ChangePassword
  <2>12. CASE GenerateToken(b)
    BY <2>12 DEF GenerateToken
  <2>13. CASE SaveMetadata(b)
    BY <2>13 DEF SaveMetadata
  <2>14. CASE Analyze(b)
    BY <2>14 DEF Analyze
  <2> QED
    BY <1>3, <2>1, <2>2, <2>3, <2>4, <2>5, <2>6, <2>7, <2>8, <2>9, <2>10, <2>11, <2>12,
       <2>13, <2>14 DEF Step, Setup, Election
<1>4. CASE Boots
  BY <1>4 DEF Boots
<1>5. CASE Kill
  BY <1>5 DEF Kill
<1>6. CASE Rerun
  BY <1>6 DEF Rerun, Leading
<1> QED
  BY <1>1, <1>2, <1>3, <1>4, <1>5, <1>6 DEF Next

\* Why a build ends the process.
LEMMA ExitStep == IInv /\ [Next]_vars => ExitExplained'
<1>1. SUFFICES ASSUME IInv, [Next]_vars PROVE ExitExplained'
  OBVIOUS
<1> USE <1>1 DEF IInv, TypeOK, Stays, server, Exclusive, Knows, MetadataIssued, LostOnlyByCrash, ExitExplained, Lost
<1>2. CASE UNCHANGED vars
  BY <1>2 DEF vars
<1>3. ASSUME NEW b \in Build, Step(b) \/ Fails(b) PROVE ExitExplained'
  <2> USE DEF Goes, Exits, Leading
  <2>1. CASE Begin(b)
    BY <2>1 DEF Begin
  <2>2. CASE TryLock(b)
    BY <2>2 DEF TryLock
  <2>3. CASE Lock(b)
    BY <2>3 DEF Lock
  <2>4. CASE Unlock(b)
    BY <2>4 DEF Unlock
  <2>5. CASE Fails(b)
    BY <2>5 DEF Fails, Fault
  <2>6. CASE Pull(b)
    BY <2>6 DEF Pull
  <2>7. CASE Create(b)
    BY <2>7 DEF Create
  <2>8. CASE Start(b)
    BY <2>8 DEF Start
  <2>9. CASE Ready(b)
    BY <2>9 DEF Ready
  <2>10. CASE ReadMetadata(b)
    BY <2>10 DEF ReadMetadata
  <2>11. CASE ChangePassword(b)
    BY <2>11 DEF ChangePassword
  <2>12. CASE GenerateToken(b)
    BY <2>12 DEF GenerateToken
  <2>13. CASE SaveMetadata(b)
    BY <2>13 DEF SaveMetadata
  <2>14. CASE Analyze(b)
    BY <2>14 DEF Analyze
  <2> QED
    BY <1>3, <2>1, <2>2, <2>3, <2>4, <2>5, <2>6, <2>7, <2>8, <2>9, <2>10, <2>11, <2>12,
       <2>13, <2>14 DEF Step, Setup, Election
<1>4. CASE Boots
  BY <1>4 DEF Boots
<1>5. CASE Kill
  BY <1>5 DEF Kill
<1>6. CASE Rerun
  BY <1>6 DEF Rerun, Leading
<1> QED
  BY <1>1, <1>2, <1>3, <1>4, <1>5, <1>6 DEF Next

LEMMA Invariant == Spec => []IInv
<1>1. IInv /\ [Next]_vars => IInv'
  <2>1. SUFFICES ASSUME IInv, [Next]_vars PROVE IInv'
    OBVIOUS
  <2>2. TypeOK'
    BY <2>1, TypeStep DEF IInv
  <2> QED
    BY <2>1, <2>2, ExclusiveStep, KnowsStep, ScansStep, LostStep, ExitStep DEF IInv
<1> QED
  BY InitInv, <1>1, PTL DEF Spec

------------------------------------------------------------------------------
(* The properties *)

\* Every value has its type: in particular the leader lock has one holder.
THEOREM SonarTypes == Spec => []TypeOK
<1>1. IInv => TypeOK
  BY DEF IInv
<1> QED
  BY <1>1, Invariant, PTL

\* A build of the local environment that leaves the set-up has the token of
\* the shared server, and the token is in its file.
THEOREM LocalBuildsHaveTheToken == Spec => []ScansWithItsToken
<1>1. IInv => ScansWithItsToken
  BY DEF IInv
<1> QED
  BY <1>1, Invariant, PTL

\* However many builds race for the set-up, only an interrupted process or a
\* failure loses a token.
THEOREM TokenLostOnlyByCrash == Spec => []LostOnlyByCrash
<1>1. IInv => LostOnlyByCrash
  BY DEF IInv
<1> QED
  BY <1>1, Invariant, PTL

\* Nothing but a failing call, a token lost by an earlier process, or a
\* container that Podman already has ends the process.
THEOREM EveryExitHasItsCause == Spec => []ExitExplained
<1>1. IInv => ExitExplained
  BY DEF IInv
<1> QED
  BY <1>1, Invariant, PTL
=============================================================================
